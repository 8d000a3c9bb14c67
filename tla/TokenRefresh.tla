---------------------------- MODULE TokenRefresh -----------------------------
(***************************************************************************)
(* The refresh of one OAuth account whose provider rotates the refresh     *)
(* token at every use: the background loops and the requests that go       *)
(* through RefreshIfNeeded (local mutex, Redis lock, second read, recovery *)
(* from a lost race), the administrator's manual refresh, edit and         *)
(* re-authorisation that write the same row without the lock.  A token     *)
(* stands for the credentials issued with it.                              *)
(* Source: service/oauth_refresh_api.go, service/token_refresh_service.go, *)
(* repository/gemini_token_cache.go, service/admin_account.go,             *)
(* handler/admin/account_handler.go.                                       *)
(***************************************************************************)
EXTENDS Naturals

CONSTANTS
  Loops,      \* background refresh loops, one per instance
  Handlers,   \* goroutines that serve requests of clients and administrators
  Instances,  \* the server instances, each the set of its loops and handlers
  NoProc,     \* the value of a lock nobody holds
  Ops,        \* what handlers do, a subset of AllOps
  MaxTokens,  \* bound: tokens issued before the last one ages
  MaxFaults   \* bound: crashes, failed statements and calls, expired locks

Procs  == Loops \cup Handlers
AllOps == {"refresh", "manual", "edit", "authorise"}

ASSUME ProcsAssumption == NoProc \notin Procs /\ Loops \cap Handlers = {}
ASSUME InstancesAssumption ==
  /\ UNION Instances = Procs
  /\ \A i, k \in Instances : i # k => i \cap k = {}
ASSUME OpsAssumption   == Ops \subseteq AllOps
ASSUME BoundAssumption == MaxTokens \in Nat \ {0} /\ MaxFaults \in Nat

VARIABLES
  token,        \* the refresh token in the account's row
  status,       \* accounts.status
  issued,       \* tokens the provider issued so far
  usable,       \* tokens the provider still accepts
  due,          \* tokens whose expires_at lies in the refresh window
  lock,         \* who set the refresh lock in Redis
  held,         \* processes that will delete the lock when they leave
  step,         \* per process: its next step
  local,        \* per process: its local variables
  faults,       \* faults left
  unprotected,  \* history: processes that refresh without the lock
  lost,         \* history: tokens used up whose successor never reached the row
  overwritten,  \* history: used tokens an edit wrote back over newer ones
  suspect       \* history: the error status may be wrong (see ErrorIsReal)

rowVars  == <<token, status>>
provVars == <<issued, usable, due>>
procVars == <<held, step, local, unprotected>>
histVars == <<lost, overwritten, suspect>>
vars == <<rowVars, provVars, lock, procVars, faults, histVars>>

Outcomes == {"done", "current", "retry", "invalid"}   \* of one RefreshIfNeeded call
Using    == {"reread", "refresh", "recover", "persist"}   \* between lock and release
InCall   == Using \cup Outcomes
Calling  == InCall \cup {"lock"}
Steps    == {"idle", "mutex", "seterror", "manual", "update", "save", "clear"} \cup Calling

\* op: what the process does; acct: the token of the account it was given; used: the
\* token it goes by; new: the token it received, or after a refusal the one that is in
\* the row (Recover reads it, Condemn does not); saw: the status it read.
Locals == [op : AllOps \cup {"none"}, acct : Nat, used : Nat, new : Nat,
           saw : {"active", "error"}]
Blank  == [op |-> "none", acct |-> 0, used |-> 0, new |-> 0, saw |-> "active"]

Init ==
  /\ token = 1 /\ status = "active"
  /\ issued = 1 /\ usable = {1} /\ due = {}
  /\ lock = NoProc /\ held = {}
  /\ step = [p \in Procs |-> "idle"]
  /\ local = [p \in Procs |-> Blank]
  /\ faults = MaxFaults
  /\ unprotected = {} /\ lost = {} /\ overwritten = {} /\ suspect = FALSE

Fault   == faults > 0 /\ faults' = faults - 1
NoFault == UNCHANGED faults

Goto(p, s)  == step' = [step EXCEPT ![p] = s]
Keep(p, r)  == local' = [local EXCEPT ![p] = r]
Continue(p, s) == Goto(p, s) /\ UNCHANGED local
Return(p)   == Goto(p, "idle") /\ Keep(p, Blank)

\* Two processes of one instance share the local mutex of the account.
Colocated(p, q) == \E i \in Instances : {p, q} \subseteq i

Lose(p)    == lost' = lost \cup {local[p].used}

-----------------------------------------------------------------------------
(* RefreshIfNeeded.                                                        *)

\* A loop lists the active accounts, a request was given one: it goes on with what it
\* read, if the token is due.
Begin(p) ==
  /\ step[p] = "idle"
  /\ p \in Loops \/ "refresh" \in Ops
  /\ status = "active" /\ token \in due
  /\ Goto(p, "mutex")
  /\ Keep(p, [Blank EXCEPT !.op = "refresh", !.acct = token])
  /\ NoFault
  /\ UNCHANGED <<rowVars, provVars, lock, held, unprotected, histVars>>

LocalLock(p) ==
  /\ step[p] = "mutex"
  /\ \A q \in Procs \ {p} : Colocated(p, q) => step[q] \notin Calling
  /\ Continue(p, "lock")
  /\ NoFault
  /\ UNCHANGED <<rowVars, provVars, lock, held, unprotected, histVars>>

\* Mutant: a lock that is taken is not respected.
AcquireAnyway(p) ==
  /\ step[p] = "lock"
  /\ lock' = p /\ held' = held \cup {p}
  /\ Continue(p, "reread")
  /\ NoFault
  /\ UNCHANGED <<rowVars, provVars, unprotected, histVars>>

\* SETNX: a lock somebody else holds ends the call; with an error of Redis, whose
\* command may have been executed, the call goes on without the lock.
AcquireRefreshLock(p) ==
  /\ step[p] = "lock"
  /\ \/ /\ lock = NoProc
        /\ lock' = p /\ held' = held \cup {p}
        /\ Continue(p, "reread")
        /\ NoFault /\ UNCHANGED unprotected
     \/ /\ lock # NoProc
        /\ Return(p)
        /\ NoFault /\ UNCHANGED <<lock, held, unprotected>>
     \/ /\ Fault
        /\ UNCHANGED lock \/ (lock = NoProc /\ lock' = p)
        /\ unprotected' = unprotected \cup {p}
        /\ Continue(p, "reread")
        /\ UNCHANGED held
  /\ UNCHANGED <<rowVars, provVars, histVars>>

\* GetByID, and the second check; an error falls back on the account passed in.
Reread(p) ==
  /\ step[p] = "reread"
  /\ \E t \in {token, local[p].acct} :
       /\ (t = token /\ NoFault) \/ (t = local[p].acct /\ Fault)
       /\ Keep(p, [local[p] EXCEPT !.used = t])
       /\ Goto(p, IF t \in due THEN "refresh" ELSE "current")
  /\ UNCHANGED <<rowVars, provVars, lock, held, unprotected, histVars>>

\* The provider takes the token and issues the next one.
Rotate(p, next) ==
  /\ local[p].used \in usable
  /\ issued' = issued + 1
  /\ usable' = (usable \ {local[p].used}) \cup {issued + 1}
  /\ Keep(p, [local[p] EXCEPT !.new = issued + 1])
  /\ Goto(p, next)
  /\ NoFault
  /\ UNCHANGED <<due, lost>>

\* It takes the token and its answer is lost.
RotateLost(p) ==
  /\ local[p].used \in usable
  /\ Fault
  /\ usable' = usable \ {local[p].used}
  /\ Lose(p)
  /\ UNCHANGED <<issued, due>>

\* q brings the successor of the token it used up.
Carries(q) ==
  /\ step[q] \in {"persist", "update", "save"}
  /\ local[q].op \in {"refresh", "manual"}

\* The verdict on p's token came while another process brings its successor, one of
\* the two without the protection of the lock.
Raced(p) ==
  \E q \in Procs \ {p} :
    Carries(q) /\ local[q].used = local[p].used /\ unprotected \cap {p, q} # {}

\* Whoever condemns the token p used; the row's token by then is kept for the record.
Verdict(p) == Goto(p, "invalid") /\ Keep(p, [local[p] EXCEPT !.new = token])

\* Every other error isNonRetryableRefreshError knows goes to the caller as it is, and no
\* second read asks whether the race was lost: refresh_token_reused, token_expired,
\* invalid_refresh_token, ... of a dead token; but also invalid_client, access_denied,
\* a missing entitlement, ... that say nothing of the token.
Condemn(p) ==
  /\ Verdict(p)
  /\ \/ /\ local[p].used \notin usable
        /\ suspect' = (suspect \/ token # local[p].used \/ Raced(p))
        /\ NoFault
     \/ local[p].used \in usable /\ suspect' = TRUE /\ Fault

\* executor.Refresh: a passing error is tried again, invalid_grant goes on to Recover.
Refresh(p) ==
  /\ step[p] = "refresh"
  /\ \/ Rotate(p, "persist") /\ UNCHANGED suspect
     \/ RotateLost(p) /\ Continue(p, "retry") /\ UNCHANGED suspect
     \/ Fault /\ Continue(p, "retry") /\ UNCHANGED <<provVars, lost, suspect>>
     \/ /\ local[p].used \notin usable
        /\ Continue(p, "recover")
        /\ NoFault /\ UNCHANGED <<provVars, lost, suspect>>
     \/ Condemn(p) /\ UNCHANGED <<provVars, lost>>
  /\ UNCHANGED <<rowVars, lock, held, unprotected, overwritten>>

\* p brings a token of its own to the row.
Brings(p) == Carries(p) \/ (step[p] \in {"update", "save"} /\ local[p].op = "authorise")

\* Mutant: invalid_grant is final at once.
RecoverNever(p) ==
  /\ step[p] = "recover"
  /\ Verdict(p)
  /\ suspect' = (suspect \/ Raced(p))
  /\ NoFault
  /\ UNCHANGED <<rowVars, provVars, lock, held, unprotected, lost, overwritten>>

\* tryRecoverFromRefreshRace: another token in the row means that the race was lost,
\* not the grant; the read may fail too.
Recover(p) ==
  /\ step[p] = "recover"
  /\ \/ token # local[p].used /\ Continue(p, "current") /\ NoFault /\ UNCHANGED suspect
     \/ /\ token = local[p].used
        /\ Verdict(p)
        /\ suspect' = (suspect \/ Raced(p))
        /\ NoFault
     \/ Verdict(p) /\ suspect' = TRUE /\ Fault
  /\ UNCHANGED <<rowVars, provVars, lock, held, unprotected, lost, overwritten>>

\* Mutant: the token received is not written.
PersistNothing(p) ==
  /\ step[p] = "persist"
  /\ Continue(p, "done")
  /\ NoFault
  /\ UNCHANGED <<rowVars, provVars, lock, held, unprotected, histVars>>

\* Without the lock, or after another writer of the row, p may revive an account that
\* was given up meanwhile.
Outlived(p) == status = "error" /\ (p \in unprotected \/ token # local[p].used)

\* persistAccountCredentials writes the credentials, whatever the row holds by then.
Persist(p) ==
  /\ step[p] = "persist"
  /\ \/ /\ token' = local[p].new
        /\ suspect' = (suspect \/ Outlived(p))
        /\ UNCHANGED lost
        /\ (Continue(p, "done") /\ NoFault) \/ (Continue(p, "retry") /\ Fault)
     \/ Continue(p, "retry") /\ Fault /\ Lose(p) /\ UNCHANGED <<token, suspect>>
  /\ UNCHANGED <<status, provVars, lock, held, unprotected, overwritten>>

\* Mutant: a call without the lock deletes it, too.
ReleaseAnyLock(p) ==
  /\ lock' = NoProc
  /\ unprotected' = unprotected \ {p}
  /\ NoFault

\* The deferred release: a DEL of the lock, whoever set it.
ReleaseRefreshLock(p) ==
  \/ /\ p \in held
     /\ lock' = NoProc
     /\ unprotected' = (unprotected \cup ({lock} \cap held)) \ {p}
     /\ NoFault
  \/ /\ p \in held
     /\ Fault
     /\ unprotected' = unprotected \ {p}
     /\ UNCHANGED lock
  \/ /\ p \notin held
     /\ unprotected' = unprotected \ {p}
     /\ NoFault /\ UNCHANGED lock

\* The call returns.  refreshWithRetry repeats it after a passing failure until it has
\* had enough, and takes a verdict for final; a request goes on with what it has.
Leave(p) ==
  /\ step[p] \in Outcomes
  /\ ReleaseRefreshLock(p)
  /\ held' = held \ {p}
  /\ \/ p \in Loops /\ step[p] = "invalid" /\ Continue(p, "seterror")
     \/ p \in Loops /\ step[p] = "retry" /\ Continue(p, "mutex")
     \/ (p \in Handlers \/ step[p] # "invalid") /\ Return(p)
  /\ UNCHANGED <<rowVars, provVars, histVars>>

\* The row got another token since the verdict.
Overtaken(p) == token # local[p].new

\* SetError condemns the account by its id, whatever the row holds by now.
SetError(p) ==
  /\ step[p] = "seterror"
  /\ \/ status' = "error" /\ suspect' = (suspect \/ Overtaken(p)) /\ NoFault
     \/ Fault /\ UNCHANGED <<status, suspect>>
  /\ Return(p)
  /\ UNCHANGED <<token, provVars, lock, held, unprotected, lost, overwritten>>

-----------------------------------------------------------------------------
(* The administrator.                                                      *)

\* refreshSingleAccount asks the provider without the lock.
ManualRead(p) ==
  /\ step[p] = "idle"
  /\ p \in Handlers /\ "manual" \in Ops
  /\ issued < MaxTokens
  /\ Goto(p, "manual")
  /\ Keep(p, [Blank EXCEPT !.op = "manual", !.used = token])
  /\ unprotected' = unprotected \cup {p}
  /\ NoFault
  /\ UNCHANGED <<rowVars, provVars, lock, held, histVars>>

ManualRefresh(p) ==
  /\ step[p] = "manual"
  /\ \/ Rotate(p, "update") /\ UNCHANGED unprotected
     \/ RotateLost(p) /\ Return(p) /\ unprotected' = unprotected \ {p}
     \/ /\ Fault \/ (local[p].used \notin usable /\ NoFault)
        /\ Return(p)
        /\ unprotected' = unprotected \ {p}
        /\ UNCHANGED <<provVars, lost>>
  /\ UNCHANGED <<rowVars, lock, held, overwritten, suspect>>

\* ApplyOAuthCredentials brings the credentials of a new grant.
Authorise(p) ==
  /\ step[p] = "idle"
  /\ p \in Handlers /\ "authorise" \in Ops
  /\ issued < MaxTokens
  /\ issued' = issued + 1
  /\ usable' = usable \cup {issued + 1}
  /\ Goto(p, "update")
  /\ Keep(p, [Blank EXCEPT !.op = "authorise", !.new = issued + 1])
  /\ NoFault
  /\ UNCHANGED <<rowVars, due, lock, held, unprotected, histVars>>

\* UpdateAccount without credentials: a change of name, priority or groups.
Edit(p) ==
  /\ step[p] = "idle"
  /\ p \in Handlers /\ "edit" \in Ops
  /\ Goto(p, "update")
  /\ Keep(p, [Blank EXCEPT !.op = "edit"])
  /\ NoFault
  /\ UNCHANGED <<rowVars, provVars, lock, held, unprotected, histVars>>

\* The token a manual refresh brought never reaches the row.
Abandon(p) ==
  /\ Return(p)
  /\ unprotected' = unprotected \ {p}
  /\ IF local[p].op = "manual" THEN Lose(p) ELSE UNCHANGED lost

\* UpdateAccount reads the row ...
UpdateRead(p) ==
  /\ step[p] = "update"
  /\ \/ /\ Goto(p, "save")
        /\ Keep(p, [local[p] EXCEPT !.saw = status,
                                    !.used = IF local[p].op = "manual" THEN @ ELSE token])
        /\ NoFault /\ UNCHANGED <<unprotected, lost>>
     \/ Fault /\ Abandon(p)
  /\ UNCHANGED <<rowVars, provVars, lock, held, overwritten, suspect>>

\* ... and writes all of it: the credentials it was given, or else the ones it read.
UpdateSave(p) ==
  LET edit == local[p].op = "edit" IN
  /\ step[p] = "save"
  /\ \/ /\ token' = IF edit THEN local[p].used ELSE local[p].new
        /\ status' = local[p].saw
        /\ overwritten' = IF edit /\ token # local[p].used
                          THEN overwritten \cup {local[p].used} ELSE overwritten
        /\ suspect' = (suspect \/ local[p].saw = "error")
        /\ IF local[p].op = "authorise" THEN Continue(p, "clear") ELSE Return(p)
        /\ unprotected' = unprotected \ {p}
        /\ NoFault /\ UNCHANGED lost
     \/ Fault /\ Abandon(p) /\ UNCHANGED <<rowVars, overwritten, suspect>>
  /\ UNCHANGED <<provVars, lock, held>>

\* ClearError after a re-authorisation.
ClearError(p) ==
  /\ step[p] = "clear"
  /\ (status' = "active" /\ NoFault) \/ (Fault /\ UNCHANGED status)
  /\ Return(p)
  /\ UNCHANGED <<token, provVars, lock, held, unprotected, histVars>>

-----------------------------------------------------------------------------
(* The provider, the clock, Redis and crashes.                             *)

Ages ==
  /\ token \notin due /\ issued < MaxTokens
  /\ due' = due \cup {token}
  /\ NoFault
  /\ UNCHANGED <<rowVars, issued, usable, lock, procVars, histVars>>

Revoke ==
  /\ token \in usable
  /\ Fault
  /\ usable' = usable \ {token}
  /\ lost' = lost \cup {token}
  /\ UNCHANGED <<rowVars, issued, due, lock, procVars, overwritten, suspect>>

\* Mutant: the lock is set without a lifetime.
LockStays ==
  /\ lock \in held /\ Fault
  /\ lock' = NoProc
  /\ unprotected' = unprotected \cup {lock}
  /\ UNCHANGED <<rowVars, provVars, held, step, local, histVars>>

\* The lock's lifetime ends, under its holder if the call takes that long.
LockExpires ==
  /\ lock # NoProc
  /\ \/ lock \in held /\ Fault /\ unprotected' = unprotected \cup {lock}
     \/ lock \notin held /\ NoFault /\ UNCHANGED unprotected
  /\ lock' = NoProc
  /\ UNCHANGED <<rowVars, provVars, held, step, local, histVars>>

\* An instance dies with all its processes; the lock they set stays.
Crash(i) ==
  /\ \E p \in i : step[p] # "idle"
  /\ Fault
  /\ step' = [p \in Procs |-> IF p \in i THEN "idle" ELSE step[p]]
  /\ local' = [p \in Procs |-> IF p \in i THEN Blank ELSE local[p]]
  /\ held' = held \ i
  /\ unprotected' = unprotected \ i
  /\ lost' = lost \cup {local[p].used : p \in {q \in i : Carries(q)}}
  /\ UNCHANGED <<rowVars, provVars, lock, overwritten, suspect>>

RefreshStep(p) ==
  \/ Begin(p) \/ LocalLock(p) \/ AcquireRefreshLock(p) \/ Reread(p) \/ Refresh(p)
  \/ Recover(p) \/ Persist(p) \/ Leave(p) \/ SetError(p)

AdminStep(p) ==
  \/ ManualRead(p) \/ ManualRefresh(p) \/ Authorise(p) \/ Edit(p)
  \/ UpdateRead(p) \/ UpdateSave(p) \/ ClearError(p)

Next ==
  \/ \E p \in Procs : RefreshStep(p) \/ AdminStep(p)
  \/ Ages \/ Revoke \/ LockExpires
  \/ \E i \in Instances : Crash(i)

Spec == Init /\ [][Next]_vars

\* Every loop runs for ever (refreshLoop), calls return, Redis expires keys, and a Go
\* mutex is handed to the one that waits longest.
FairSpec ==
  /\ Spec
  /\ \A p \in Procs : WF_vars(RefreshStep(p)) /\ SF_vars(LocalLock(p))
  /\ WF_vars(NoFault /\ LockExpires)

-----------------------------------------------------------------------------
(* Properties.                                                             *)

\* The types of the row, the provider's tokens and every process's locals.
TypeOK ==
  /\ token \in Nat /\ status \in {"active", "error"}
  /\ issued \in Nat /\ usable \subseteq 1 .. issued /\ due \subseteq 1 .. issued
  /\ lock \in Procs \cup {NoProc}
  /\ held \subseteq Procs /\ unprotected \subseteq Procs
  /\ step \in [Procs -> Steps]
  /\ local \in [Procs -> Locals]
  /\ faults \in 0 .. MaxFaults
  /\ lost \subseteq Nat /\ overwritten \subseteq Nat /\ suspect \in BOOLEAN

\* The calls that refresh the account exclude each other: within an instance always,
\* across instances as long as the lock is there (it may expire, be refused, or be
\* deleted by another call that outlived its own).
RefreshersExclude ==
  \A p, q \in Procs :
    /\ p # q
    /\ {step[p], step[q]} \subseteq Using
    => ~Colocated(p, q) /\ unprotected \cap {p, q} # {}

\* The row's token works, or somebody is bringing its successor: a token that can be
\* used once is never used up and forgotten.
RowUsable ==
  token \in usable \cup lost \/ \E p \in Procs : Carries(p) /\ local[p].used = token

\* The only other way is an edit that writes back what it read.
RowUsableOrOverwritten == RowUsable \/ token \in overwritten

\* An account is put into the error status only for a token that is dead, unless the
\* error said nothing of the token, its successor was in the row and nobody looked, one
\* of two racing calls had no lock, or the row changed after the verdict.
ErrorIsReal == status = "error" /\ token \in usable => suspect

\* Each operation keeps to its own steps, and a manual refresh never has the lock.
Roles ==
  \A p \in Procs :
    /\ step[p] \in Calling \cup {"mutex", "seterror"} => local[p].op = "refresh"
    /\ step[p] = "manual" => local[p].op = "manual"
    /\ step[p] \in {"update", "save"} => local[p].op \in AllOps \ {"refresh"}
    /\ local[p].op = "manual" => p \in unprotected

\* The calls that may use a token are protected by the lock they set, or on record as
\* going without; the local mutex admits one call per instance.
Protection ==
  /\ \A p \in held : step[p] \in InCall /\ (p \notin unprotected => lock = p)
  /\ \A p \in Procs : step[p] \in InCall => p \in held \cup unprotected
  /\ \A p, q \in Procs : p # q /\ Colocated(p, q) => ~({step[p], step[q]} \subseteq Calling)

\* A token on its way to the row is known to nobody else; the token it replaces is dead
\* for good, and so is one that is condemned without a mark.
Tokens ==
  /\ token \in 1 .. issued
  /\ \A p \in Procs :
       /\ local[p].acct <= issued /\ local[p].used <= issued
       /\ step[p] = "save" /\ local[p].op = "edit" => local[p].used # 0
       /\ step[p] = "recover" => local[p].used \notin usable
       /\ step[p] \in {"invalid", "seterror"} =>
            suspect \/ (local[p].used \notin usable /\ local[p].new = local[p].used)
       /\ Brings(p) =>
            /\ local[p].new \in usable \ {token}
            /\ \A q \in Procs :
                 /\ local[p].new \notin {local[q].acct, local[q].used}
                 /\ q # p /\ Brings(q) => local[q].new # local[p].new

\* Whoever condemns a token, or has, does not know of a protected call that replaces it.
Verdicts ==
  \A q \in Procs : Carries(q) /\ q \notin unprotected =>
    /\ status = "error" /\ local[q].used = token => suspect
    /\ \A p \in Procs \ {q} :
         step[p] \in {"invalid", "seterror"} /\ local[p].used = local[q].used => suspect

\* The inductive invariant: the parts above, with the fate of the row's token.
IInv ==
  /\ TypeOK /\ Roles /\ Protection /\ Tokens
  /\ RowUsableOrOverwritten /\ Verdicts /\ ErrorIsReal

\* A token that is due is replaced, or the account is given up.
DueIsRefreshed == (status = "active" /\ token \in due) ~> (status = "error" \/ token \notin due)
=============================================================================

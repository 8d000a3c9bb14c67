-------------------------- MODULE TokenRefreshProofs --------------------------
(***************************************************************************)
(* Proofs about TokenRefresh: the lock's protection, the fate of the row's *)
(* token and the verdicts on it, for any number of instances, loops,       *)
(* handlers, tokens and faults.                                            *)
(***************************************************************************)
EXTENDS TokenRefresh, TLAPS

USE ProcsAssumption, InstancesAssumption, OpsAssumption, BoundAssumption
USE DEF rowVars, provVars, procVars, histVars, InCall, Calling, Using, Outcomes

-----------------------------------------------------------------------------
(* What moves a process and its locals.                                    *)

\* A step changes one entry of step.
LEMMA Moves ==
  ASSUME step \in [Procs -> Steps], NEW p \in Procs, NEW s \in Steps, Goto(p, s)
  PROVE  /\ step' \in [Procs -> Steps] /\ step'[p] = s
         /\ \A q \in Procs \ {p} : step'[q] = step[q]
  BY DEF Goto

\* A step changes one entry of local.
LEMMA Keeps ==
  ASSUME local \in [Procs -> Locals], NEW p \in Procs, NEW r \in Locals, Keep(p, r)
  PROVE  /\ local' \in [Procs -> Locals] /\ local'[p] = r
         /\ \A q \in Procs \ {p} : local'[q] = local[q]
  BY DEF Keep

\* The locals of an idle process.
LEMMA Blanks ==
  Blank \in Locals /\ Blank.op = "none" /\ Blank.acct = 0 /\ Blank.used = 0
  BY DEF Blank, Locals

\* One field of the locals is set.
LEMMA Fields ==
  ASSUME NEW r \in Locals, NEW n \in Nat
  PROVE  /\ [r EXCEPT !.used = n] \in Locals
         /\ [r EXCEPT !.used = n].op = r.op
         /\ [r EXCEPT !.used = n].acct = r.acct
         /\ [r EXCEPT !.used = n].used = n
         /\ [r EXCEPT !.used = n].new = r.new
         /\ [r EXCEPT !.new = n] \in Locals
         /\ [r EXCEPT !.new = n].op = r.op
         /\ [r EXCEPT !.new = n].acct = r.acct
         /\ [r EXCEPT !.new = n].used = r.used
         /\ [r EXCEPT !.new = n].new = n
  BY DEF Locals

\* What a step does to the process that takes it.
Moved(p, s, r) ==
  /\ step' \in [Procs -> Steps] /\ step'[p] = s
  /\ \A q \in Procs \ {p} : step'[q] = step[q]
  /\ local' \in [Procs -> Locals] /\ local'[p] = r
  /\ \A q \in Procs \ {p} : local'[q] = local[q]

\* A step that sets both.
LEMMA Moving ==
  ASSUME TypeOK, NEW p \in Procs, NEW s \in Steps, NEW r \in Locals, Goto(p, s), Keep(p, r)
  PROVE  Moved(p, s, r)
  BY Moves, Keeps DEF TypeOK, Moved

\* A step that keeps the locals.
LEMMA Continuing ==
  ASSUME TypeOK, NEW p \in Procs, NEW s \in Steps, Continue(p, s)
  PROVE  Moved(p, s, local[p]) /\ local[p] \in Locals
  BY Moves DEF TypeOK, Moved, Continue

\* A step that ends what the process was doing.
LEMMA Returning ==
  ASSUME TypeOK, NEW p \in Procs, Return(p)
  PROVE  Moved(p, "idle", Blank)
  BY Moving, Blanks DEF Return, Steps

\* Two processes of one instance are so for each other.
LEMMA ColocatedSymmetric ==
  ASSUME NEW p, NEW q
  PROVE  Colocated(p, q) <=> Colocated(q, p)
  BY DEF Colocated

-----------------------------------------------------------------------------
(* Steps that touch neither the row nor the provider.                      *)

\* A step that neither enters nor leaves the part between lock and release keeps what
\* protects it, unless it passes the local mutex without looking.
LEMMA QuietProtection ==
  ASSUME TypeOK, Protection, NEW p \in Procs, NEW s \in Steps, NEW r, Moved(p, s, r),
         UNCHANGED <<lock, held>>,
         s \in InCall <=> step[p] \in InCall,
         \A q \in unprotected \ unprotected' : step'[q] \notin InCall,
         \/ s \notin Calling
         \/ step[p] \in Calling
         \/ \A q \in Procs \ {p} : Colocated(p, q) => step[q] \notin Calling
  PROVE  Protection'
<1>1. \A q \in held' : step'[q] \in InCall /\ (q \notin unprotected' => lock' = q)
  BY DEF Protection, Moved, TypeOK
<1>2. \A q \in Procs : step'[q] \in InCall => q \in held' \cup unprotected'
  BY DEF Protection, Moved, TypeOK
<1>3. \A q, t \in Procs : q # t /\ Colocated(q, t) => ~({step'[q], step'[t]} \subseteq Calling)
  BY ColocatedSymmetric DEF Protection, Moved
<1> QED BY <1>1, <1>2, <1>3 DEF Protection, Colocated

\* A step after which the process brings nothing and condemns nothing keeps the rest, if
\* it goes by tokens it knew or read from the row, and what it used up is on record.
LEMMA QuietRest ==
  ASSUME IInv, NEW p \in Procs, NEW s \in Steps, NEW r \in Locals, Moved(p, s, r),
         UNCHANGED <<token, issued, due, overwritten, suspect>>,
         usable' \in {usable, usable \ {local[p].used}},
         lost' \in {lost, lost \cup {local[p].used}},
         Carries(p) \/ usable' # usable => local[p].used \in lost',
         status' \in {status, "active"},
         \A q \in Procs : q \in unprotected \ unprotected' => ~Carries(q)',
         s \notin {"persist", "update", "save", "recover", "invalid", "seterror"},
         {r.acct, r.used} \subseteq {0, token, local[p].acct, local[p].used}
  PROVE  Tokens' /\ RowUsableOrOverwritten' /\ Verdicts' /\ ErrorIsReal'
<1>1. /\ \A q \in Procs \ {p} : (Carries(q)' <=> Carries(q)) /\ (Brings(q)' <=> Brings(q))
      /\ ~Carries(p)' /\ ~Brings(p)'
  BY DEF Moved, Carries, Brings
<1>2. Tokens'
  <2>1. /\ token' \in 1 .. issued'
        /\ \A q \in Procs :
             /\ local'[q].acct <= issued' /\ local'[q].used <= issued'
             /\ step'[q] = "save" /\ local'[q].op = "edit" => local'[q].used # 0
             /\ step'[q] = "recover" => local'[q].used \notin usable'
             /\ step'[q] \in {"invalid", "seterror"} =>
                  suspect' \/ (local'[q].used \notin usable' /\ local'[q].new = local'[q].used)
    BY DEF IInv, TypeOK, Tokens, Moved, Locals
  <2>2. ASSUME NEW q \in Procs, Brings(q)'
        PROVE  /\ local'[q].new \in usable' \ {token'}
               /\ \A t \in Procs :
                    /\ local'[q].new \notin {local'[t].acct, local'[t].used}
                    /\ t # q /\ Brings(t)' => local'[q].new # local'[t].new
    <3>1. q # p /\ Brings(q) /\ local'[q] = local[q]
      BY <1>1, <2>2 DEF Moved
    <3>2. local[q].new \in usable \ {token} /\ local[q].new # 0 /\ local[q].new # local[p].used
      BY <3>1 DEF IInv, TypeOK, Tokens
    <3>3. ASSUME NEW t \in Procs
          PROVE  /\ local[q].new \notin {local'[t].acct, local'[t].used}
                 /\ t # q /\ Brings(t)' => local[q].new # local'[t].new
      BY <1>1, <3>1, <3>2 DEF IInv, Tokens, Moved
    <3> QED BY <3>1, <3>2, <3>3
  <2> QED BY <2>1, <2>2 DEF Tokens
<1>3. RowUsableOrOverwritten'
  BY <1>1 DEF IInv, RowUsableOrOverwritten, RowUsable, Moved
<1>4. Verdicts'
  BY <1>1 DEF IInv, Verdicts, Moved
<1>5. ErrorIsReal'
  BY DEF IInv, ErrorIsReal, TypeOK
<1> QED BY <1>2, <1>3, <1>4, <1>5

\* The columns of TypeOK that such a step may change.
LEMMA QuietTypes ==
  ASSUME TypeOK, NEW p \in Procs, NEW s, NEW r, Moved(p, s, r),
         UNCHANGED <<issued, due, overwritten>>, token' \in Nat, usable' \subseteq usable,
         lost' \subseteq Nat, suspect' \in BOOLEAN,
         status' \in {"active", "error"}, lock' \in Procs \cup {NoProc},
         held' \subseteq Procs, unprotected' \subseteq Procs, NoFault \/ Fault
  PROVE  TypeOK'
  BY DEF TypeOK, Moved, NoFault, Fault

\* The roles of the other processes stay.
LEMMA OtherRoles ==
  ASSUME Roles, NEW p \in Procs, NEW s, NEW r, Moved(p, s, r),
         unprotected \subseteq unprotected' \cup {p},
         /\ s \in Calling \cup {"mutex", "seterror"} => r.op = "refresh"
         /\ s = "manual" => r.op = "manual"
         /\ s \in {"update", "save"} => r.op \in AllOps \ {"refresh"}
         /\ r.op = "manual" => p \in unprotected'
  PROVE  Roles'
  BY DEF Roles, Moved

\* Begin: the token is the row's.
LEMMA BeginKeepsIInv ==
  ASSUME IInv, NEW p \in Procs, Begin(p)
  PROVE  IInv'
<1> DEFINE r == [Blank EXCEPT !.op = "refresh", !.acct = token]
<1>1. TypeOK /\ step[p] = "idle" /\ token \in Nat /\ "refresh" \in AllOps
  BY DEF IInv, TypeOK, AllOps, Begin
<1>2. r \in Locals /\ r.op = "refresh" /\ r.acct = token /\ r.used = 0
  BY <1>1 DEF Blank, Locals
<1> HIDE DEF r
<1>3. Moved(p, "mutex", r)
  BY <1>1, <1>2, Moving DEF Begin, Steps, r
<1>4. UNCHANGED <<rowVars, provVars, lock, held, unprotected, histVars>> /\ NoFault
  BY DEF Begin
<1>5. TypeOK'
  BY <1>1, <1>2, <1>3, <1>4, QuietTypes DEF TypeOK
<1>6. Roles'
  BY <1>1, <1>2, <1>3, <1>4, OtherRoles DEF IInv
<1>7. Protection'
  BY <1>1, <1>2, <1>3, <1>4, QuietProtection DEF IInv, Steps
<1>8. Tokens' /\ RowUsableOrOverwritten' /\ Verdicts' /\ ErrorIsReal'
  BY <1>1, <1>2, <1>3, <1>4, QuietRest DEF Steps, Carries
<1> QED BY <1>5, <1>6, <1>7, <1>8 DEF IInv

\* LocalLock: no process of the same instance is in a call.
LEMMA LocalLockKeepsIInv ==
  ASSUME IInv, NEW p \in Procs, LocalLock(p)
  PROVE  IInv'
<1>1. /\ TypeOK /\ step[p] = "mutex" /\ local[p].op = "refresh"
      /\ Moved(p, "lock", local[p]) /\ local[p] \in Locals
  BY Continuing DEF IInv, Roles, LocalLock, Steps
<1>2. UNCHANGED <<rowVars, provVars, lock, held, unprotected, histVars>> /\ NoFault
  BY DEF LocalLock
<1>3. TypeOK'
  BY <1>1, <1>2, QuietTypes DEF TypeOK
<1>4. Roles'
  BY <1>1, <1>2, OtherRoles DEF IInv
<1>5. Protection'
  <2>1. \A q \in Procs \ {p} : Colocated(p, q) => step[q] \notin Calling
    BY DEF LocalLock
  <2> QED BY <1>1, <1>2, <2>1, QuietProtection DEF IInv, Steps
<1>6. Tokens' /\ RowUsableOrOverwritten' /\ Verdicts' /\ ErrorIsReal'
  BY <1>1, <1>2, QuietRest DEF Steps, Carries
<1> QED BY <1>3, <1>4, <1>5, <1>6 DEF IInv

\* AcquireRefreshLock: the lock is set only when it is free, and a call that goes on
\* without it is on record.
LEMMA AcquireKeepsIInv ==
  ASSUME IInv, NEW p \in Procs, AcquireRefreshLock(p)
  PROVE  IInv'
<1>1. /\ TypeOK /\ step[p] = "lock" /\ local[p].op = "refresh"
      /\ UNCHANGED <<rowVars, provVars, histVars>>
  BY DEF IInv, Roles, AcquireRefreshLock
<1>2. CASE /\ lock # NoProc /\ Return(p)
           /\ NoFault /\ UNCHANGED <<lock, held, unprotected>>
  <2>1. Moved(p, "idle", Blank)
    BY <1>1, <1>2, Returning
  <2>2. TypeOK'
    BY <1>1, <1>2, <2>1, QuietTypes DEF TypeOK
  <2>3. Roles'
    BY <1>1, <1>2, <2>1, Blanks, OtherRoles DEF IInv
  <2>4. Protection'
    BY <1>1, <1>2, <2>1, QuietProtection DEF IInv, Steps
  <2>5. Tokens' /\ RowUsableOrOverwritten' /\ Verdicts' /\ ErrorIsReal'
    BY <1>1, <1>2, <2>1, Blanks, QuietRest DEF Steps, Carries
  <2> QED BY <2>2, <2>3, <2>4, <2>5 DEF IInv
<1>3. CASE /\ Continue(p, "reread")
           /\ \/ /\ lock = NoProc /\ lock' = p /\ held' = held \cup {p}
                 /\ NoFault /\ UNCHANGED unprotected
              \/ /\ Fault
                 /\ UNCHANGED lock \/ (lock = NoProc /\ lock' = p)
                 /\ unprotected' = unprotected \cup {p} /\ UNCHANGED held
  <2>1. Moved(p, "reread", local[p]) /\ local[p] \in Locals
    BY <1>1, <1>3, Continuing DEF Steps
  <2>2. TypeOK'
    BY <1>1, <1>3, <2>1, QuietTypes DEF TypeOK
  <2>3. Roles'
    BY <1>1, <1>3, <2>1, OtherRoles DEF IInv
  <2>4. Protection'
    <3>1. \A q \in held' : step'[q] \in InCall /\ (q \notin unprotected' => lock' = q)
      BY <1>3, <2>1, ProcsAssumption DEF IInv, TypeOK, Protection, Moved
    <3>2. \A q \in Procs : step'[q] \in InCall => q \in held' \cup unprotected'
      BY <1>3, <2>1 DEF IInv, Protection, Moved
    <3>3. \A q, t \in Procs : q # t /\ Colocated(q, t) => ~({step'[q], step'[t]} \subseteq Calling)
      BY <1>1, <2>1 DEF IInv, Protection, Moved
    <3> QED BY <3>1, <3>2, <3>3 DEF Protection, Colocated
  <2>5. Tokens' /\ RowUsableOrOverwritten' /\ Verdicts' /\ ErrorIsReal'
    BY <1>1, <1>3, <2>1, QuietRest DEF Steps, Carries
  <2> QED BY <2>2, <2>3, <2>4, <2>5 DEF IInv
<1> QED BY <1>2, <1>3 DEF AcquireRefreshLock

\* Reread: the token is the row's or the one the call was given.
LEMMA RereadKeepsIInv ==
  ASSUME IInv, NEW p \in Procs, Reread(p)
  PROVE  IInv'
<1>1. PICK t \in {token, local[p].acct} :
        /\ NoFault \/ Fault
        /\ Keep(p, [local[p] EXCEPT !.used = t])
        /\ Goto(p, IF t \in due THEN "refresh" ELSE "current")
  BY DEF Reread
<1> DEFINE r == [local[p] EXCEPT !.used = t]
<1> DEFINE s == IF t \in due THEN "refresh" ELSE "current"
<1>2. /\ TypeOK /\ step[p] = "reread" /\ local[p].op = "refresh" /\ local[p] \in Locals
      /\ UNCHANGED <<rowVars, provVars, lock, held, unprotected, histVars>>
  BY DEF IInv, TypeOK, Roles, Reread
<1>3. t \in Nat
  BY <1>2 DEF TypeOK, Locals
<1>4. r \in Locals /\ r.op = "refresh" /\ r.used = t /\ r.acct = local[p].acct
  BY <1>2, <1>3, Fields
<1>5. s \in {"refresh", "current"} /\ s \in Steps
  BY DEF Steps
<1>6. Moved(p, s, r)
  BY <1>1, <1>2, <1>4, <1>5, Moving
<1> HIDE DEF r, s
<1>7. TypeOK'
  BY <1>1, <1>2, <1>6, QuietTypes DEF TypeOK
<1>8. Roles'
  BY <1>2, <1>4, <1>5, <1>6, OtherRoles DEF IInv
<1>9. Protection'
  BY <1>2, <1>5, <1>6, QuietProtection DEF IInv
<1>10. Tokens' /\ RowUsableOrOverwritten' /\ Verdicts' /\ ErrorIsReal'
  BY <1>2, <1>4, <1>5, <1>6, QuietRest DEF Carries
<1> QED BY <1>7, <1>8, <1>9, <1>10 DEF IInv

-----------------------------------------------------------------------------
(* The provider's answers.                                                 *)

\* A token that was just issued is known to nobody.
LEMMA IssuedTokens ==
  ASSUME IInv, NEW p \in Procs, NEW s \in {"persist", "update"}, NEW r \in Locals,
         Moved(p, s, r), ~Brings(p),
         r.acct \in {0, local[p].acct}, r.used \in {0, local[p].used}, r.new = issued + 1,
         issued' = issued + 1,
         usable' \in {usable \cup {issued + 1}, (usable \ {local[p].used}) \cup {issued + 1}},
         UNCHANGED <<token, due, suspect>>
  PROVE  /\ Tokens'
         /\ usable' \subseteq 1 .. issued' /\ due' \subseteq 1 .. issued' /\ issued' \in Nat
<1>1. TypeOK /\ local[p] \in Locals /\ issued \in Nat /\ issued + 1 \in Nat
  BY DEF IInv, TypeOK
<1>2. \A n \in usable \cup due : n \in Nat /\ n <= issued /\ n \in 1 .. issued'
  BY <1>1 DEF TypeOK
<1>3. \A q \in Procs \ {p} : Brings(q)' <=> Brings(q)
  BY DEF Moved, Brings, Carries
<1>4. \A n \in usable' \cup due' : n \in 1 .. issued'
  BY <1>1, <1>2
<1>5. /\ token' \in 1 .. issued'
      /\ \A q \in Procs :
           /\ local'[q].acct <= issued' /\ local'[q].used <= issued'
           /\ step'[q] = "save" /\ local'[q].op = "edit" => local'[q].used # 0
           /\ step'[q] = "recover" => local'[q].used \notin usable'
           /\ step'[q] \in {"invalid", "seterror"} =>
                suspect' \/ (local'[q].used \notin usable' /\ local'[q].new = local'[q].used)
  <2>1. token' \in 1 .. issued'
    BY <1>1 DEF IInv, Tokens
  <2>2. ASSUME NEW q \in Procs
        PROVE  local'[q].acct <= issued' /\ local'[q].used <= issued'
    BY <1>1 DEF IInv, TypeOK, Tokens, Moved, Locals
  <2>3. ASSUME NEW q \in Procs, step'[q] \in {"save", "recover", "invalid", "seterror"}
        PROVE  /\ step'[q] = "save" /\ local'[q].op = "edit" => local'[q].used # 0
               /\ step'[q] = "recover" => local'[q].used \notin usable'
               /\ step'[q] \in {"invalid", "seterror"} =>
                    suspect' \/ (local'[q].used \notin usable' /\ local'[q].new = local'[q].used)
    <3>1. q # p /\ step'[q] = step[q] /\ local'[q] = local[q]
      BY <2>3 DEF Moved
    <3>2. local[q].used \in Nat /\ local[q].used <= issued
      BY <1>1 DEF IInv, TypeOK, Tokens, Locals
    <3> QED BY <1>1, <2>3, <3>1, <3>2 DEF IInv, Tokens
  <2> QED BY <2>1, <2>2, <2>3
<1>6. ASSUME NEW q \in Procs, Brings(q)'
      PROVE  /\ local'[q].new \in usable' \ {token'}
             /\ \A t \in Procs :
                  /\ local'[q].new \notin {local'[t].acct, local'[t].used}
                  /\ t # q /\ Brings(t)' => local'[q].new # local'[t].new
  <2>1. \A t \in Procs :
          /\ local[t].acct \in Nat /\ local[t].used \in Nat
          /\ local[t].acct <= issued /\ local[t].used <= issued
          /\ local'[t].acct \in {0, local[t].acct} /\ local'[t].used \in {0, local[t].used}
    BY <1>1 DEF IInv, TypeOK, Tokens, Moved, Locals
  <2>2. \A t \in Procs \ {p} :
          Brings(t)' => /\ local'[t].new = local[t].new /\ local[t].new \in usable \ {token}
                        /\ local[t].new <= issued /\ local[t].new \in Nat /\ local[t].new # 0
    <3>1. \A t \in Procs \ {p} :
            Brings(t)' => local'[t].new = local[t].new /\ local[t].new \in usable \ {token}
      BY <1>3 DEF IInv, Tokens, Moved
    <3>2. \A n \in usable : n \in Nat /\ n <= issued /\ n # 0
      BY <1>1 DEF TypeOK
    <3> QED BY <3>1, <3>2
  <2>3. token \in Nat /\ token <= issued
    BY <1>1 DEF IInv, Tokens
  <2>4. CASE q = p
    <3>1. local'[q].new = issued + 1
      BY <2>4 DEF Moved
    <3>2. local'[q].new \in usable' \ {token'}
      BY <1>1, <2>3, <3>1
    <3>3. ASSUME NEW t \in Procs
          PROVE  /\ local'[q].new \notin {local'[t].acct, local'[t].used}
                 /\ t # q /\ Brings(t)' => local'[q].new # local'[t].new
      <4>1. issued + 1 # local[t].acct /\ issued + 1 # local[t].used /\ issued + 1 # 0
        BY <1>1, <2>1
      <4>2. t # q /\ Brings(t)' => issued + 1 # local'[t].new
        BY <1>1, <2>2, <2>4
      <4> QED BY <2>1, <3>1, <4>1, <4>2
    <3> QED BY <3>2, <3>3
  <2>5. CASE q # p
    <3>1. /\ Brings(q) /\ local'[q].new = local[q].new
          /\ local[q].new <= issued /\ local[q].new # 0
      BY <1>3, <1>6, <2>2, <2>5
    <3>2. local[q].new # local[p].used
      BY <3>1 DEF IInv, Tokens
    <3>3. local'[q].new \in usable' \ {token'}
      BY <1>6, <2>2, <2>5, <3>1, <3>2
    <3>4. ASSUME NEW t \in Procs
          PROVE  /\ local'[q].new \notin {local'[t].acct, local'[t].used}
                 /\ t # q /\ Brings(t)' => local'[q].new # local'[t].new
      <4>1. local'[q].new \notin {local'[t].acct, local'[t].used}
        BY <2>1, <3>1 DEF IInv, Tokens
      <4>2. CASE t = p
        BY <1>1, <1>6, <2>2, <2>5, <3>1, <4>1, <4>2 DEF Moved
      <4>3. CASE t # p
        BY <1>3, <2>2, <3>1, <4>1, <4>3 DEF IInv, Tokens
      <4> QED BY <4>2, <4>3
    <3> QED BY <3>3, <3>4
  <2> QED BY <2>4, <2>5
<1>7. Tokens'
  BY <1>5, <1>6 DEF Tokens
<1> QED BY <1>1, <1>4, <1>7

\* The provider replaces a token, and the one it replaces is brought a successor.
LEMMA RotateRest ==
  ASSUME IInv, NEW p \in Procs, NEW s \in {"persist", "update"}, Rotate(p, s),
         UNCHANGED <<rowVars, overwritten, suspect, lock, held, unprotected>>,
         step[p] \in {"refresh", "manual"},
         s = "persist" => local[p].op = "refresh",
         s = "update" => local[p].op = "manual"
  PROVE  TypeOK' /\ Tokens' /\ RowUsableOrOverwritten' /\ Verdicts' /\ ErrorIsReal'
<1> DEFINE r == [local[p] EXCEPT !.new = issued + 1]
<1>1. TypeOK /\ local[p] \in Locals /\ issued \in Nat /\ issued + 1 \in Nat /\ s \in Steps
  BY DEF IInv, TypeOK, Steps
<1>2. /\ r \in Locals /\ r.op = local[p].op /\ r.used = local[p].used
      /\ r.acct = local[p].acct /\ r.new = issued + 1
  BY <1>1 DEF Locals
<1>3. Moved(p, s, r)
  BY <1>1, <1>2, Moving DEF Rotate
<1>4. /\ local[p].used \in usable /\ issued' = issued + 1
      /\ usable' = (usable \ {local[p].used}) \cup {issued + 1}
      /\ UNCHANGED <<due, lost, faults>>
  BY DEF Rotate, NoFault
<1> HIDE DEF r
<1>5. /\ \A q \in Procs \ {p} : (Carries(q)' <=> Carries(q)) /\ (Brings(q)' <=> Brings(q))
      /\ Carries(p)' /\ Brings(p)' /\ ~Carries(p) /\ ~Brings(p)
  BY <1>2, <1>3 DEF Moved, Carries, Brings
<1>6. /\ Tokens'
      /\ usable' \subseteq 1 .. issued' /\ due' \subseteq 1 .. issued' /\ issued' \in Nat
  BY <1>2, <1>3, <1>4, <1>5, IssuedTokens
<1>7. TypeOK'
  BY <1>1, <1>3, <1>4, <1>6 DEF TypeOK, Moved
<1>8. RowUsableOrOverwritten'
  <2>1. CASE local[p].used = token
    BY <1>2, <1>3, <1>5, <2>1 DEF RowUsableOrOverwritten, RowUsable, Moved
  <2>2. CASE local[p].used # token
    BY <1>3, <1>4, <1>5, <2>2 DEF IInv, RowUsableOrOverwritten, RowUsable, Moved
  <2> QED BY <2>1, <2>2
<1>9. Verdicts'
  <2>1. ASSUME NEW q \in Procs, Carries(q)', q \notin unprotected'
        PROVE  /\ status' = "error" /\ local'[q].used = token' => suspect'
               /\ \A t \in Procs \ {q} :
                    step'[t] \in {"invalid", "seterror"} /\ local'[t].used = local'[q].used
                      => suspect'
    <3>1. \A t \in Procs : step'[t] \in {"invalid", "seterror"} =>
            /\ t # p /\ step'[t] = step[t] /\ local'[t] = local[t]
            /\ suspect \/ local[t].used \notin usable
      BY <1>3 DEF IInv, Tokens, Moved
    <3>2. CASE q = p
      BY <1>2, <1>3, <1>4, <3>1, <3>2 DEF IInv, ErrorIsReal, Moved
    <3>3. CASE q # p
      <4>1. Carries(q) /\ q \notin unprotected /\ local'[q] = local[q]
        BY <1>3, <1>5, <2>1, <3>3 DEF Moved
      <4> QED BY <3>1, <4>1 DEF IInv, Verdicts
    <3> QED BY <3>2, <3>3
  <2> QED BY <2>1 DEF Verdicts, Carries
<1>10. ErrorIsReal'
  BY <1>1, <1>4 DEF IInv, ErrorIsReal, Tokens
<1> QED BY <1>6, <1>7, <1>8, <1>9, <1>10

\* A verdict on a dead token that is the row's is as good as it gets; any other is marked.
LEMMA VerdictKeepsIInv ==
  ASSUME IInv, NEW p \in Procs, step[p] \in {"refresh", "recover"}, Verdict(p),
         UNCHANGED <<rowVars, provVars, lock, held, unprotected, lost, overwritten>>,
         NoFault \/ Fault,
         suspect' \in BOOLEAN, suspect => suspect', Raced(p) => suspect',
         suspect' \/ (local[p].used \notin usable /\ token = local[p].used)
  PROVE  IInv'
<1> DEFINE r == [local[p] EXCEPT !.new = token]
<1>1. TypeOK /\ local[p].op = "refresh" /\ local[p] \in Locals /\ token \in Nat
  BY DEF IInv, TypeOK, Roles
<1>2. /\ r \in Locals /\ r.op = local[p].op /\ r.acct = local[p].acct
      /\ r.used = local[p].used /\ r.new = token
  BY <1>1, Fields
<1>3. Moved(p, "invalid", r)
  BY <1>1, <1>2, Moving DEF Verdict, Steps
<1> HIDE DEF r
<1>4. TypeOK'
  BY <1>1, <1>2, <1>3, QuietTypes DEF TypeOK
<1>5. Roles'
  BY <1>1, <1>2, <1>3, OtherRoles DEF IInv
<1>6. Protection'
  BY <1>1, <1>3, QuietProtection DEF IInv, Steps
<1>7. /\ \A q \in Procs :
           /\ (Carries(q)' <=> Carries(q)) /\ (Brings(q)' <=> Brings(q))
           /\ local'[q].used = local[q].used /\ local'[q].acct = local[q].acct
           /\ Brings(q) => local'[q].new = local[q].new
      /\ \A q \in Procs \ {p} : step'[q] = step[q] /\ local'[q] = local[q]
      /\ step'[p] = "invalid" /\ local'[p].new = r.new
      /\ ~Carries(p)
  BY <1>1, <1>2, <1>3 DEF Moved, Carries, Brings
<1>8. Tokens'
  <2>1. /\ token' \in 1 .. issued'
        /\ \A q \in Procs :
             /\ local'[q].acct <= issued' /\ local'[q].used <= issued'
             /\ step'[q] = "save" /\ local'[q].op = "edit" => local'[q].used # 0
             /\ step'[q] = "recover" => local'[q].used \notin usable'
             /\ step'[q] \in {"invalid", "seterror"} =>
                  suspect' \/ (local'[q].used \notin usable' /\ local'[q].new = local'[q].used)
    BY <1>1, <1>2, <1>7 DEF IInv, Tokens
  <2>2. ASSUME NEW q \in Procs, Brings(q)'
        PROVE  /\ local'[q].new \in usable' \ {token'}
               /\ \A t \in Procs :
                    /\ local'[q].new \notin {local'[t].acct, local'[t].used}
                    /\ t # q /\ Brings(t)' => local'[q].new # local'[t].new
    BY <1>1, <1>7, <2>2 DEF IInv, Tokens
  <2> QED BY <2>1, <2>2 DEF Tokens
<1>9. RowUsableOrOverwritten'
  BY <1>1, <1>7 DEF IInv, RowUsableOrOverwritten, RowUsable
<1>10. ErrorIsReal'
  BY <1>1, <1>2 DEF IInv, ErrorIsReal
<1>11. Verdicts'
  <2>1. ASSUME NEW q \in Procs, Carries(q), q \notin unprotected, local[p].used = local[q].used
        PROVE  suspect'
    <3>1. q \in held /\ lock = q /\ q # p
      BY <1>1, <1>7, <2>1 DEF IInv, Protection, Roles, Carries, AllOps
    <3>2. p \in unprotected
      BY <1>1, <3>1 DEF IInv, Protection
    <3> QED BY <1>2, <2>1, <3>1, <3>2 DEF Raced
  <2> QED BY <1>1, <1>2, <1>7, <2>1 DEF IInv, Verdicts
<1> QED BY <1>4, <1>5, <1>6, <1>8, <1>9, <1>10, <1>11 DEF IInv

\* Refresh: rotated, used up, failed, refused, or condemned.
LEMMA RefreshKeepsIInv ==
  ASSUME IInv, NEW p \in Procs, Refresh(p)
  PROVE  IInv'
<1>1. /\ TypeOK /\ step[p] = "refresh" /\ local[p].op = "refresh" /\ local[p] \in Locals
      /\ UNCHANGED <<rowVars, lock, held, unprotected, overwritten>>
  BY DEF IInv, TypeOK, Roles, Refresh
<1>2. CASE Rotate(p, "persist") /\ UNCHANGED suspect
  <2> DEFINE r == [local[p] EXCEPT !.new = issued + 1]
  <2>1. r \in Locals /\ r.op = "refresh"
    BY <1>1 DEF TypeOK, Locals
  <2>2. Moved(p, "persist", r)
    BY <1>1, <1>2, <2>1, Moving DEF Rotate, Steps
  <2> HIDE DEF r
  <2>3. Roles'
    BY <1>1, <2>1, <2>2, OtherRoles DEF IInv
  <2>4. Protection'
    BY <1>1, <2>2, QuietProtection DEF IInv, Steps
  <2> QED BY <1>1, <1>2, <2>3, <2>4, RotateRest DEF IInv
<1>3. CASE /\ RotateLost(p) \/ (Fault /\ UNCHANGED <<provVars, lost>>)
           /\ Continue(p, "retry") /\ UNCHANGED suspect
  <2>1. Moved(p, "retry", local[p])
    BY <1>1, <1>3, Continuing DEF Steps
  <2>2. /\ Fault /\ UNCHANGED <<issued, due>> /\ lost' \subseteq Nat
        /\ \/ UNCHANGED <<usable, lost>>
           \/ usable' = usable \ {local[p].used} /\ lost' = lost \cup {local[p].used}
    BY <1>1, <1>3 DEF RotateLost, Lose, TypeOK, Locals
  <2>3. TypeOK'
    BY <1>1, <1>3, <2>1, <2>2, QuietTypes DEF TypeOK
  <2>4. Roles'
    BY <1>1, <2>1, OtherRoles DEF IInv
  <2>5. Protection'
    BY <1>1, <2>1, QuietProtection DEF IInv, Steps
  <2>6. Tokens' /\ RowUsableOrOverwritten' /\ Verdicts' /\ ErrorIsReal'
    BY <1>1, <1>3, <2>1, <2>2, QuietRest DEF Steps, Carries
  <2> QED BY <2>3, <2>4, <2>5, <2>6 DEF IInv
<1>4. CASE /\ local[p].used \notin usable /\ Continue(p, "recover")
           /\ NoFault /\ UNCHANGED <<provVars, lost, suspect>>
  <2>1. Moved(p, "recover", local[p])
    BY <1>1, <1>4, Continuing DEF Steps
  <2>2. TypeOK'
    BY <1>1, <1>4, <2>1, QuietTypes DEF TypeOK
  <2>3. Roles'
    BY <1>1, <2>1, OtherRoles DEF IInv
  <2>4. Protection'
    BY <1>1, <2>1, QuietProtection DEF IInv, Steps
  <2>5. \A q \in Procs :
          /\ local'[q] = local[q] /\ (Carries(q)' <=> Carries(q)) /\ (Brings(q)' <=> Brings(q))
          /\ step'[q] = step[q] \/ (q = p /\ step'[q] = "recover")
    BY <1>1, <2>1 DEF Moved, Carries, Brings
  <2>6. Tokens'
    BY <1>1, <1>4, <2>5 DEF IInv, Tokens
  <2>7. RowUsableOrOverwritten' /\ Verdicts' /\ ErrorIsReal'
    BY <1>1, <1>4, <2>5
       DEF IInv, RowUsableOrOverwritten, RowUsable, Verdicts, ErrorIsReal
  <2> QED BY <2>2, <2>3, <2>4, <2>6, <2>7 DEF IInv
<1>5. CASE Condemn(p) /\ UNCHANGED <<provVars, lost>>
  <2>1. Verdict(p) /\ (NoFault \/ Fault)
    BY <1>5 DEF Condemn
  <2>2. CASE /\ local[p].used \notin usable
             /\ suspect' = (suspect \/ token # local[p].used \/ Raced(p))
    <3>1. CASE suspect \/ token # local[p].used \/ Raced(p)
      BY <1>1, <1>5, <2>1, <2>2, <3>1, VerdictKeepsIInv
    <3>2. CASE ~suspect /\ token = local[p].used /\ ~Raced(p)
      <4>1. ~suspect' /\ suspect' \in BOOLEAN
        BY <2>2, <3>2
      <4> QED BY <1>1, <1>5, <2>1, <2>2, <3>2, <4>1, VerdictKeepsIInv
    <3> QED BY <3>1, <3>2
  <2>3. CASE suspect' = TRUE
    BY <1>1, <1>5, <2>1, <2>3, VerdictKeepsIInv
  <2> QED BY <1>5, <2>2, <2>3 DEF Condemn
<1> QED BY <1>2, <1>3, <1>4, <1>5 DEF Refresh

\* Recover: the verdict is about the row's token, or marked.
LEMMA RecoverKeepsIInv ==
  ASSUME IInv, NEW p \in Procs, Recover(p)
  PROVE  IInv'
<1>1. /\ TypeOK /\ step[p] = "recover" /\ local[p].op = "refresh" /\ local[p] \in Locals
      /\ token \in Nat
      /\ UNCHANGED <<rowVars, provVars, lock, held, unprotected, lost, overwritten>>
  BY DEF IInv, TypeOK, Roles, Recover
<1>2. CASE Continue(p, "current") /\ NoFault /\ UNCHANGED suspect
  <2>1. Moved(p, "current", local[p])
    BY <1>1, <1>2, Continuing DEF Steps
  <2>2. TypeOK'
    BY <1>1, <1>2, <2>1, QuietTypes DEF TypeOK
  <2>3. Roles'
    BY <1>1, <2>1, OtherRoles DEF IInv
  <2>4. Protection'
    BY <1>1, <2>1, QuietProtection DEF IInv, Steps
  <2>5. Tokens' /\ RowUsableOrOverwritten' /\ Verdicts' /\ ErrorIsReal'
    BY <1>1, <1>2, <2>1, QuietRest DEF Steps, Carries
  <2> QED BY <2>2, <2>3, <2>4, <2>5 DEF IInv
<1>3. CASE Verdict(p) /\ token = local[p].used /\ suspect' = (suspect \/ Raced(p)) /\ NoFault
  <2>1. local[p].used \notin usable
    BY <1>1 DEF IInv, Tokens
  <2>2. suspect' \in BOOLEAN /\ (suspect => suspect') /\ (Raced(p) => suspect')
    BY <1>1, <1>3 DEF TypeOK
  <2> QED BY <1>1, <1>3, <2>1, <2>2, VerdictKeepsIInv
<1>4. CASE Verdict(p) /\ suspect' = TRUE /\ Fault
  BY <1>1, <1>4, VerdictKeepsIInv
<1> QED BY <1>2, <1>3, <1>4 DEF Recover

\* Leave: who is the holder of a lock that somebody else deletes goes on record.
LEMMA LeaveKeepsIInv ==
  ASSUME IInv, NEW p \in Procs, Leave(p)
  PROVE  IInv'
<1>1. /\ TypeOK /\ step[p] \in Outcomes /\ local[p].op = "refresh" /\ local[p] \in Locals
      /\ ReleaseRefreshLock(p) /\ held' = held \ {p}
      /\ UNCHANGED <<rowVars, provVars, histVars>>
  BY DEF IInv, TypeOK, Roles, Leave
<1>2. /\ lock' \in Procs \cup {NoProc} /\ held' \subseteq Procs
      /\ NoFault \/ Fault
      /\ unprotected' \subseteq Procs
      /\ unprotected \ {p} \subseteq unprotected'
      /\ p \notin unprotected'
      /\ \A q \in held' : q \notin unprotected' => lock' = lock /\ q \notin unprotected
  <2>1. CASE /\ p \in held /\ lock' = NoProc
             /\ unprotected' = (unprotected \cup ({lock} \cap held)) \ {p} /\ NoFault
    <3>1. \A q \in held : q \notin unprotected => q = lock
      BY <1>1 DEF IInv, Protection
    <3> QED BY <1>1, <2>1, <3>1 DEF TypeOK
  <2>2. CASE /\ NoFault \/ Fault
             /\ unprotected' = unprotected \ {p} /\ UNCHANGED lock
    BY <1>1, <2>2 DEF TypeOK
  <2> QED BY <1>1, <2>1, <2>2 DEF ReleaseRefreshLock
<1>3. ASSUME NEW s \in Steps, NEW r \in Locals, Moved(p, s, r),
             s \notin Calling, s = "seterror" => step[p] = "invalid",
             \/ r = local[p] /\ s \in {"mutex", "seterror"}
             \/ r = Blank /\ s = "idle"
      PROVE  IInv'
  <2>1. r.op \in {"refresh", "none"} /\ (s # "idle" => r.op = "refresh")
    BY <1>1, <1>3, Blanks
  <2>2. TypeOK'
    BY <1>1, <1>2, <1>3, QuietTypes DEF TypeOK
  <2>3. Roles'
    BY <1>2, <1>3, <2>1, OtherRoles DEF IInv
  <2>4. Protection'
    <3>1. \A q \in held' : step'[q] \in InCall /\ (q \notin unprotected' => lock' = q)
      BY <1>1, <1>2, <1>3 DEF IInv, TypeOK, Protection, Moved
    <3>2. \A q \in Procs : step'[q] \in InCall => q \in held' \cup unprotected'
      BY <1>1, <1>2, <1>3 DEF IInv, Protection, Moved
    <3>3. \A q, t \in Procs : q # t /\ Colocated(q, t) => ~({step'[q], step'[t]} \subseteq Calling)
      BY <1>3 DEF IInv, Protection, Moved
    <3> QED BY <3>1, <3>2, <3>3 DEF Protection, Colocated
  <2>5. CASE s = "seterror"
    <3>1. /\ \A q \in Procs :
               /\ (Carries(q)' <=> Carries(q)) /\ (Brings(q)' <=> Brings(q))
               /\ local'[q] = local[q]
               /\ step'[q] = step[q] \/ (step[q] = "invalid" /\ step'[q] = "seterror")
      BY <1>1, <1>3, <2>5, Blanks DEF Moved, Carries, Brings
    <3>2. Tokens'
      BY <1>1, <3>1 DEF IInv, Tokens
    <3>3. \A q \in Procs : Carries(q)' /\ q \notin unprotected' => q \notin unprotected
      BY <1>1, <1>2, <3>1 DEF Carries
    <3>4. Verdicts'
      <4>1. ASSUME NEW q \in Procs, Carries(q)', q \notin unprotected'
            PROVE  /\ status' = "error" /\ local'[q].used = token' => suspect'
                   /\ \A t \in Procs \ {q} :
                        step'[t] \in {"invalid", "seterror"} /\ local'[t].used = local'[q].used
                          => suspect'
        BY <1>1, <3>1, <3>3, <4>1 DEF IInv, Verdicts
      <4> QED BY <4>1 DEF Verdicts, Carries
    <3>5. RowUsableOrOverwritten' /\ ErrorIsReal'
      BY <1>1, <3>1 DEF IInv, RowUsableOrOverwritten, RowUsable, ErrorIsReal
    <3> QED BY <2>2, <2>3, <2>4, <3>2, <3>4, <3>5 DEF IInv
  <2>6. CASE s # "seterror"
    <3>1. ~Carries(p) /\ ~Carries(p)'
      BY <1>1, <1>3 DEF Carries, Moved
    <3>2. {r.acct, r.used} \subseteq {0, token, local[p].acct, local[p].used}
      BY <1>3, Blanks
    <3>3. Tokens' /\ RowUsableOrOverwritten' /\ Verdicts' /\ ErrorIsReal'
      BY <1>1, <1>2, <1>3, <2>6, <3>1, <3>2, QuietRest
    <3> QED BY <2>2, <2>3, <2>4, <3>3 DEF IInv
  <2> QED BY <2>5, <2>6
<1>4. CASE step[p] = "invalid" /\ Continue(p, "seterror")
  <2>1. Moved(p, "seterror", local[p])
    BY <1>1, <1>4, Continuing DEF Steps
  <2> QED BY <1>1, <1>3, <1>4, <2>1 DEF Steps
<1>5. CASE Continue(p, "mutex")
  <2>1. Moved(p, "mutex", local[p])
    BY <1>1, <1>5, Continuing DEF Steps
  <2> QED BY <1>1, <1>3, <2>1 DEF Steps
<1>6. CASE Return(p)
  <2>1. Moved(p, "idle", Blank)
    BY <1>1, <1>6, Returning
  <2> QED BY <1>3, <2>1, Blanks DEF Steps
<1> QED BY <1>4, <1>5, <1>6 DEF Leave

-----------------------------------------------------------------------------
(* Writes of the row.                                                      *)

\* The token a process brings replaces the row's, and the status is either active or
\* marked.
LEMMA ReplacedRest ==
  ASSUME IInv, NEW p \in Procs, NEW s \in Steps, NEW r \in Locals, Moved(p, s, r),
         Brings(p), token' = local[p].new,
         UNCHANGED <<provVars, lost, overwritten>>,
         suspect => suspect', status' = "error" => suspect',
         \A q \in Procs : q \in unprotected \ unprotected' => ~Carries(q)',
         s \notin {"persist", "update", "save", "recover", "invalid", "seterror"},
         {r.acct, r.used} \subseteq {0, token, local[p].acct, local[p].used}
  PROVE  Tokens' /\ RowUsableOrOverwritten' /\ Verdicts' /\ ErrorIsReal'
<1>1. /\ \A q \in Procs \ {p} : (Carries(q)' <=> Carries(q)) /\ (Brings(q)' <=> Brings(q))
      /\ ~Carries(p)' /\ ~Brings(p)'
  BY DEF Moved, Carries, Brings
<1>2. token' \in usable /\ token' \in 1 .. issued /\ TypeOK
  BY DEF IInv, TypeOK, Tokens
<1>3. Tokens'
  <2>1. /\ token' \in 1 .. issued'
        /\ \A q \in Procs :
             /\ local'[q].acct <= issued' /\ local'[q].used <= issued'
             /\ step'[q] = "save" /\ local'[q].op = "edit" => local'[q].used # 0
             /\ step'[q] = "recover" => local'[q].used \notin usable'
             /\ step'[q] \in {"invalid", "seterror"} =>
                  suspect' \/ (local'[q].used \notin usable' /\ local'[q].new = local'[q].used)
    BY <1>2 DEF IInv, TypeOK, Tokens, Moved, Locals
  <2>2. ASSUME NEW q \in Procs, Brings(q)'
        PROVE  /\ local'[q].new \in usable' \ {token'}
               /\ \A t \in Procs :
                    /\ local'[q].new \notin {local'[t].acct, local'[t].used}
                    /\ t # q /\ Brings(t)' => local'[q].new # local'[t].new
    <3>1. q # p /\ Brings(q) /\ local'[q] = local[q] /\ local[q].new # 0
      BY <1>1, <1>2, <2>2 DEF IInv, TypeOK, Tokens, Moved
    <3>2. local'[q].new \in usable' \ {token'}
      BY <3>1 DEF IInv, Tokens
    <3>3. ASSUME NEW t \in Procs
          PROVE  /\ local'[q].new \notin {local'[t].acct, local'[t].used}
                 /\ t # q /\ Brings(t)' => local'[q].new # local'[t].new
      BY <1>1, <3>1 DEF IInv, Tokens, Moved
    <3> QED BY <3>2, <3>3
  <2> QED BY <2>1, <2>2 DEF Tokens
<1>4. RowUsableOrOverwritten' /\ ErrorIsReal'
  BY <1>2 DEF RowUsableOrOverwritten, RowUsable, ErrorIsReal
<1>5. Verdicts'
  <2>1. ASSUME NEW q \in Procs, Carries(q)', q \notin unprotected'
        PROVE  /\ status' = "error" /\ local'[q].used = token' => suspect'
               /\ \A t \in Procs \ {q} :
                    step'[t] \in {"invalid", "seterror"} /\ local'[t].used = local'[q].used
                      => suspect'
    BY <1>1, <2>1 DEF IInv, Verdicts, Moved
  <2> QED BY <2>1 DEF Verdicts, Carries
<1> QED BY <1>3, <1>4, <1>5

\* Persist: the token is written, or used up for nothing.
LEMMA PersistKeepsIInv ==
  ASSUME IInv, NEW p \in Procs, Persist(p)
  PROVE  IInv'
<1>1. /\ TypeOK /\ step[p] = "persist" /\ local[p].op = "refresh" /\ local[p] \in Locals
      /\ UNCHANGED <<status, provVars, lock, held, unprotected, overwritten>>
      /\ Brings(p) /\ Carries(p)
  BY DEF IInv, TypeOK, Roles, Persist, Brings, Carries
<1>2. PICK s \in {"done", "retry"} :
        /\ Continue(p, s) /\ (NoFault \/ Fault)
        /\ \/ /\ token' = local[p].new /\ UNCHANGED lost
              /\ suspect' = (suspect \/ Outlived(p))
           \/ s = "retry" /\ Lose(p) /\ UNCHANGED <<token, suspect>>
  BY DEF Persist
<1>3. Moved(p, s, local[p]) /\ s \in Steps
  BY <1>1, <1>2, Continuing DEF Steps
<1>4. token' \in Nat /\ lost' \subseteq Nat /\ suspect' \in BOOLEAN
  BY <1>1, <1>2 DEF TypeOK, Locals, Lose
<1>5. TypeOK'
  BY <1>1, <1>2, <1>3, <1>4, QuietTypes DEF TypeOK
<1>6. Roles'
  BY <1>1, <1>3, OtherRoles DEF IInv
<1>7. Protection'
  BY <1>1, <1>3, QuietProtection DEF IInv
<1>8. CASE /\ token' = local[p].new /\ UNCHANGED lost
           /\ suspect' = (suspect \/ Outlived(p))
  <2>1. status' = "error" => suspect'
    <3>1. CASE p \in unprotected \/ token # local[p].used
      BY <1>1, <1>8, <3>1 DEF Outlived
    <3>2. CASE p \notin unprotected /\ token = local[p].used
      BY <1>1, <1>8, <3>2 DEF IInv, Verdicts
    <3> QED BY <3>1, <3>2
  <2>2. Tokens' /\ RowUsableOrOverwritten' /\ Verdicts' /\ ErrorIsReal'
    BY <1>1, <1>3, <1>8, <2>1, ReplacedRest
  <2> QED BY <1>5, <1>6, <1>7, <2>2 DEF IInv
<1>9. CASE Lose(p) /\ UNCHANGED <<token, suspect>>
  <2>1. Tokens' /\ RowUsableOrOverwritten' /\ Verdicts' /\ ErrorIsReal'
    BY <1>1, <1>3, <1>9, QuietRest DEF Lose
  <2> QED BY <1>5, <1>6, <1>7, <2>1 DEF IInv
<1> QED BY <1>2, <1>8, <1>9

\* SetError: the verdict was about this token, or is marked.
LEMMA SetErrorKeepsIInv ==
  ASSUME IInv, NEW p \in Procs, SetError(p)
  PROVE  IInv'
<1>1. /\ TypeOK /\ step[p] = "seterror" /\ local[p] \in Locals
      /\ NoFault \/ Fault
      /\ UNCHANGED <<token, provVars, lock, held, unprotected, lost, overwritten>>
      /\ ~Carries(p)
  BY DEF IInv, TypeOK, SetError, Carries
<1>2. Moved(p, "idle", Blank)
  BY <1>1, Returning DEF SetError
<1>3. /\ status' \in {"active", "error"} /\ suspect' \in BOOLEAN
      /\ \/ UNCHANGED <<status, suspect>>
         \/ status' = "error" /\ suspect' = (suspect \/ Overtaken(p))
  BY <1>1 DEF SetError, TypeOK
<1>4. TypeOK'
  BY <1>1, <1>2, <1>3, QuietTypes DEF TypeOK
<1>5. Roles'
  BY <1>1, <1>2, Blanks, OtherRoles DEF IInv
<1>6. Protection'
  BY <1>1, <1>2, QuietProtection DEF IInv, Steps
<1>7. CASE UNCHANGED <<status, suspect>>
  <2>1. Tokens' /\ RowUsableOrOverwritten' /\ Verdicts' /\ ErrorIsReal'
    BY <1>1, <1>2, <1>7, Blanks, QuietRest DEF Steps
  <2> QED BY <1>4, <1>5, <1>6, <2>1 DEF IInv
<1>8. CASE status' = "error" /\ suspect' = (suspect \/ Overtaken(p))
  <2>1. /\ \A q \in Procs \ {p} :
             /\ (Carries(q)' <=> Carries(q)) /\ (Brings(q)' <=> Brings(q))
             /\ step'[q] = step[q] /\ local'[q] = local[q]
        /\ ~Carries(p)' /\ ~Brings(p)' /\ step'[p] = "idle" /\ local'[p] = Blank
    BY <1>2 DEF Moved, Carries, Brings
  <2>2. suspect \/ (local[p].used \notin usable /\ local[p].new = local[p].used)
    BY <1>1 DEF IInv, Tokens
  <2>3. Tokens'
    <3>1. /\ token' \in 1 .. issued'
          /\ \A q \in Procs :
               /\ local'[q].acct <= issued' /\ local'[q].used <= issued'
               /\ step'[q] = "save" /\ local'[q].op = "edit" => local'[q].used # 0
               /\ step'[q] = "recover" => local'[q].used \notin usable'
               /\ step'[q] \in {"invalid", "seterror"} =>
                    suspect' \/ (local'[q].used \notin usable' /\ local'[q].new = local'[q].used)
      BY <1>1, <1>8, <2>1, Blanks DEF IInv, TypeOK, Tokens
    <3>2. ASSUME NEW q \in Procs, Brings(q)'
          PROVE  /\ local'[q].new \in usable' \ {token'}
                 /\ \A t \in Procs :
                      /\ local'[q].new \notin {local'[t].acct, local'[t].used}
                      /\ t # q /\ Brings(t)' => local'[q].new # local'[t].new
      <4>1. q # p /\ Brings(q) /\ local'[q] = local[q] /\ local[q].new # 0
        BY <1>1, <2>1, <3>2 DEF IInv, TypeOK, Tokens
      <4> QED BY <1>1, <2>1, <4>1, Blanks DEF IInv, Tokens
    <3> QED BY <3>1, <3>2 DEF Tokens
  <2>4. RowUsableOrOverwritten'
    BY <1>1, <2>1 DEF IInv, RowUsableOrOverwritten, RowUsable
  <2>5. ErrorIsReal'
    BY <1>1, <1>8, <2>2 DEF ErrorIsReal, Overtaken
  <2>6. Verdicts'
    <3>1. ASSUME NEW q \in Procs, Carries(q)', q \notin unprotected'
          PROVE  /\ status' = "error" /\ local'[q].used = token' => suspect'
                 /\ \A t \in Procs \ {q} :
                      step'[t] \in {"invalid", "seterror"} /\ local'[t].used = local'[q].used
                        => suspect'
      <4>1. q # p /\ Carries(q) /\ q \notin unprotected /\ local'[q] = local[q]
        BY <1>1, <2>1, <3>1
      <4>2. local[q].used = token => suspect'
        BY <1>1, <1>8, <2>2, <4>1 DEF IInv, Verdicts, Overtaken
      <4> QED BY <1>1, <1>8, <2>1, <4>1, <4>2 DEF IInv, Verdicts
    <3> QED BY <3>1 DEF Verdicts, Carries
  <2> QED BY <1>4, <1>5, <1>6, <2>3, <2>4, <2>5, <2>6 DEF IInv
<1> QED BY <1>3, <1>7, <1>8

-----------------------------------------------------------------------------
(* The administrator.                                                      *)

\* ManualRead: on record as going without the lock.
LEMMA ManualReadKeepsIInv ==
  ASSUME IInv, NEW p \in Procs, ManualRead(p)
  PROVE  IInv'
<1> DEFINE r == [Blank EXCEPT !.op = "manual", !.used = token]
<1>1. /\ TypeOK /\ step[p] = "idle" /\ token \in Nat /\ "manual" \in AllOps
      /\ unprotected' = unprotected \cup {p} /\ NoFault
      /\ UNCHANGED <<rowVars, provVars, lock, held, histVars>>
  BY DEF IInv, TypeOK, AllOps, ManualRead
<1>2. r \in Locals /\ r.op = "manual" /\ r.acct = 0 /\ r.used = token
  BY <1>1 DEF Blank, Locals
<1> HIDE DEF r
<1>3. Moved(p, "manual", r)
  BY <1>1, <1>2, Moving DEF ManualRead, Steps, r
<1>4. TypeOK'
  BY <1>1, <1>3, QuietTypes DEF TypeOK
<1>5. Roles'
  BY <1>1, <1>2, <1>3, OtherRoles DEF IInv
<1>6. Protection'
  BY <1>1, <1>3, QuietProtection DEF IInv, Steps
<1>7. Tokens' /\ RowUsableOrOverwritten' /\ Verdicts' /\ ErrorIsReal'
  BY <1>1, <1>2, <1>3, QuietRest DEF Steps, Carries
<1> QED BY <1>4, <1>5, <1>6, <1>7 DEF IInv

\* ManualRefresh: rotated, used up, failed, or refused.
LEMMA ManualRefreshKeepsIInv ==
  ASSUME IInv, NEW p \in Procs, ManualRefresh(p)
  PROVE  IInv'
<1>1. /\ TypeOK /\ step[p] = "manual" /\ local[p].op = "manual" /\ local[p] \in Locals
      /\ p \in unprotected
      /\ UNCHANGED <<rowVars, lock, held, overwritten, suspect>>
  BY DEF IInv, TypeOK, Roles, ManualRefresh
<1>2. CASE Rotate(p, "update") /\ UNCHANGED unprotected
  <2> DEFINE r == [local[p] EXCEPT !.new = issued + 1]
  <2>1. r \in Locals /\ r.op = "manual"
    BY <1>1 DEF TypeOK, Locals
  <2>2. Moved(p, "update", r)
    BY <1>1, <1>2, <2>1, Moving DEF Rotate, Steps
  <2> HIDE DEF r
  <2>3. Roles'
    BY <1>1, <1>2, <2>1, <2>2, OtherRoles DEF IInv, AllOps
  <2>4. Protection'
    BY <1>1, <1>2, <2>2, QuietProtection DEF IInv, Steps
  <2> QED BY <1>1, <1>2, <2>3, <2>4, RotateRest DEF IInv
<1>3. CASE /\ Return(p) /\ unprotected' = unprotected \ {p}
           /\ NoFault \/ Fault
           /\ RotateLost(p) \/ UNCHANGED <<provVars, lost>>
  <2>1. Moved(p, "idle", Blank)
    BY <1>1, <1>3, Returning
  <2>2. /\ UNCHANGED <<issued, due>> /\ lost' \subseteq Nat
        /\ \/ UNCHANGED <<usable, lost>>
           \/ usable' = usable \ {local[p].used} /\ lost' = lost \cup {local[p].used}
    BY <1>1, <1>3 DEF RotateLost, Lose, TypeOK, Locals
  <2>3. TypeOK'
    BY <1>1, <1>3, <2>1, <2>2, QuietTypes DEF TypeOK
  <2>4. Roles'
    BY <1>1, <1>3, <2>1, Blanks, OtherRoles DEF IInv
  <2>5. Protection'
    BY <1>1, <1>3, <2>1, QuietProtection DEF IInv, Steps, Moved
  <2>6. Tokens' /\ RowUsableOrOverwritten' /\ Verdicts' /\ ErrorIsReal'
    <3>1. ~Carries(p) /\ ~Carries(p)'
      BY <1>1, <2>1 DEF Carries, Moved
    <3> QED BY <1>1, <1>3, <2>1, <2>2, <3>1, Blanks, QuietRest DEF Steps
  <2> QED BY <2>3, <2>4, <2>5, <2>6 DEF IInv
<1>4. RotateLost(p) => Fault
  BY DEF RotateLost
<1> QED BY <1>2, <1>3, <1>4 DEF ManualRefresh

\* ApplyOAuthCredentials: a token of a new grant.
LEMMA AuthoriseKeepsIInv ==
  ASSUME IInv, NEW p \in Procs, Authorise(p)
  PROVE  IInv'
<1> DEFINE r == [Blank EXCEPT !.op = "authorise", !.new = issued + 1]
<1>1. /\ TypeOK /\ step[p] = "idle" /\ issued \in Nat /\ issued + 1 \in Nat
      /\ issued' = issued + 1 /\ usable' = usable \cup {issued + 1} /\ NoFault
      /\ UNCHANGED <<rowVars, due, lock, held, unprotected, histVars>>
  BY DEF IInv, TypeOK, Authorise
<1>2. /\ r \in Locals /\ r.op = "authorise" /\ r.acct = 0 /\ r.used = 0
      /\ r.new = issued + 1
  BY <1>1 DEF Blank, Locals, AllOps
<1>3. Moved(p, "update", r)
  BY <1>1, <1>2, Moving DEF Authorise, Steps
<1> HIDE DEF r
<1>4. /\ \A q \in Procs : (Carries(q)' <=> Carries(q)) /\ (Carries(q) => q # p)
      /\ \A q \in Procs \ {p} : step'[q] = step[q] /\ local'[q] = local[q]
      /\ step'[p] = "update" /\ ~Brings(p)
  BY <1>1, <1>2, <1>3 DEF Moved, Carries, Brings
<1>5. /\ Tokens'
      /\ usable' \subseteq 1 .. issued' /\ due' \subseteq 1 .. issued' /\ issued' \in Nat
  BY <1>1, <1>2, <1>3, <1>4, IssuedTokens
<1>6. TypeOK'
  BY <1>1, <1>3, <1>5 DEF TypeOK, Moved, NoFault
<1>7. Roles'
  BY <1>1, <1>2, <1>3, OtherRoles DEF IInv, AllOps
<1>8. Protection'
  BY <1>1, <1>3, QuietProtection DEF IInv, Steps
<1>9. RowUsableOrOverwritten' /\ Verdicts'
  <2>1. RowUsableOrOverwritten'
    BY <1>1, <1>4 DEF IInv, RowUsableOrOverwritten, RowUsable
  <2>2. Verdicts'
    BY <1>1, <1>4 DEF IInv, Verdicts
  <2> QED BY <2>1, <2>2
<1>10. ErrorIsReal'
  <2>1. token # issued + 1
    BY <1>1 DEF IInv, Tokens
  <2> QED BY <1>1, <2>1 DEF IInv, ErrorIsReal
<1> QED BY <1>5, <1>6, <1>7, <1>8, <1>9, <1>10 DEF IInv

\* UpdateAccount begins: nothing is read yet.
LEMMA EditKeepsIInv ==
  ASSUME IInv, NEW p \in Procs, Edit(p)
  PROVE  IInv'
<1> DEFINE r == [Blank EXCEPT !.op = "edit"]
<1>1. /\ TypeOK /\ step[p] = "idle" /\ NoFault
      /\ UNCHANGED <<rowVars, provVars, lock, held, unprotected, histVars>>
  BY DEF IInv, TypeOK, Edit
<1>2. r \in Locals /\ r.op = "edit" /\ r.acct = 0 /\ r.used = 0
  BY DEF Blank, Locals, AllOps
<1> HIDE DEF r
<1>3. Moved(p, "update", r)
  BY <1>1, <1>2, Moving DEF Edit, Steps, r
<1>4. TypeOK'
  BY <1>1, <1>3, QuietTypes DEF TypeOK
<1>5. Roles'
  BY <1>1, <1>2, <1>3, OtherRoles DEF IInv, AllOps
<1>6. Protection'
  BY <1>1, <1>3, QuietProtection DEF IInv, Steps
<1>7. /\ \A q \in Procs :
           /\ (Carries(q)' <=> Carries(q)) /\ (Brings(q)' <=> Brings(q))
           /\ Brings(q) => q # p
      /\ \A q \in Procs \ {p} : step'[q] = step[q] /\ local'[q] = local[q]
      /\ step'[p] = "update" /\ local'[p] = r
  BY <1>1, <1>2, <1>3 DEF Moved, Carries, Brings
<1>8. Tokens'
  <2>1. /\ token' \in 1 .. issued'
        /\ \A q \in Procs :
             /\ local'[q].acct <= issued' /\ local'[q].used <= issued'
             /\ step'[q] = "save" /\ local'[q].op = "edit" => local'[q].used # 0
             /\ step'[q] = "recover" => local'[q].used \notin usable'
             /\ step'[q] \in {"invalid", "seterror"} =>
                  suspect' \/ (local'[q].used \notin usable' /\ local'[q].new = local'[q].used)
    BY <1>1, <1>2, <1>7 DEF IInv, TypeOK, Tokens
  <2>2. ASSUME NEW q \in Procs, Brings(q)'
        PROVE  /\ local'[q].new \in usable' \ {token'}
               /\ \A t \in Procs :
                    /\ local'[q].new \notin {local'[t].acct, local'[t].used}
                    /\ t # q /\ Brings(t)' => local'[q].new # local'[t].new
    <3>1. q # p /\ Brings(q) /\ local'[q] = local[q] /\ local[q].new # 0
      BY <1>1, <1>7, <2>2 DEF IInv, TypeOK, Tokens
    <3> QED BY <1>1, <1>2, <1>7, <3>1 DEF IInv, Tokens
  <2> QED BY <2>1, <2>2 DEF Tokens
<1>9. RowUsableOrOverwritten' /\ ErrorIsReal'
  BY <1>1, <1>7 DEF IInv, RowUsableOrOverwritten, RowUsable, ErrorIsReal, Carries
<1>10. Verdicts'
  BY <1>1, <1>7 DEF IInv, Verdicts, Carries
<1> QED BY <1>4, <1>5, <1>6, <1>8, <1>9, <1>10 DEF IInv

\* The token the administrator was to write is forgotten.
LEMMA AbandonKeepsIInv ==
  ASSUME IInv, NEW p \in Procs, step[p] \in {"update", "save"}, Abandon(p), Fault,
         UNCHANGED <<rowVars, provVars, lock, held, overwritten, suspect>>
  PROVE  IInv'
<1>1. /\ TypeOK /\ local[p] \in Locals
      /\ local[p].op \in AllOps \ {"refresh"}
      /\ lost' \in {lost, lost \cup {local[p].used}} /\ lost' \subseteq Nat
      /\ Carries(p) => local[p].used \in lost'
      /\ unprotected' = unprotected \ {p}
  <2>1. TypeOK /\ local[p] \in Locals /\ local[p].op \in AllOps \ {"refresh"}
    BY DEF IInv, TypeOK, Roles
  <2>2. IF local[p].op = "manual" THEN lost' = lost \cup {local[p].used} ELSE lost' = lost
    BY DEF Abandon, Lose
  <2>3. local[p].used \in Nat /\ lost \subseteq Nat
    BY <2>1 DEF TypeOK, Locals
  <2> QED BY <2>1, <2>2, <2>3 DEF Abandon, Carries
<1>2. Moved(p, "idle", Blank)
  BY <1>1, Returning DEF Abandon
<1>3. TypeOK'
  BY <1>1, <1>2, QuietTypes DEF TypeOK
<1>4. Roles'
  BY <1>1, <1>2, Blanks, OtherRoles DEF IInv
<1>5. Protection'
  BY <1>1, <1>2, QuietProtection DEF IInv, Steps, Moved
<1>6. Tokens' /\ RowUsableOrOverwritten' /\ Verdicts' /\ ErrorIsReal'
  <2>1. ~Carries(p)'
    BY <1>2 DEF Carries, Moved
  <2> QED BY <1>1, <1>2, <2>1, Blanks, QuietRest DEF Steps
<1> QED BY <1>3, <1>4, <1>5, <1>6 DEF IInv

\* UpdateRead: an edit and a new grant go by what the row holds.
LEMMA UpdateReadKeepsIInv ==
  ASSUME IInv, NEW p \in Procs, UpdateRead(p)
  PROVE  IInv'
<1>1. /\ TypeOK /\ step[p] = "update" /\ local[p] \in Locals
      /\ local[p].op \in AllOps \ {"refresh"}
      /\ token \in Nat /\ token # 0 /\ status \in {"active", "error"}
      /\ UNCHANGED <<rowVars, provVars, lock, held, overwritten, suspect>>
  BY DEF IInv, TypeOK, Roles, Tokens, UpdateRead
<1>2. CASE Fault /\ Abandon(p)
  BY <1>1, <1>2, AbandonKeepsIInv
<1>3. CASE /\ Goto(p, "save")
           /\ Keep(p, [local[p] EXCEPT !.saw = status,
                                       !.used = IF local[p].op = "manual" THEN @ ELSE token])
           /\ NoFault /\ UNCHANGED <<unprotected, lost>>
  <2> DEFINE u == IF local[p].op = "manual" THEN local[p].used ELSE token
  <2> DEFINE r == [local[p] EXCEPT !.saw = status,
                                   !.used = IF local[p].op = "manual" THEN @ ELSE token]
  <2>1. u \in Nat /\ u \in {token, local[p].used} /\ (local[p].op = "edit" => u # 0)
        /\ (local[p].op = "manual" => u = local[p].used)
    BY <1>1 DEF Locals
  <2>2. /\ r \in Locals /\ r.op = local[p].op /\ r.acct = local[p].acct
        /\ r.used = u /\ r.new = local[p].new
    BY <1>1, <2>1 DEF Locals
  <2>3. Moved(p, "save", r)
    BY <1>1, <1>3, <2>2, Moving DEF Steps
  <2> HIDE DEF r, u
  <2>4. TypeOK'
    BY <1>1, <1>3, <2>3, QuietTypes DEF TypeOK
  <2>5. Roles'
    <3>1. r.op = "manual" => p \in unprotected
      BY <2>2 DEF IInv, Roles
    <3> QED BY <1>1, <1>3, <2>2, <2>3, <3>1, OtherRoles DEF IInv
  <2>6. Protection'
    BY <1>1, <1>3, <2>3, QuietProtection DEF IInv, Steps
  <2>7. /\ \A q \in Procs :
             /\ (Carries(q)' <=> Carries(q)) /\ (Brings(q)' <=> Brings(q))
             /\ local'[q].new = local[q].new /\ local'[q].acct = local[q].acct
             /\ Carries(q) => local'[q].used = local[q].used
        /\ \A q \in Procs \ {p} : step'[q] = step[q] /\ local'[q] = local[q]
        /\ step'[p] = "save" /\ local'[p] = r
    BY <1>1, <2>1, <2>2, <2>3 DEF Moved, Carries, Brings, AllOps
  <2>8. Tokens'
    <3>1. /\ token' \in 1 .. issued'
          /\ \A q \in Procs :
               /\ local'[q].acct <= issued' /\ local'[q].used <= issued'
               /\ step'[q] = "save" /\ local'[q].op = "edit" => local'[q].used # 0
               /\ step'[q] = "recover" => local'[q].used \notin usable'
               /\ step'[q] \in {"invalid", "seterror"} =>
                    suspect' \/ (local'[q].used \notin usable' /\ local'[q].new = local'[q].used)
      <4>1. token' \in 1 .. issued' /\ token <= issued
        BY <1>1 DEF IInv, TypeOK, Tokens
      <4>2. u <= issued
        BY <2>1, <4>1 DEF IInv, Tokens
      <4> QED BY <1>1, <2>1, <2>2, <2>7, <4>1, <4>2 DEF IInv, Tokens
    <3>2. ASSUME NEW q \in Procs, Brings(q)'
          PROVE  /\ local'[q].new \in usable' \ {token'}
                 /\ \A t \in Procs :
                      /\ local'[q].new \notin {local'[t].acct, local'[t].used}
                      /\ t # q /\ Brings(t)' => local'[q].new # local'[t].new
      BY <1>1, <2>1, <2>2, <2>7, <3>2 DEF IInv, Tokens
    <3> QED BY <3>1, <3>2 DEF Tokens
  <2>9. RowUsableOrOverwritten' /\ ErrorIsReal'
    BY <1>1, <1>3, <2>7 DEF IInv, RowUsableOrOverwritten, RowUsable, ErrorIsReal
  <2>10. Verdicts'
    BY <1>1, <1>3, <2>7 DEF IInv, Verdicts
  <2> QED BY <2>4, <2>5, <2>6, <2>8, <2>9, <2>10 DEF IInv
<1> QED BY <1>2, <1>3 DEF UpdateRead

\* UpdateSave: an edit that writes an older token back is on record.
LEMMA UpdateSaveKeepsIInv ==
  ASSUME IInv, NEW p \in Procs, UpdateSave(p)
  PROVE  IInv'
<1>1. /\ TypeOK /\ step[p] = "save" /\ local[p] \in Locals
      /\ local[p].op \in AllOps \ {"refresh"}
      /\ UNCHANGED <<provVars, lock, held>>
  BY DEF IInv, TypeOK, Roles, UpdateSave
<1>2. CASE Fault /\ Abandon(p) /\ UNCHANGED <<rowVars, overwritten, suspect>>
  BY <1>1, <1>2, AbandonKeepsIInv
<1>3. CASE /\ token' = IF local[p].op = "edit" THEN local[p].used ELSE local[p].new
           /\ status' = local[p].saw
           /\ overwritten' = IF local[p].op = "edit" /\ token # local[p].used
                             THEN overwritten \cup {local[p].used} ELSE overwritten
           /\ suspect' = (suspect \/ local[p].saw = "error")
           /\ IF local[p].op = "authorise" THEN Continue(p, "clear") ELSE Return(p)
           /\ unprotected' = unprotected \ {p}
           /\ NoFault /\ UNCHANGED lost
  <2>1. PICK s \in {"clear", "idle"}, r \in {local[p], Blank} :
          /\ Moved(p, s, r)
          /\ r = Blank \/ r.op = "authorise"
    <3>1. CASE local[p].op = "authorise"
      BY <1>1, <1>3, <3>1, Continuing DEF Steps
    <3>2. CASE local[p].op # "authorise"
      <4>1. Moved(p, "idle", Blank)
        BY <1>1, <1>3, <3>2, Returning
      <4> QED BY <4>1
    <3> QED BY <3>1, <3>2
  <2>2. r \in Locals /\ s \in Steps /\ r.op \in {"authorise", "none"}
        /\ {r.acct, r.used} \subseteq {0, token, local[p].acct, local[p].used}
    BY <1>1, <2>1, Blanks DEF Steps
  <2>3. /\ token' \in Nat /\ status' \in {"active", "error"} /\ suspect' \in BOOLEAN
        /\ overwritten' \subseteq Nat
        /\ (suspect => suspect') /\ (status' = "error" => suspect')
    BY <1>1, <1>3 DEF TypeOK, Locals
  <2>4. TypeOK'
    BY <1>1, <1>3, <2>1, <2>3 DEF TypeOK, Moved, NoFault
  <2>5. Roles'
    BY <1>3, <2>1, <2>2, OtherRoles DEF IInv
  <2>6. Protection'
    BY <1>1, <1>3, <2>1, <2>2, QuietProtection DEF IInv, Moved
  <2>7. \A q \in Procs : q \in unprotected \ unprotected' => ~Carries(q)'
    BY <1>3, <2>1 DEF Carries, Moved
  <2>8. CASE local[p].op # "edit"
    <3>1. Brings(p) /\ token' = local[p].new /\ UNCHANGED <<lost, overwritten>>
      BY <1>1, <1>3, <2>8 DEF Brings, Carries, AllOps
    <3>2. s \notin {"persist", "update", "save", "recover", "invalid", "seterror"}
      BY <2>1
    <3>3. Moved(p, s, r) /\ (suspect => suspect') /\ (status' = "error" => suspect')
      BY <2>1, <2>3
    <3>4. Tokens' /\ RowUsableOrOverwritten' /\ Verdicts' /\ ErrorIsReal'
      BY <1>1, <2>2, <2>7, <3>1, <3>2, <3>3, ReplacedRest
    <3> QED BY <2>4, <2>5, <2>6, <3>4 DEF IInv
  <2>9. CASE local[p].op = "edit"
    <3>1. /\ token' = local[p].used /\ local[p].used # 0 /\ local[p].used <= issued
          /\ token' = token \/ token' \in overwritten'
          /\ overwritten \subseteq overwritten'
          /\ r = Blank
      BY <1>1, <1>3, <2>1, <2>9 DEF IInv, Tokens
    <3>2. /\ \A q \in Procs \ {p} :
               /\ (Carries(q)' <=> Carries(q)) /\ (Brings(q)' <=> Brings(q))
               /\ step'[q] = step[q] /\ local'[q] = local[q]
          /\ ~Carries(p) /\ ~Carries(p)' /\ ~Brings(p)' /\ step'[p] \in {"idle", "clear"}
      BY <1>1, <2>1, <2>9 DEF Moved, Carries, Brings
    <3>3. Tokens'
      <4>1. token' \in 1 .. issued'
        BY <1>1, <3>1 DEF TypeOK, Locals
      <4>2. \A q \in Procs :
               /\ local'[q].acct <= issued' /\ local'[q].used <= issued'
               /\ step'[q] = "save" /\ local'[q].op = "edit" => local'[q].used # 0
               /\ step'[q] = "recover" => local'[q].used \notin usable'
               /\ step'[q] \in {"invalid", "seterror"} =>
                    suspect' \/ (local'[q].used \notin usable' /\ local'[q].new = local'[q].used)
        BY <1>1, <2>1, <2>3, <3>1, <3>2, Blanks DEF IInv, TypeOK, Tokens, Moved
      <4>3. ASSUME NEW q \in Procs, Brings(q)'
            PROVE  /\ local'[q].new \in usable' \ {token'}
                   /\ \A t \in Procs :
                        /\ local'[q].new \notin {local'[t].acct, local'[t].used}
                        /\ t # q /\ Brings(t)' => local'[q].new # local'[t].new
        <5>1. q # p /\ Brings(q) /\ local'[q] = local[q] /\ local[q].new # 0
          BY <1>1, <3>2, <4>3 DEF IInv, TypeOK, Tokens
        <5> QED BY <1>1, <2>1, <3>1, <3>2, <5>1, Blanks DEF IInv, Tokens, Moved
      <4> QED BY <4>1, <4>2, <4>3 DEF Tokens
    <3>4. RowUsableOrOverwritten'
      <4>1. CASE token' \in overwritten'
        BY <4>1 DEF RowUsableOrOverwritten
      <4>2. CASE token' = token
        <5>1. \/ token \in usable \cup lost \/ token \in overwritten
              \/ \E q \in Procs \ {p} : Carries(q) /\ local[q].used = token
          BY <3>2 DEF IInv, RowUsableOrOverwritten, RowUsable
        <5> QED BY <1>1, <1>3, <3>1, <3>2, <4>2, <5>1 DEF RowUsableOrOverwritten, RowUsable
      <4> QED BY <3>1, <4>1, <4>2
    <3>5. ErrorIsReal'
      BY <2>3 DEF ErrorIsReal
    <3>6. Verdicts'
      <4>1. ASSUME NEW q \in Procs, Carries(q)', q \notin unprotected'
            PROVE  /\ status' = "error" /\ local'[q].used = token' => suspect'
                   /\ \A t \in Procs \ {q} :
                        step'[t] \in {"invalid", "seterror"} /\ local'[t].used = local'[q].used
                          => suspect'
        <5>1. q # p /\ Carries(q) /\ q \notin unprotected /\ local'[q] = local[q]
          BY <1>3, <3>2, <4>1
        <5>2. \A t \in Procs \ {q} :
                step'[t] \in {"invalid", "seterror"} => t # p /\ step'[t] = step[t]
          BY <3>2
        <5>3. \A t \in Procs \ {q} :
                step[t] \in {"invalid", "seterror"} /\ local[t].used = local[q].used => suspect
          BY <5>1 DEF IInv, Verdicts
        <5>4. \A t \in Procs \ {q} :
                step'[t] \in {"invalid", "seterror"} /\ local'[t].used = local'[q].used => suspect
          BY <3>2, <5>1, <5>2, <5>3
        <5> QED BY <2>3, <5>4
      <4> QED BY <4>1 DEF Verdicts, Carries
    <3> QED BY <2>4, <2>5, <2>6, <3>3, <3>4, <3>5, <3>6 DEF IInv
  <2> QED BY <2>8, <2>9
<1> QED BY <1>2, <1>3 DEF UpdateSave

\* ClearError: the status becomes active or stays.
LEMMA ClearErrorKeepsIInv ==
  ASSUME IInv, NEW p \in Procs, ClearError(p)
  PROVE  IInv'
<1>1. /\ TypeOK /\ step[p] = "clear" /\ local[p] \in Locals
      /\ status' \in {status, "active"} /\ status' \in {"active", "error"}
      /\ NoFault \/ Fault
      /\ UNCHANGED <<token, provVars, lock, held, unprotected, histVars>>
  BY DEF IInv, TypeOK, ClearError
<1>2. Moved(p, "idle", Blank)
  BY <1>1, Returning DEF ClearError
<1>3. TypeOK'
  BY <1>1, <1>2, QuietTypes DEF TypeOK
<1>4. Roles'
  BY <1>1, <1>2, Blanks, OtherRoles DEF IInv
<1>5. Protection'
  BY <1>1, <1>2, QuietProtection DEF IInv, Steps
<1>6. Tokens' /\ RowUsableOrOverwritten' /\ Verdicts' /\ ErrorIsReal'
  BY <1>1, <1>2, Blanks, QuietRest DEF Steps, Carries
<1> QED BY <1>3, <1>4, <1>5, <1>6 DEF IInv

-----------------------------------------------------------------------------
(* The provider, the clock, Redis and crashes.                             *)

\* Ages: only the row's token becomes due.
LEMMA AgesKeepsIInv ==
  ASSUME IInv, Ages
  PROVE  IInv'
<1>1. /\ TypeOK /\ token \in 1 .. issued /\ due' = due \cup {token} /\ NoFault
      /\ UNCHANGED <<rowVars, issued, usable, lock, procVars, histVars>>
  BY DEF IInv, Tokens, Ages
<1>2. \A q \in Procs : (Carries(q)' <=> Carries(q)) /\ (Brings(q)' <=> Brings(q))
  BY <1>1 DEF Carries, Brings
<1>3. TypeOK'
  BY <1>1 DEF TypeOK, NoFault
<1>4. Roles' /\ Protection'
  BY <1>1 DEF IInv, Roles, Protection, Colocated
<1>5. Tokens'
  BY <1>1, <1>2 DEF IInv, Tokens
<1>6. RowUsableOrOverwritten' /\ Verdicts' /\ ErrorIsReal'
  BY <1>1, <1>2 DEF IInv, RowUsableOrOverwritten, RowUsable, Verdicts, ErrorIsReal
<1> QED BY <1>3, <1>4, <1>5, <1>6 DEF IInv

\* Revoke: no process brings the row's token.
LEMMA RevokeKeepsIInv ==
  ASSUME IInv, Revoke
  PROVE  IInv'
<1>1. /\ TypeOK /\ token \in Nat /\ Fault
      /\ usable' = usable \ {token} /\ lost' = lost \cup {token}
      /\ UNCHANGED <<rowVars, issued, due, lock, procVars, overwritten, suspect>>
  BY DEF IInv, TypeOK, Revoke
<1>2. \A q \in Procs : (Carries(q)' <=> Carries(q)) /\ (Brings(q)' <=> Brings(q))
  BY <1>1 DEF Carries, Brings
<1>3. TypeOK'
  BY <1>1 DEF TypeOK, Fault
<1>4. Roles' /\ Protection'
  BY <1>1 DEF IInv, Roles, Protection, Colocated
<1>5. Tokens'
  <2>1. ASSUME NEW q \in Procs, Brings(q)'
        PROVE  /\ local'[q].new \in usable' \ {token'}
               /\ \A t \in Procs :
                    /\ local'[q].new \notin {local'[t].acct, local'[t].used}
                    /\ t # q /\ Brings(t)' => local'[q].new # local'[t].new
    BY <1>1, <1>2, <2>1 DEF IInv, Tokens
  <2>2. /\ token' \in 1 .. issued'
        /\ \A q \in Procs :
             /\ local'[q].acct <= issued' /\ local'[q].used <= issued'
             /\ step'[q] = "save" /\ local'[q].op = "edit" => local'[q].used # 0
             /\ step'[q] = "recover" => local'[q].used \notin usable'
             /\ step'[q] \in {"invalid", "seterror"} =>
                  suspect' \/ (local'[q].used \notin usable' /\ local'[q].new = local'[q].used)
    BY <1>1 DEF IInv, Tokens
  <2> QED BY <2>1, <2>2 DEF Tokens
<1>6. RowUsableOrOverwritten' /\ ErrorIsReal'
  BY <1>1 DEF RowUsableOrOverwritten, RowUsable, ErrorIsReal
<1>7. Verdicts'
  BY <1>1, <1>2 DEF IInv, Verdicts
<1> QED BY <1>3, <1>4, <1>5, <1>6, <1>7 DEF IInv

\* LockExpires: a holder that is still at work goes on record.
LEMMA LockExpiresKeepsIInv ==
  ASSUME IInv, LockExpires
  PROVE  IInv'
<1>1. /\ TypeOK /\ lock # NoProc /\ lock' = NoProc /\ (NoFault \/ Fault)
      /\ \/ lock \in held /\ unprotected' = unprotected \cup {lock}
         \/ lock \notin held /\ UNCHANGED unprotected
      /\ UNCHANGED <<rowVars, provVars, held, step, local, histVars>>
  BY DEF IInv, LockExpires
<1>2. \A q \in Procs : (Carries(q)' <=> Carries(q)) /\ (Brings(q)' <=> Brings(q))
  BY <1>1 DEF Carries, Brings
<1>3. TypeOK'
  BY <1>1 DEF TypeOK, NoFault, Fault
<1>4. Roles'
  BY <1>1 DEF IInv, Roles
<1>5. Protection'
  BY <1>1 DEF IInv, Protection, Colocated
<1>6. Tokens'
  BY <1>1, <1>2 DEF IInv, Tokens
<1>7. RowUsableOrOverwritten' /\ ErrorIsReal'
  BY <1>1, <1>2 DEF IInv, RowUsableOrOverwritten, RowUsable, ErrorIsReal
<1>8. Verdicts'
  BY <1>1, <1>2 DEF IInv, Verdicts
<1> QED BY <1>3, <1>4, <1>5, <1>6, <1>7, <1>8 DEF IInv

\* Crash: the tokens its processes had used up are on record.
LEMMA CrashKeepsIInv ==
  ASSUME IInv, NEW i \in Instances, Crash(i)
  PROVE  IInv'
<1>1. /\ TypeOK /\ i \subseteq Procs /\ Fault
      /\ held' = held \ i /\ unprotected' = unprotected \ i
      /\ UNCHANGED <<rowVars, provVars, lock, overwritten, suspect>>
  BY DEF IInv, Crash
<1>2. /\ step' \in [Procs -> Steps] /\ local' \in [Procs -> Locals]
      /\ \A q \in i : step'[q] = "idle" /\ local'[q] = Blank
      /\ \A q \in Procs \ i : step'[q] = step[q] /\ local'[q] = local[q]
  BY <1>1, Blanks DEF TypeOK, Crash, Steps
<1>3. /\ lost \subseteq lost' /\ lost' \subseteq Nat
      /\ \A q \in i : Carries(q) => local[q].used \in lost'
  <2> DEFINE C == {q \in i : Carries(q)}
  <2>1. lost' = lost \cup {local[q].used : q \in C}
    BY DEF Crash
  <2>2. \A q \in C : local[q].used \in Nat
    BY <1>1 DEF TypeOK, Locals
  <2>3. \A q \in i : Carries(q) => q \in C
    OBVIOUS
  <2> DEFINE D == {local[q].used : q \in C}
  <2>4. \A q \in C : local[q].used \in D
    OBVIOUS
  <2>5. D \subseteq Nat
    BY <2>2
  <2>6. lost' = lost \cup D /\ lost \subseteq Nat
    BY <1>1, <2>1 DEF TypeOK
  <2> HIDE DEF C, D
  <2>7. \A q \in i : Carries(q) => local[q].used \in D
    BY <2>3, <2>4
  <2> QED BY <2>5, <2>6, <2>7
<1>4. /\ \A q \in Procs \ i : (Carries(q)' <=> Carries(q)) /\ (Brings(q)' <=> Brings(q))
      /\ \A q \in i : ~Carries(q)' /\ ~Brings(q)'
  BY <1>1, <1>2 DEF Carries, Brings
<1>5. TypeOK'
  BY <1>1, <1>2, <1>3 DEF TypeOK, Fault
<1>6. Roles'
  BY <1>1, <1>2, Blanks DEF IInv, Roles
<1>7. Protection'
  <2>1. \A q \in held' : step'[q] \in InCall /\ (q \notin unprotected' => lock' = q)
    BY <1>1, <1>2 DEF IInv, TypeOK, Protection
  <2>2. \A q \in Procs : step'[q] \in InCall => q \in held' \cup unprotected'
    BY <1>1, <1>2 DEF IInv, Protection
  <2>3. \A q, t \in Procs : q # t /\ Colocated(q, t) => ~({step'[q], step'[t]} \subseteq Calling)
    BY <1>1, <1>2 DEF IInv, Protection
  <2> QED BY <2>1, <2>2, <2>3 DEF Protection, Colocated
<1>8. Tokens'
  <2>1. /\ token' \in 1 .. issued'
        /\ \A q \in Procs :
             /\ local'[q].acct <= issued' /\ local'[q].used <= issued'
             /\ step'[q] = "save" /\ local'[q].op = "edit" => local'[q].used # 0
             /\ step'[q] = "recover" => local'[q].used \notin usable'
             /\ step'[q] \in {"invalid", "seterror"} =>
                  suspect' \/ (local'[q].used \notin usable' /\ local'[q].new = local'[q].used)
    BY <1>1, <1>2, Blanks DEF IInv, TypeOK, Tokens
  <2>2. ASSUME NEW q \in Procs, Brings(q)'
        PROVE  /\ local'[q].new \in usable' \ {token'}
               /\ \A t \in Procs :
                    /\ local'[q].new \notin {local'[t].acct, local'[t].used}
                    /\ t # q /\ Brings(t)' => local'[q].new # local'[t].new
    <3>1. q \notin i /\ Brings(q) /\ local'[q] = local[q] /\ local[q].new # 0
      BY <1>1, <1>2, <1>4, <2>2 DEF IInv, TypeOK, Tokens
    <3> QED BY <1>1, <1>2, <1>4, <3>1, Blanks DEF IInv, Tokens
  <2> QED BY <2>1, <2>2 DEF Tokens
<1>9. RowUsableOrOverwritten'
  <2>1. CASE token \in usable \cup lost \/ token \in overwritten
    BY <1>1, <1>3, <2>1 DEF RowUsableOrOverwritten, RowUsable
  <2>2. ASSUME NEW q \in Procs, Carries(q), local[q].used = token
        PROVE  RowUsableOrOverwritten'
    BY <1>1, <1>2, <1>3, <1>4, <2>2 DEF RowUsableOrOverwritten, RowUsable
  <2> QED BY <2>1, <2>2 DEF IInv, RowUsableOrOverwritten, RowUsable
<1>10. ErrorIsReal'
  BY <1>1 DEF IInv, ErrorIsReal
<1>11. Verdicts'
  <2>1. ASSUME NEW q \in Procs, Carries(q)', q \notin unprotected'
        PROVE  /\ status' = "error" /\ local'[q].used = token' => suspect'
               /\ \A t \in Procs \ {q} :
                    step'[t] \in {"invalid", "seterror"} /\ local'[t].used = local'[q].used
                      => suspect'
    <3>1. q \notin i /\ Carries(q) /\ q \notin unprotected /\ local'[q] = local[q]
      BY <1>1, <1>2, <1>4, <2>1
    <3> QED BY <1>1, <1>2, <3>1 DEF IInv, Verdicts
  <2> QED BY <2>1 DEF Verdicts, Carries
<1> QED BY <1>5, <1>6, <1>7, <1>8, <1>9, <1>10, <1>11 DEF IInv

-----------------------------------------------------------------------------
(* The theorems.                                                           *)

\* The initial row and processes.
LEMMA InitIInv == Init => IInv
<1> SUFFICES ASSUME Init PROVE IInv
  OBVIOUS
<1>1. TypeOK
  <2>1. step \in [Procs -> Steps] /\ local \in [Procs -> Locals]
    BY Blanks DEF Init, Steps
  <2>2. /\ token \in Nat /\ issued \in Nat /\ usable \subseteq 1 .. issued
        /\ faults \in 0 .. MaxFaults
    BY DEF Init
  <2> QED BY <2>1, <2>2 DEF Init, TypeOK
<1>2. \A p \in Procs : ~Carries(p) /\ ~Brings(p) /\ local[p] = Blank /\ step[p] = "idle"
  BY DEF Init, Carries, Brings
<1>3. Roles /\ Protection
  BY <1>2, Blanks DEF Init, Roles, Protection
<1>4. Tokens
  BY <1>2, Blanks DEF Init, Tokens
<1>5. RowUsableOrOverwritten /\ Verdicts /\ ErrorIsReal
  BY <1>2 DEF Init, RowUsableOrOverwritten, RowUsable, Verdicts, ErrorIsReal
<1> QED BY <1>1, <1>3, <1>4, <1>5 DEF IInv

\* A step that changes nothing.
LEMMA StutterIInv ==
  ASSUME IInv, UNCHANGED vars
  PROVE  IInv'
<1>1. UNCHANGED <<rowVars, provVars, lock, procVars, faults, histVars>>
  BY DEF vars
<1>2. \A q \in Procs : (Carries(q)' <=> Carries(q)) /\ (Brings(q)' <=> Brings(q))
  BY <1>1 DEF Carries, Brings
<1>3. TypeOK' /\ Roles' /\ Protection'
  BY <1>1 DEF IInv, TypeOK, Roles, Protection, Colocated
<1>4. Tokens'
  BY <1>1, <1>2 DEF IInv, Tokens
<1>5. RowUsableOrOverwritten' /\ Verdicts' /\ ErrorIsReal'
  BY <1>1, <1>2 DEF IInv, RowUsableOrOverwritten, RowUsable, Verdicts, ErrorIsReal
<1> QED BY <1>3, <1>4, <1>5 DEF IInv

\* Every step of every process, of the provider, the clock and Redis keeps it.
LEMMA NextIInv == IInv /\ [Next]_vars => IInv'
<1> SUFFICES ASSUME IInv, [Next]_vars PROVE IInv'
  OBVIOUS
<1>1. ASSUME NEW p \in Procs, RefreshStep(p) PROVE IInv'
  BY <1>1, BeginKeepsIInv, LocalLockKeepsIInv, AcquireKeepsIInv, RereadKeepsIInv,
     RefreshKeepsIInv, RecoverKeepsIInv, PersistKeepsIInv, LeaveKeepsIInv, SetErrorKeepsIInv
     DEF RefreshStep
<1>2. ASSUME NEW p \in Procs, AdminStep(p) PROVE IInv'
  BY <1>2, ManualReadKeepsIInv, ManualRefreshKeepsIInv, AuthoriseKeepsIInv, EditKeepsIInv,
     UpdateReadKeepsIInv, UpdateSaveKeepsIInv, ClearErrorKeepsIInv
     DEF AdminStep
<1>3. CASE Ages \/ Revoke \/ LockExpires
  BY <1>3, AgesKeepsIInv, RevokeKeepsIInv, LockExpiresKeepsIInv
<1>4. ASSUME NEW i \in Instances, Crash(i) PROVE IInv'
  BY <1>4, CrashKeepsIInv
<1>5. CASE UNCHANGED vars
  BY <1>5, StutterIInv
<1> QED BY <1>1, <1>2, <1>3, <1>4, <1>5 DEF Next

\* The invariant of the row, the lock and the verdicts, for any number of instances.
THEOREM Invariance == Spec => []IInv
  BY InitIInv, NextIInv, PTL DEF Spec

\* The row, the provider's tokens and the locals keep their types.
THEOREM TypeCorrect == Spec => []TypeOK
<1>1. IInv => TypeOK
  BY DEF IInv
<1> QED BY <1>1, Invariance, PTL

\* Two calls that refresh the account at once are on different instances, and one of
\* them has lost the lock or never had it.
THEOREM Exclusion == Spec => []RefreshersExclude
<1>1. IInv => RefreshersExclude
  <2> SUFFICES ASSUME IInv, NEW p \in Procs, NEW q \in Procs, p # q,
                      {step[p], step[q]} \subseteq Using
               PROVE  ~Colocated(p, q) /\ unprotected \cap {p, q} # {}
    BY DEF RefreshersExclude
  <2>1. ~Colocated(p, q)
    BY DEF IInv, Protection
  <2>2. CASE p \notin unprotected /\ q \notin unprotected
    <3>1. p \in held /\ q \in held
      BY <2>2 DEF IInv, Protection
    <3>2. lock = p /\ lock = q
      BY <2>2, <3>1 DEF IInv, Protection
    <3> QED BY <3>2
  <2> QED BY <2>1, <2>2
<1> QED BY <1>1, Invariance, PTL

\* The row's token is accepted, is being replaced, is on record as lost, or was written
\* back by an edit.
THEOREM NeverForgotten == Spec => []RowUsableOrOverwritten
<1>1. IInv => RowUsableOrOverwritten
  BY DEF IInv
<1> QED BY <1>1, Invariance, PTL

\* An account whose token is accepted is given up only by a marked verdict.
THEOREM VerdictsAreReal == Spec => []ErrorIsReal
<1>1. IInv => ErrorIsReal
  BY DEF IInv
<1> QED BY <1>1, Invariance, PTL

-----------------------------------------------------------------------------
(* What the exceptions need: a fault, a manual refresh or an edit.         *)

\* No fault, and nobody writes the row around the lock but with a new grant.
Undisturbed == MaxFaults = 0 /\ {"manual", "edit"} \cap Ops = {}

\* No verdict is in the making, and whoever asks the provider has a token it takes.
Calm ==
  /\ faults = 0 /\ status = "active"
  /\ unprotected = {} /\ lost = {} /\ overwritten = {} /\ ~suspect
  /\ \A p \in Procs :
       /\ local[p].op \notin {"manual", "edit"} /\ local[p].saw = "active"
       /\ step[p] \notin {"recover", "invalid", "seterror"}
       /\ step[p] = "refresh" => local[p].used \in usable

\* What holds then, with no exception: one call at a time uses the token, the row's
\* token works or its successor is on its way, and the account is never given up.
RefreshIsSafe ==
  /\ \A p, q \in Procs : {step[p], step[q]} \subseteq Using => p = q
  /\ token \in usable \/ \E p \in Procs : Carries(p) /\ local[p].used = token
  /\ status = "active"

\* Without marks the invariant says so.
LEMMA CalmIsSafe == IInv /\ Calm => RefreshIsSafe
<1> SUFFICES ASSUME IInv, Calm PROVE RefreshIsSafe
  OBVIOUS
<1>1. ASSUME NEW p \in Procs, NEW q \in Procs, {step[p], step[q]} \subseteq Using PROVE p = q
  <2>1. p \in held /\ q \in held /\ unprotected = {}
    BY <1>1 DEF IInv, Protection, Calm
  <2>2. lock = p /\ lock = q
    BY <2>1 DEF IInv, Protection
  <2> QED BY <2>2
<1>2. token \in usable \/ \E p \in Procs : Carries(p) /\ local[p].used = token
  BY DEF IInv, RowUsableOrOverwritten, RowUsable, Calm
<1> QED BY <1>1, <1>2 DEF RefreshIsSafe, Calm

\* No step breaks the calm.
LEMMA CalmStep == Undisturbed /\ IInv /\ Calm /\ [Next]_vars => Calm'
<1> SUFFICES ASSUME Undisturbed, IInv, Calm, [Next]_vars PROVE Calm'
  OBVIOUS
<1> DEFINE Good(s, r) ==
             /\ r.op \notin {"manual", "edit"} /\ r.saw = "active"
             /\ s \notin {"recover", "invalid", "seterror"}
           Quiet ==
             UNCHANGED <<faults, status, unprotected, lost, overwritten>> /\ ~suspect'
<1>0. TypeOK /\ ~(faults > 0) /\ ~suspect /\ "manual" \notin Ops /\ "edit" \notin Ops
  BY DEF IInv, Undisturbed, Calm
\* A step of one process: it stays calm itself, and takes no token from another.
<1>1. ASSUME NEW p \in Procs, NEW s \in Steps, NEW r \in Locals,
             Goto(p, s), Keep(p, r) \/ (UNCHANGED local /\ r = local[p]),
             Good(s, r), s = "refresh" => r.used \in usable', Quiet,
             \A q \in Procs \ {p} : step[q] = "refresh" => local[q].used \in usable'
      PROVE  Calm'
  <2>1. /\ step'[p] = s /\ local'[p] = r
        /\ \A q \in Procs \ {p} : step'[q] = step[q] /\ local'[q] = local[q]
    BY <1>0, <1>1 DEF TypeOK, Goto, Keep
  <2> QED BY <1>1, <2>1 DEF Calm
<1>2. ASSUME NEW p \in Procs, NEW s \in Steps, Continue(p, s), Quiet, UNCHANGED usable,
             s \notin {"recover", "invalid", "seterror", "refresh"}
      PROVE  Calm'
  <2>1. local[p] \in Locals /\ Good(s, local[p])
    BY <1>0, <1>2 DEF TypeOK, Calm
  <2> QED BY <1>1, <1>2, <2>1 DEF Continue, Calm
<1>3. ASSUME NEW p \in Procs, Return(p), Quiet, UNCHANGED usable PROVE Calm'
  <2>1. Blank \in Locals /\ Good("idle", Blank) /\ "idle" \in Steps
    BY DEF Blank, Locals, Steps
  <2> QED BY <1>1, <1>3, <2>1 DEF Return, Calm
<1>4. CASE UNCHANGED vars
  BY <1>4 DEF vars, Calm
<1>5. CASE Ages \/ Revoke \/ LockExpires \/ \E i \in Instances : Crash(i)
  BY <1>0, <1>5 DEF Ages, Revoke, LockExpires, Crash, Fault, NoFault, Calm
<1> USE DEF Fault, NoFault
<1>6. ASSUME NEW p \in Procs, Begin(p) PROVE Calm'
  <2> DEFINE r == [Blank EXCEPT !.op = "refresh", !.acct = token]
  <2>1. r \in Locals /\ Good("mutex", r) /\ "mutex" \in Steps
    BY <1>0 DEF Blank, Locals, Steps, TypeOK, AllOps
  <2>2. Goto(p, "mutex") /\ Keep(p, r) /\ Quiet /\ UNCHANGED usable
    BY <1>0, <1>6 DEF Begin
  <2> HIDE DEF r
  <2> QED BY <1>1, <2>1, <2>2 DEF Calm
<1>7. ASSUME NEW p \in Procs, LocalLock(p) PROVE Calm'
  BY <1>0, <1>2, <1>7 DEF LocalLock, Steps
<1>8. ASSUME NEW p \in Procs, AcquireRefreshLock(p) PROVE Calm'
  BY <1>0, <1>2, <1>3, <1>8 DEF AcquireRefreshLock, Steps
<1>9. ASSUME NEW p \in Procs, Reread(p) PROVE Calm'
  <2> DEFINE r == [local[p] EXCEPT !.used = token]
  <2>1. /\ Keep(p, r) /\ Goto(p, IF token \in due THEN "refresh" ELSE "current")
        /\ Quiet /\ UNCHANGED usable /\ step[p] = "reread"
    BY <1>0, <1>9 DEF Reread
  <2>2. r \in Locals /\ r.used = token /\ r.op = local[p].op /\ r.saw = local[p].saw
    BY <1>0 DEF TypeOK, Locals
  \* Who holds the lock finds a token that nobody is replacing.
  <2>3. token \in usable
    <3>1. \A q \in Procs : step[q] # "persist"
      <4>1. ASSUME NEW q \in Procs, step[q] = "persist" PROVE q = p
        BY <2>1, <4>1, CalmIsSafe DEF RefreshIsSafe
      <4> QED BY <2>1, <4>1
    <3>2. \A q \in Procs : ~Carries(q)
      <4>1. \A q \in Procs : step[q] \in {"update", "save"} => local[q].op \notin {"refresh", "manual"}
        BY DEF IInv, Roles, Calm
      <4> QED BY <3>1, <4>1 DEF Carries
    <3> QED BY <3>2, CalmIsSafe DEF RefreshIsSafe
  <2> HIDE DEF r
  <2> QED BY <1>1, <2>1, <2>2, <2>3 DEF Calm, Steps
<1>10. ASSUME NEW p \in Procs, Refresh(p) PROVE Calm'
  <2> DEFINE r == [local[p] EXCEPT !.new = issued + 1]
  <2>1. /\ Keep(p, r) /\ Goto(p, "persist") /\ Quiet /\ step[p] = "refresh"
    BY <1>0, <1>10 DEF Refresh, Condemn, RotateLost, Rotate, Calm
  <2>2. r \in Locals /\ r.op = local[p].op /\ r.saw = local[p].saw
    BY <1>0 DEF TypeOK, Locals
  <2>3. \A q \in Procs \ {p} : step[q] # "refresh"
    BY <2>1, CalmIsSafe DEF RefreshIsSafe
  <2> HIDE DEF r
  <2> QED BY <1>1, <2>1, <2>2, <2>3 DEF Calm, Steps
<1>11. ASSUME NEW p \in Procs, Persist(p) PROVE Calm'
  <2>1. suspect' = (suspect \/ Outlived(p)) /\ ~Outlived(p)
    BY <1>0, <1>11 DEF Persist, Outlived, Calm
  <2>2. ~suspect'
    BY <1>0, <2>1
  <2>3. Continue(p, "done") /\ Quiet /\ UNCHANGED usable
    BY <1>0, <1>11, <2>2 DEF Persist, Calm
  <2> QED BY <1>2, <2>3 DEF Steps
<1>12. ASSUME NEW p \in Procs, Leave(p) PROVE Calm'
  <2>1. unprotected' = {}
    <3>1. p \in held => lock = p
      BY DEF IInv, Protection, Calm
    <3> QED BY <1>0, <1>12, <3>1 DEF Leave, ReleaseRefreshLock, Calm
  <2>2. Quiet /\ UNCHANGED usable
    BY <1>0, <1>12, <2>1 DEF Leave, ReleaseRefreshLock, Calm
  <2>3. Continue(p, "mutex") \/ Return(p)
    BY <1>12 DEF Leave, Calm
  <2> QED BY <1>2, <1>3, <2>2, <2>3 DEF Steps
<1>13. ASSUME NEW p \in Procs, Recover(p) \/ SetError(p) \/ ManualRead(p) \/ ManualRefresh(p) \/ Edit(p)
       PROVE  FALSE
  BY <1>0, <1>13 DEF Recover, SetError, ManualRead, ManualRefresh, Edit, Calm, IInv, Roles
<1>14. ASSUME NEW p \in Procs, Authorise(p) PROVE Calm'
  <2> DEFINE r == [Blank EXCEPT !.op = "authorise", !.new = issued + 1]
  <2>0. issued + 1 \in Nat
    BY <1>0 DEF TypeOK
  <2>1. r \in Locals /\ Good("update", r) /\ "update" \in Steps
    BY <2>0 DEF Blank, Locals, Steps, AllOps
  <2>2. Goto(p, "update") /\ Keep(p, r) /\ Quiet /\ usable \subseteq usable'
    BY <1>0, <1>14 DEF Authorise
  <2> HIDE DEF r
  <2> QED BY <1>1, <2>1, <2>2 DEF Calm
<1>15. ASSUME NEW p \in Procs, UpdateRead(p) PROVE Calm'
  <2> DEFINE r == [local[p] EXCEPT !.saw = status,
                                   !.used = IF local[p].op = "manual" THEN @ ELSE token]
  <2>1. Goto(p, "save") /\ Keep(p, r) /\ Quiet /\ UNCHANGED usable
    BY <1>0, <1>15 DEF UpdateRead
  <2>0. local[p] \in Locals /\ token \in Nat /\ status = "active"
    BY <1>0 DEF TypeOK, Calm
  <2>2. r \in Locals /\ r.op = local[p].op /\ r.saw = "active"
    <3>1. CASE local[p].op = "manual"
      BY <2>0, <3>1 DEF Locals
    <3>2. CASE local[p].op # "manual"
      BY <2>0, <3>2 DEF Locals
    <3> QED BY <3>1, <3>2
  <2> HIDE DEF r
  <2> QED BY <1>1, <2>1, <2>2 DEF Calm, Steps
<1>16. ASSUME NEW p \in Procs, UpdateSave(p) PROVE Calm'
  <2>1. /\ local[p].op # "edit" /\ local[p].saw = "active"
        /\ status = "active" /\ unprotected = {}
    BY DEF Calm
  <2>3. suspect' = (suspect \/ local[p].saw = "error")
    BY <1>0, <1>16 DEF UpdateSave
  <2>4. ~suspect'
    BY <1>0, <2>1, <2>3
  <2>5. Quiet /\ UNCHANGED usable
    BY <1>0, <1>16, <2>1, <2>4 DEF UpdateSave
  <2>2. Continue(p, "clear") \/ Return(p)
    BY <1>0, <1>16 DEF UpdateSave
  <2> QED BY <1>2, <1>3, <2>5, <2>2 DEF Steps
<1>17. ASSUME NEW p \in Procs, ClearError(p) PROVE Calm'
  <2>1. Quiet /\ UNCHANGED usable /\ Return(p)
    BY <1>0, <1>17 DEF ClearError, Calm
  <2> QED BY <1>3, <2>1
<1> QED
  BY <1>4, <1>5, <1>6, <1>7, <1>8, <1>9, <1>10, <1>11, <1>12, <1>13, <1>14, <1>15, <1>16, <1>17
     DEF Next, RefreshStep, AdminStep

\* Without faults, edits and manual refreshes no interleaving of loops, requests and
\* re-authorisations uses a token twice, forgets one, or gives the account up.
THEOREM SafeWhenUndisturbed ==
  ASSUME Undisturbed
  PROVE  Spec => []RefreshIsSafe
<1>1. Init => Calm
  BY DEF Init, Blank, Calm, Undisturbed
<1> QED BY <1>1, CalmStep, CalmIsSafe, Invariance, PTL DEF Spec
===============================================================================

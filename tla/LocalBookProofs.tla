-------------------------- MODULE LocalBookProofs --------------------------
(***************************************************************************)
(* Theorems about module LocalBook, for every set of traders and every     *)
(* number of changes and failures.                                         *)
(***************************************************************************)
EXTENDS LocalBook, TLAPS

USE DEF redis

----------------------------------------------------------------------------
(* The inductive invariant.                                                *)

(* Where a change can be, given what it is.                                *)
OpInv ==
    \A p \in Process :
        /\ pc[p] # "idle" =>
            /\ op[p].kind \in Kinds
            /\ op[p].kind = "cancel" => pc[p] \in {"get", "set"}
        /\ pc[p] = "idle" => side[p] = "taker"
        /\ pc[p] \in {"lock", "expire"} /\ side[p] = "maker" => TwoTraders(p)

(* What a process is about to write back is the present value, changed.    *)
CopyCurrent ==
    ~ overdue => \A p \in Process : pc[p] = "set" => copy[p] = book[At(p)]

BookInv == TypeOK /\ OpInv /\ OneHolder /\ CopyCurrent

----------------------------------------------------------------------------
(* Type correctness.                                                       *)

LEMMA ChangedType ==
    ASSUME NEW b \in Book, NEW kind
    PROVE  Changed(b, kind) \in Book
  BY DEF Changed, Book

LEMMA AtType ==
    ASSUME TypeOK, NEW p \in Process, pc[p] # "idle"
    PROVE  /\ At(p) \in Trader
           /\ op[p].taker \in Trader /\ op[p].maker \in Trader
           /\ op[p].kind \in Kind
           /\ At(p) \in {op[p].taker, op[p].maker}
  BY DEF TypeOK, At, Op

LEMMA InitType == Init => TypeOK
<1> SUFFICES ASSUME Init PROVE TypeOK
    OBVIOUS
<1>1. NoBook \in Book
    BY DEF NoBook, Book
<1>2. lock \in [Trader -> Process \cup {Free, Dead}] /\ ttl \in [Trader -> BOOLEAN]
    BY DEF Init
<1>3. book \in [Trader -> Book] /\ copy \in [Process -> Book]
    BY <1>1 DEF Init
<1>4. pc \in [Process -> Step] /\ side \in [Process -> {"taker", "maker"}]
    BY DEF Init, Step
<1>5. op \in [Process -> Op \cup {NoOp}] /\ \A p \in Process : pc[p] = "idle"
    BY DEF Init
<1> QED
    BY <1>2, <1>3, <1>4, <1>5 DEF Init, TypeOK

LEMMA NextType == TypeOK /\ [Next]_vars => TypeOK'
<1> SUFFICES ASSUME TypeOK, [Next]_vars PROVE TypeOK'
    OBVIOUS
<1> USE DEF TypeOK
<1>g. ASSUME NEW p \in Process, NEW step \in Step, NEW who \in {"taker", "maker"},
             pc[p] # "idle", Goto(p, step, who)
      PROVE  /\ pc' \in [Process -> Step]
             /\ side' \in [Process -> {"taker", "maker"}]
             /\ op' \in [Process -> Op \cup {NoOp}]
             /\ \A q \in Process : pc'[q] # "idle" => op'[q] \in Op
    BY <1>g DEF Goto
<1>n. NoBook \in Book
    BY DEF NoBook, Book
<1>1. ASSUME NEW p \in Process, NEW o \in Op, Start(p, o) PROVE TypeOK'
    BY <1>1 DEF Start, Step
<1>2. ASSUME NEW p \in Process, Acquire(p) PROVE TypeOK'
    BY <1>2, <1>g, AtType DEF Acquire, Step
<1>3. ASSUME NEW p \in Process, SetExpiry(p) PROVE TypeOK'
    BY <1>3, <1>g, AtType DEF SetExpiry, Step
<1>4. ASSUME NEW p \in Process, Get(p) PROVE TypeOK'
    BY <1>4, <1>g, AtType DEF Get, Step
<1>5. ASSUME NEW p \in Process, Set(p) PROVE TypeOK'
    BY <1>5, <1>g, <1>n, AtType, ChangedType DEF Set, Step
<1>6. ASSUME NEW p \in Process, Unlock(p) PROVE TypeOK'
    BY <1>6, <1>g, AtType DEF Unlock, Step
<1>7. ASSUME NEW t \in Trader, Expire(t) PROVE TypeOK'
    BY <1>7 DEF Expire
<1>8. ASSUME NEW p \in Process, Dies(p) PROVE TypeOK'
    BY <1>8, <1>g, <1>n DEF Dies, Step
<1>9. CASE UNCHANGED vars
    BY <1>9 DEF vars
<1> QED
    BY <1>1, <1>2, <1>3, <1>4, <1>5, <1>6, <1>7, <1>8, <1>9 DEF Next, Work

(* Every reachable state has its type.                                     *)
THEOREM TypeCorrect == Spec => []TypeOK
  BY InitType, NextType, PTL DEF Spec

----------------------------------------------------------------------------
(* The invariant, when every change takes the lock.                        *)

LEMMA OwnerIsProcess ==
    ASSUME NEW p \in Process
    PROVE  p # Free /\ p # Dead
  BY DEF Process, Free, Dead

(* What a process holds at each command, without cancellations.            *)
LEMMA HoldsWhere ==
    ASSUME TypeOK, OpInv, "cancel" \notin Kinds, NEW p \in Process
    PROVE  /\ pc[p] = "idle" => Holds(p) = {}
           /\ pc[p] = "lock" /\ side[p] = "taker" => Holds(p) = {}
           /\ pc[p] = "lock" /\ side[p] = "maker" => Holds(p) = {op[p].taker}
           /\ pc[p] = "expire" => Holds(p) = {op[p].taker, At(p)}
           /\ pc[p] \in {"get", "set"} => Holds(p) = {op[p].taker, op[p].maker}
           /\ pc[p] = "unlock" => Holds(p) = {At(p), op[p].maker}
  BY DEF TypeOK, OpInv, Holds, Step

LEMMA InvInit == Init => BookInv
<1> SUFFICES ASSUME Init PROVE BookInv
    OBVIOUS
<1>1. OpInv /\ OneHolder /\ CopyCurrent
    BY DEF Init, OpInv, OneHolder, CopyCurrent, Holds
<1> QED
    BY <1>1, InitType DEF BookInv

LEMMA OpStep == TypeOK /\ OpInv /\ [Next]_vars => OpInv'
<1> SUFFICES ASSUME TypeOK, OpInv, [Next]_vars PROVE OpInv'
    OBVIOUS
<1> USE DEF TypeOK, OpInv, TwoTraders
<1>1. ASSUME NEW p \in Process, NEW o \in Op, Start(p, o) PROVE OpInv'
    BY <1>1 DEF Start
<1>2. ASSUME NEW p \in Process, Acquire(p) PROVE OpInv'
    BY <1>2 DEF Acquire, Goto
<1>3. ASSUME NEW p \in Process, SetExpiry(p) PROVE OpInv'
    BY <1>3 DEF SetExpiry, Goto
<1>4. ASSUME NEW p \in Process, Get(p) PROVE OpInv'
    BY <1>4 DEF Get, Goto
<1>5. ASSUME NEW p \in Process, Set(p) PROVE OpInv'
    BY <1>5 DEF Set, Goto
<1>6. ASSUME NEW p \in Process, Unlock(p) PROVE OpInv'
    BY <1>6 DEF Unlock, Goto
<1>7. ASSUME NEW t \in Trader, Expire(t) PROVE OpInv'
    BY <1>7 DEF Expire
<1>8. ASSUME NEW p \in Process, Dies(p) PROVE OpInv'
    BY <1>8 DEF Dies, Goto
<1>9. CASE UNCHANGED vars
    BY <1>9 DEF vars
<1> QED
    BY <1>1, <1>2, <1>3, <1>4, <1>5, <1>6, <1>7, <1>8, <1>9 DEF Next, Work

(* A step keeps the locks of everybody else.                               *)
LEMMA HolderStep ==
    ASSUME TypeOK, OpInv, OneHolder, "cancel" \notin Kinds, [Next]_vars
    PROVE  OneHolder'
<1> SUFFICES ASSUME ~ overdue', NEW q \in Process, NEW t \in Holds(q)'
             PROVE  lock'[t] = q
    BY DEF OneHolder
<1>t. TypeOK' /\ OpInv'
    BY NextType, OpStep
<1>h. /\ pc'[q] = "idle" => FALSE
      /\ pc'[q] = "lock" => side'[q] = "maker" /\ t = op'[q].taker
      /\ pc'[q] = "expire" => t \in {op'[q].taker, At(q)'}
      /\ pc'[q] \in {"get", "set"} => t \in {op'[q].taker, op'[q].maker}
      /\ pc'[q] = "unlock" => t \in {At(q)', op'[q].maker}
    BY <1>t, HoldsWhere DEF Holds, TypeOK, OpInv, Step
<1>r. t \in Trader
    BY <1>h, <1>t DEF TypeOK, Op, At, Step
<1>o. ASSUME NEW p \in Process, p # q, Goto(p, pc'[p], side'[p]), ~ overdue
      PROVE  t \in Holds(q) /\ lock[t] = q
  <2>1. pc'[q] = pc[q] /\ side'[q] = side[q] /\ op'[q] = op[q]
    BY <1>o DEF Goto, TypeOK
  <2>2. Holds(q)' = Holds(q)
    BY <2>1 DEF Holds, At
  <2> QED
    BY <2>2, <1>o DEF OneHolder
<1>1. ASSUME NEW p \in Process, NEW o \in Op, Start(p, o) PROVE lock'[t] = q
  <2>1. CASE p = q
    BY <1>1, <2>1, <1>h DEF Start, TypeOK, OpInv
  <2>2. CASE p # q
    <3>1. Holds(q)' = Holds(q)
      BY <1>1, <2>2 DEF Start, TypeOK, Holds, At
    <3> QED
      BY <1>1, <3>1 DEF Start, OneHolder
  <2> QED
    BY <2>1, <2>2
<1>2. ASSUME NEW p \in Process, Acquire(p) PROVE lock'[t] = q
  <2>0. Goto(p, pc'[p], side'[p]) /\ ~ overdue /\ pc[p] = "lock" /\ lock[At(p)] = Free
    BY <1>2 DEF Acquire, Goto, TypeOK
  <2>1. CASE p = q
    <3>1. pc'[q] = "expire" /\ op'[q] = op[q] /\ At(q)' = At(q)
      BY <1>2, <2>1 DEF Acquire, Goto, TypeOK, At
    <3>2. CASE t = At(q)
      BY <1>2, <2>1, <3>2, <1>r DEF Acquire, TypeOK
    <3>3. CASE t # At(q)
      <4>1. t = op[q].taker /\ side[q] = "maker"
        BY <3>1, <3>3, <1>h DEF At, TypeOK
      <4>2. lock[t] = q
        BY <4>1, <2>0, <2>1, HoldsWhere DEF OneHolder
      <4> QED
        BY <1>2, <2>1, <3>3, <4>2, <1>r DEF Acquire, TypeOK
    <3> QED
      BY <3>2, <3>3
  <2>2. CASE p # q
    BY <1>2, <2>0, <2>2, <1>o, <1>r, OwnerIsProcess DEF Acquire, TypeOK
  <2> QED
    BY <2>1, <2>2
<1>3. ASSUME NEW p \in Process, SetExpiry(p) PROVE lock'[t] = q
  <2>0. Goto(p, pc'[p], side'[p]) /\ ~ overdue /\ pc[p] = "expire" /\ lock' = lock
    BY <1>3 DEF SetExpiry, Goto, TypeOK
  <2>1. CASE p = q
    <3>1. op'[q] = op[q] /\ Holds(q) = {op[q].taker, At(q)}
      <4>1. op'[q] = op[q]
        BY <1>3, <2>1 DEF SetExpiry, Goto, TypeOK
      <4> QED
        BY <2>0, <2>1, <4>1, HoldsWhere
    <3>2. t \in {op[q].taker, At(q)}
      BY <1>3, <2>1, <3>1, <1>h DEF SetExpiry, Goto, TypeOK, OpInv, At, TwoTraders
    <3> QED
      BY <3>1, <3>2, <2>0 DEF OneHolder
  <2>2. CASE p # q
    BY <2>0, <2>2, <1>o
  <2> QED
    BY <2>1, <2>2
<1>4. ASSUME NEW p \in Process, Get(p) \/ Set(p) PROVE lock'[t] = q
  <2>0. /\ Goto(p, pc'[p], side'[p]) /\ ~ overdue
        /\ pc[p] \in {"get", "set"} /\ lock' = lock
    BY <1>4 DEF Get, Set, Goto, TypeOK
  <2>1. CASE p = q
    <3>1. Holds(q) = {op[q].taker, op[q].maker}
      BY <2>0, <2>1, HoldsWhere
    <3>2. op[q].kind # "cancel"
      BY <2>0, <2>1 DEF OpInv
    <3>3. /\ pc'[q] \in {"get", "set"} \/ (pc'[q] = "unlock" /\ side'[q] = "taker")
          /\ op'[q] = op[q]
      BY <1>4, <2>1, <3>2 DEF Get, Set, Goto, TypeOK
    <3>4. t \in {op[q].taker, op[q].maker}
      BY <3>3, <1>h DEF At
    <3> QED
      BY <3>1, <3>4, <2>0 DEF OneHolder
  <2>2. CASE p # q
    BY <2>0, <2>2, <1>o
  <2> QED
    BY <2>1, <2>2
<1>5. ASSUME NEW p \in Process, Unlock(p) PROVE lock'[t] = q
  <2>0. /\ Goto(p, pc'[p], side'[p]) /\ ~ overdue /\ pc[p] = "unlock"
        /\ Holds(p) = {At(p), op[p].maker} /\ lock[At(p)] = p
    <3>1. Goto(p, pc'[p], side'[p]) /\ ~ overdue /\ pc[p] = "unlock"
      BY <1>5 DEF Unlock, Goto, TypeOK
    <3> QED
      BY <3>1, HoldsWhere DEF OneHolder
  <2>1. CASE p = q
    <3>1. /\ pc'[q] = "unlock" /\ side'[q] = "maker" /\ op'[q] = op[q]
          /\ side[q] = "taker" /\ TwoTraders(q)
      BY <1>5, <2>1, <1>h DEF Unlock, Goto, TypeOK
    <3>2. t = op[q].maker /\ t # At(q)
      BY <3>1, <1>h DEF At, TwoTraders
    <3>3. lock[t] = q
      BY <2>0, <2>1, <3>2 DEF OneHolder
    <3> QED
      BY <1>5, <2>1, <3>2, <3>3, <1>r DEF Unlock, TypeOK
  <2>2. CASE p # q
    BY <1>5, <2>0, <2>2, <1>o, <1>r DEF Unlock, TypeOK
  <2> QED
    BY <2>1, <2>2
<1>6. ASSUME NEW u \in Trader, Expire(u) PROVE lock'[t] = q
  <2>1. lock[u] \notin Process /\ ~ overdue
    BY <1>6 DEF Expire
  <2>2. lock[t] = q
    <3>1. Holds(q)' = Holds(q)
      BY <1>6 DEF Expire, Holds, At
    <3> QED
      BY <2>1, <3>1 DEF OneHolder
  <2> QED
    BY <1>6, <2>1, <2>2, <1>r DEF Expire, TypeOK
<1>7. ASSUME NEW p \in Process, Dies(p) PROVE lock'[t] = q
  <2>0. Goto(p, pc'[p], side'[p]) /\ ~ overdue /\ pc'[p] = "idle"
    BY <1>7 DEF Dies, Goto, TypeOK
  <2>1. p # q
    BY <2>0, <1>h
  <2> QED
    BY <1>7, <2>0, <2>1, <1>o, <1>r DEF Dies, TypeOK
<1>8. CASE UNCHANGED vars
  <2>1. Holds(q)' = Holds(q)
    BY <1>8 DEF vars, Holds, At
  <2> QED
    BY <1>8, <2>1 DEF vars, OneHolder
<1> QED
    BY <1>1, <1>2, <1>3, <1>4, <1>5, <1>6, <1>7, <1>8 DEF Next, Work

(* Nobody else changes a value between a process's get and its set.        *)
LEMMA CopyStep ==
    ASSUME BookInv, "cancel" \notin Kinds, [Next]_vars
    PROVE  CopyCurrent'
<1> USE DEF BookInv
<1> SUFFICES ASSUME ~ overdue', NEW q \in Process, pc'[q] = "set"
             PROVE  copy'[q] = book'[At(q)']
    BY DEF CopyCurrent
<1>t. TypeOK'
    BY NextType
<1>v. ~ overdue
    BY DEF Next, Work, Start, Acquire, SetExpiry, Get, Set, Unlock, Expire, Dies, vars, TypeOK
<1>1. ASSUME NEW p \in Process, Get(p) PROVE copy'[q] = book'[At(q)']
  <2>1. CASE p = q
    BY <1>1, <2>1 DEF Get, Goto, TypeOK, At
  <2>2. CASE p # q
    BY <1>1, <2>2, <1>v DEF Get, Goto, TypeOK, At, CopyCurrent
  <2> QED
    BY <2>1, <2>2
<1>2. ASSUME NEW p \in Process, Set(p) PROVE copy'[q] = book'[At(q)']
  <2>1. p # q
    BY <1>2 DEF Set, Goto, TypeOK
  <2>2. /\ pc[q] = "set" /\ copy'[q] = copy[q] /\ At(q)' = At(q)
    BY <1>2, <2>1 DEF Set, Goto, TypeOK, At
  <2>3. lock[At(p)] = p /\ lock[At(q)] = q
    BY <1>2, <2>2, <1>v, HoldsWhere, AtType DEF Set, OneHolder
  <2>4. At(p) # At(q)
    BY <2>1, <2>3
  <2> QED
    BY <1>2, <1>v, <2>2, <2>4, AtType DEF Set, TypeOK, CopyCurrent
<1>3. ASSUME NEW p \in Process, NEW o \in Op, Start(p, o) PROVE copy'[q] = book'[At(q)']
  <2>1. p # q
    <3>1. o.kind # "cancel"
      BY <1>3 DEF Start
    <3> QED
      BY <1>3, <3>1 DEF Start, TypeOK
  <2> QED
    BY <1>3, <2>1, <1>v DEF Start, TypeOK, At, CopyCurrent
<1>4. ASSUME NEW p \in Process, Acquire(p) \/ SetExpiry(p) \/ Unlock(p)
      PROVE  copy'[q] = book'[At(q)']
  <2>1. p # q
    BY <1>4 DEF Acquire, SetExpiry, Unlock, Goto, TypeOK
  <2>2. /\ pc[q] = "set" /\ At(q)' = At(q) /\ copy' = copy /\ book' = book
    BY <1>4, <2>1 DEF Acquire, SetExpiry, Unlock, Goto, TypeOK, At
  <2> QED
    BY <2>2, <1>v DEF CopyCurrent
<1>5. ASSUME NEW p \in Process, Dies(p) PROVE copy'[q] = book'[At(q)']
  <2>1. p # q
    BY <1>5 DEF Dies, Goto, TypeOK
  <2> QED
    BY <1>5, <2>1, <1>v DEF Dies, Goto, TypeOK, At, CopyCurrent
<1>6. ASSUME NEW t \in Trader, Expire(t) PROVE copy'[q] = book'[At(q)']
    BY <1>6, <1>v DEF Expire, At, CopyCurrent
<1>7. CASE UNCHANGED vars
    BY <1>7, <1>v DEF vars, At, CopyCurrent
<1> QED
    BY <1>1, <1>2, <1>3, <1>4, <1>5, <1>6, <1>7 DEF Next, Work

LEMMA BookInvariant == "cancel" \notin Kinds => (Spec => []BookInv)
<1> SUFFICES ASSUME "cancel" \notin Kinds PROVE Spec => []BookInv
    OBVIOUS
<1>1. BookInv /\ [Next]_vars => BookInv'
    BY NextType, OpStep, HolderStep, CopyStep DEF BookInv
<1> QED
    BY <1>1, InvInit, PTL DEF Spec

----------------------------------------------------------------------------
(* The theorems.                                                           *)

(* Without cancellations a lock has one holder until a lock is overdue.    *)
THEOREM LocksHaveOneHolder == "cancel" \notin Kinds => (Spec => []OneHolder)
<1> SUFFICES ASSUME "cancel" \notin Kinds PROVE Spec => []OneHolder
    OBVIOUS
<1>1. BookInv => OneHolder
    BY DEF BookInv
<1> QED
    BY <1>1, BookInvariant, PTL

(* Without cancellations every value written is the present one with the   *)
(* writer's own change, until a lock is overdue.                           *)
THEOREM LockedUpdatesKept == "cancel" \notin Kinds => (Spec => NoUpdateLost)
<1> SUFFICES ASSUME "cancel" \notin Kinds PROVE Spec => NoUpdateLost
    OBVIOUS
<1> DEFINE Kept ==
      \A t \in Trader :
          book'[t] # book[t] =>
              \/ overdue
              \/ \E p \in Process :
                    /\ pc[p] = "set" /\ At(p) = t
                    /\ book'[t] = Changed(book[t], op[p].kind)
<1>1. BookInv /\ [Next]_vars => [Kept]_vars
  <2> SUFFICES ASSUME BookInv, Next, NEW t \in Trader, book'[t] # book[t], ~ overdue
               PROVE  \E p \in Process :
                        /\ pc[p] = "set" /\ At(p) = t
                        /\ book'[t] = Changed(book[t], op[p].kind)
    OBVIOUS
  <2>1. PICK p \in Process : Set(p)
    BY DEF Next, Work, Start, Acquire, SetExpiry, Get, Unlock, Expire, Dies
  <2>2. pc[p] = "set" /\ At(p) = t /\ book'[t] = Changed(copy[p], op[p].kind)
    BY <2>1 DEF Set, BookInv, TypeOK
  <2>3. copy[p] = book[t]
    BY <2>2 DEF BookInv, CopyCurrent
  <2> QED
    BY <2>2, <2>3
<1> QED
    BY <1>1, BookInvariant, PTL DEF Spec, NoUpdateLost

=============================================================================

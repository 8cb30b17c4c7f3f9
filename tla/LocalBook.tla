----------------------------- MODULE LocalBook -----------------------------
(***************************************************************************)
(* The local books: for each trader a JSON value in redis with, among      *)
(* others, a balance and a freezeAmount, changed by three processes.  A    *)
(* change is a get of the whole value and a set of the whole value         *)
(* (src/src/wallet/contract/Token.ts).  Most callers put a lock around it: *)
(* setnx, tried again and again, then expire, and del at the end.          *)
(*                                                                         *)
(*   engine    freezes an order's cost, with the lock; unfreezes what a    *)
(*             cancelled order had left, without it                        *)
(*   launcher  moves balances, with the lock                               *)
(*   watcher   unfreezes both sides of a trade, with the locks of both     *)
(*                                                                         *)
(* Each redis command is a step.  A process that dies, or whose update     *)
(* throws, leaves its locks behind until they expire.  The value of one    *)
(* token is enough: a lock is for all tokens of its trader, and the values *)
(* of different tokens do not touch each other.                            *)
(***************************************************************************)
EXTENDS Integers

CONSTANTS
    Trader,         \* addresses
    Kinds,          \* the changes to consider
    MaxOps,         \* bound: changes started
    MaxFailures     \* bound: deaths and thrown errors

Process == {"engine", "launcher", "watcher"}

Kind == {"freeze", "cancel", "move", "unfreeze"}

ASSUME KindsAssumption == Kinds \subseteq Kind
ASSUME BoundAssumption == MaxOps \in Nat /\ MaxFailures \in Nat

VARIABLES
    book,           \* the value of each trader
    lock,           \* who set the lock of each trader
    ttl,            \* whether it has an expiry time
    pc,             \* the next command of each process
    op,             \* what it is doing, and for whom
    side,           \* the trader it is at
    copy,           \* the value it has read
    started,        \* changes started so far
    failures,       \* deaths and errors so far
    overdue,        \* a lock expired before its holder was done
    leaked          \* a process died between setnx and expire

redis == <<book, lock, ttl>>
vars == <<book, lock, ttl, pc, op, side, copy, started, failures, overdue, leaked>>

----------------------------------------------------------------------------

Book == [balance : Int, freeze : Int]

NoBook == [balance |-> 0, freeze |-> 0]

(* A change; taker and maker are the same in a change for one trader.      *)
Op == [kind : Kind, taker : Trader, maker : Trader]

NoOp == [kind |-> "none", taker |-> "none", maker |-> "none"]

Free == "free"

Dead == "dead"

Step == {"idle", "lock", "expire", "get", "set", "unlock"}

TypeOK ==
    /\ book \in [Trader -> Book]
    /\ lock \in [Trader -> Process \cup {Free, Dead}]
    /\ ttl \in [Trader -> BOOLEAN]
    /\ pc \in [Process -> Step]
    /\ op \in [Process -> Op \cup {NoOp}]
    /\ \A p \in Process : pc[p] # "idle" => op[p] \in Op
    /\ side \in [Process -> {"taker", "maker"}]
    /\ copy \in [Process -> Book]
    /\ started \in Nat /\ failures \in Nat
    /\ overdue \in BOOLEAN /\ leaked \in BOOLEAN

Init ==
    /\ book = [t \in Trader |-> NoBook]
    /\ lock = [t \in Trader |-> Free] /\ ttl = [t \in Trader |-> FALSE]
    /\ pc = [p \in Process |-> "idle"]
    /\ op = [p \in Process |-> NoOp]
    /\ side = [p \in Process |-> "taker"]
    /\ copy = [p \in Process |-> NoBook]
    /\ started = 0 /\ failures = 0 /\ overdue = FALSE /\ leaked = FALSE

(* The trader process p is at, and whether it has another one to go to.    *)
At(p) == IF side[p] = "taker" THEN op[p].taker ELSE op[p].maker

TwoTraders(p) == op[p].taker # op[p].maker

Mut_Changed(b, kind) ==
    CASE kind = "freeze" -> [b EXCEPT !.freeze = @ + 1]
      [] kind = "move"   -> [balance |-> b.balance - 1]
      [] OTHER           -> [b EXCEPT !.freeze = @ - 1]

Changed(b, kind) ==
    CASE kind = "freeze" -> [b EXCEPT !.freeze = @ + 1]
      [] kind = "move"   -> [b EXCEPT !.balance = @ - 1]
      [] OTHER           -> [b EXCEPT !.freeze = @ - 1]

----------------------------------------------------------------------------
(* The commands.                                                           *)

Goto(p, step, who) ==
    /\ pc' = [pc EXCEPT ![p] = step]
    /\ side' = [side EXCEPT ![p] = who]
    /\ op' = [op EXCEPT ![p] = IF step = "idle" THEN NoOp ELSE @]

Does(p) ==
    CASE p = "engine"   -> {"freeze", "cancel"}
      [] p = "launcher" -> {"move"}
      [] p = "watcher"  -> {"unfreeze"}

Start(p, o) ==
    /\ pc[p] = "idle"
    /\ started < MaxOps
    /\ o.kind \in Does(p) \cap Kinds
    /\ o.kind # "unfreeze" => o.taker = o.maker
    /\ op' = [op EXCEPT ![p] = o]
    /\ pc' = [pc EXCEPT ![p] = IF o.kind = "cancel" THEN "get" ELSE "lock"]
    /\ started' = started + 1
    /\ UNCHANGED <<redis, side, copy, failures, overdue, leaked>>

(* setnx; while the key is there it is tried again.                        *)
Mut_Acquire(p) ==
    /\ pc[p] = "lock"
    /\ lock' = [lock EXCEPT ![At(p)] = p]
    /\ ttl' = [ttl EXCEPT ![At(p)] = FALSE]
    /\ Goto(p, "expire", side[p])
    /\ UNCHANGED <<book, copy, started, failures, overdue, leaked>>

Acquire(p) ==
    /\ pc[p] = "lock"
    /\ lock[At(p)] = Free
    /\ lock' = [lock EXCEPT ![At(p)] = p]
    /\ ttl' = [ttl EXCEPT ![At(p)] = FALSE]
    /\ Goto(p, "expire", side[p])
    /\ UNCHANGED <<book, copy, started, failures, overdue, leaked>>

(* Then the watcher locks the other trader, when there is another one.     *)
Mut_SetNoExpiry(p) ==
    /\ pc[p] = "expire"
    /\ IF side[p] = "taker" /\ TwoTraders(p)
       THEN Goto(p, "lock", "maker")
       ELSE Goto(p, "get", "taker")
    /\ UNCHANGED <<redis, copy, started, failures, overdue, leaked>>

Mut_SetExpiry(p) ==
    /\ pc[p] = "expire"
    /\ ttl' = [ttl EXCEPT ![At(p)] = lock[At(p)] # Free]
    /\ Goto(p, "get", "taker")
    /\ UNCHANGED <<book, lock, copy, started, failures, overdue, leaked>>

SetExpiry(p) ==
    /\ pc[p] = "expire"
    /\ ttl' = [ttl EXCEPT ![At(p)] = lock[At(p)] # Free]
    /\ IF side[p] = "taker" /\ TwoTraders(p)
       THEN Goto(p, "lock", "maker")
       ELSE Goto(p, "get", "taker")
    /\ UNCHANGED <<book, lock, copy, started, failures, overdue, leaked>>

Get(p) ==
    /\ pc[p] = "get"
    /\ copy' = [copy EXCEPT ![p] = book[At(p)]]
    /\ Goto(p, "set", side[p])
    /\ UNCHANGED <<redis, started, failures, overdue, leaked>>

Set(p) ==
    /\ pc[p] = "set"
    /\ book' = [book EXCEPT ![At(p)] = Changed(copy[p], op[p].kind)]
    /\ IF op[p].kind = "unfreeze" /\ side[p] = "taker" THEN Goto(p, "get", "maker")
       ELSE IF op[p].kind = "cancel" THEN Goto(p, "idle", "taker")
       ELSE Goto(p, "unlock", "taker")
    /\ copy' = [copy EXCEPT ![p] = NoBook]
    /\ UNCHANGED <<lock, ttl, started, failures, overdue, leaked>>

(* del, whoever has set the key.                                           *)
Unlock(p) ==
    /\ pc[p] = "unlock"
    /\ lock' = [lock EXCEPT ![At(p)] = Free]
    /\ ttl' = [ttl EXCEPT ![At(p)] = FALSE]
    /\ IF side[p] = "taker" /\ TwoTraders(p)
       THEN Goto(p, "unlock", "maker")
       ELSE Goto(p, "idle", "taker")
    /\ UNCHANGED <<book, copy, started, failures, overdue, leaked>>

(* Ten seconds after expire the key is gone, whatever its holder is doing. *)
Expire(t) ==
    /\ ttl[t]
    /\ overdue' = (overdue \/ lock[t] \in Process)
    /\ lock' = [lock EXCEPT ![t] = Free]
    /\ ttl' = [ttl EXCEPT ![t] = FALSE]
    /\ UNCHANGED <<book, pc, op, side, copy, started, failures, leaked>>

(* The process dies, or its update throws, and nobody unlocks.             *)
Dies(p) ==
    /\ pc[p] # "idle"
    /\ failures < MaxFailures
    /\ failures' = failures + 1
    /\ leaked' = (leaked \/ pc[p] = "expire")
    /\ lock' = [t \in Trader |-> IF lock[t] = p THEN Dead ELSE lock[t]]
    /\ Goto(p, "idle", "taker")
    /\ copy' = [copy EXCEPT ![p] = NoBook]
    /\ UNCHANGED <<book, ttl, started, overdue>>

Work(p) ==
    Acquire(p) \/ SetExpiry(p) \/ Get(p) \/ Set(p) \/ Unlock(p)

Next ==
    \/ \E p \in Process : (\E o \in Op : Start(p, o)) \/ Work(p) \/ Dies(p)
    \/ \E t \in Trader : Expire(t)

Spec == Init /\ [][Next]_vars

(* Each process goes on with a change it has started, and redis drops an   *)
(* expired key.  The number of changes is bounded, so that nobody can be   *)
(* overtaken at a lock for ever.                                           *)
FairSpec ==
    /\ Spec
    /\ \A p \in Process : WF_vars(Work(p))
    /\ \A t \in Trader : WF_vars(Expire(t))

----------------------------------------------------------------------------
(* Properties.                                                             *)

(* The traders p has locked and not yet unlocked.                          *)
Holds(p) ==
    CASE pc[p] = "idle" \/ op[p].kind = "cancel" -> {}
      [] pc[p] = "lock"   -> IF side[p] = "maker" THEN {op[p].taker} ELSE {}
      [] pc[p] = "expire" -> {op[p].taker, At(p)}
      [] pc[p] = "unlock" -> {At(p), op[p].maker}
      [] OTHER            -> {op[p].taker, op[p].maker}

(* The lock of a trader has one holder, also when the watcher waits for a  *)
(* second lock, when a dead process has left its lock behind and when taker *)
(* and maker are the same; until a lock expires before its holder is done. *)
OneHolder ==
    ~ overdue => \A p \in Process : \A t \in Holds(p) : lock[t] = p

(* Among changes made with the lock none is lost: whatever a process       *)
(* writes back is the present value with its own change, although it has   *)
(* read the value some commands before.                                    *)
NoUpdateLost ==
    [][\A t \in Trader :
          book'[t] # book[t] =>
              \/ overdue
              \/ \E p \in Process :
                    /\ pc[p] = "set" /\ At(p) = t
                    /\ book'[t] = Changed(book[t], op[p].kind)]_vars

(* A change that was started ends, also when it must wait for the lock of  *)
(* a process that has died, unless that one died between setnx and expire. *)
ChangesEnd ==
    \A p \in Process : pc[p] # "idle" ~> pc[p] = "idle" \/ leaked

(* The note on freezes in data_process/README.md: an order freezes, the    *)
(* watcher and a cancellation unfreeze.  So a freeze grows only by an      *)
(* order, and what a cancellation has unfrozen stays unfrozen.             *)
OnlyOrdersFreeze ==
    [][\A t \in Trader :
          book'[t].freeze > book[t].freeze =>
              \/ overdue
              \/ pc["engine"] = "set" /\ op["engine"].kind = "freeze" /\ At("engine") = t]_vars

=============================================================================

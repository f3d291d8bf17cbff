------------------------- MODULE DirectoryProperties -------------------------
(***************************************************************************)
(* What the blocks of a directory system agent promise its users.          *)
(***************************************************************************)
EXTENDS Directory

ConnState == { NULL, "WAITING", "CONNECTING", "OPEN", "CLOSING" }

(* The type invariant: every block has its type, and the lists agree with  *)
(* the pointers.  A block is in connlist or in connwaitlist as its state   *)
(* says, an operation is in cn_operlist of the connection it points to and *)
(* of no other, and only of a task still at work does an operation point   *)
(* to the task (conn.c, oper_act.c, task_act.c).                           *)
DirTypeOK ==
    /\ pc \in {"idle"} \cup { t \in Tasks : Live(d, t) }
    /\ d.used \in Int /\ d.missed \in Nat
    /\ IsInjective(d.list) /\ IsInjective(d.wait)
    /\ \A c \in Dsas :
         /\ d.conn[c].state \in ConnState /\ d.conn[c].rejected \in BOOLEAN
         /\ Listed(d, c) <=> d.conn[c].state \in {"CONNECTING", "OPEN", "CLOSING"}
         /\ c \in ToSet(d.wait) <=> d.conn[c].state = "WAITING"
         /\ IsInjective(d.conn[c].ops)
         /\ ToSet(d.conn[c].ops) = { o \in Opers : d.oper[o].conn = c }
    /\ \A o \in Opers :
         /\ d.oper[o].state \in {NULL, "freed", "CHAINED", "ABANDONED"}
         /\ d.oper[o].task # NULL => Live(d, d.oper[o].task) /\ d.oper[o].task = o[1]

(* Whoever invoked something is told its outcome once: no answer comes     *)
(* while the task is at work, exactly one has been given when it is over,  *)
(* whether an answer from another DSA, a time limit, an abandon or a       *)
(* failing connection came first (task_result and task_error).             *)
AnsweredOnce ==
    \A t \in Tasks :
        /\ d.answers[t] <= 1
        /\ Live(d, t) => d.answers[t] = 0
        /\ d.task[t] = "gone" /\ Listed(d, Owner[t]) => d.answers[t] = 1

(* A task that has left dsa_work with nothing more to do itself has an     *)
(* operation that will wake it: on a connection still to be opened or      *)
(* about to be lost, or sent and owed an answer.  The exception is an      *)
(* operation whose connection failed as soon as it got its slot, which     *)
(* task_select forgets ("Do something with the operations").               *)
NothingForgotten ==
    \A t \in Tasks :
        /\ d.task[t] = "PASSIVE" => OpersOf(d, t) # {}
        /\ \A o \in OpersOf(d, t) :
             \/ d.oper[o].conn = "leaked"
             \/ d.oper[o].conn \in Dsas /\ d.conn[d.oper[o].conn].state # "OPEN"
             \/ \E c \in Dsas : d.oper[o].conn = c /\ o \in d.owed[c]

(* conns_used is never below the number of associations there are, but by  *)
(* those whose release was over at once while task_select was counting     *)
(* (task_select.c:201): MAX_CONNS is exceeded by no more than that.        *)
CountKept == Len(d.list) <= d.used + d.missed

(* The failure of one connection, or of one task, takes no operation from  *)
(* a connection that stays: an operation leaves it only with its answer,   *)
(* or for another DSA, or when nobody wants it.  The exception is a        *)
(* connection that could not be opened while several operations waited for *)
(* it: conn_retry may then fail all of those on another.                   *)
Crossing == \E x \in Dsas : d.conn[x].state = "CONNECTING" /\ Len(d.conn[x].ops) > 1
                            /\ d'.conn[x].state = NULL
KeepsItsOwn ==
    [][\A c \in Dsas :
         d.conn[c].state = "OPEN" /\ d'.conn[c].state = "OPEN" /\ ~Crossing =>
           \A o \in ToSet(d.conn[c].ops) \ ToSet(d'.conn[c].ops) :
             \* answered in this step, and no other operation is
             /\ o \in d.owed[c] \ d'.owed[c]
             /\ \A x \in Dsas : d.owed[x] \ d'.owed[x] \subseteq {o}]_dirvars

(* Every invocation is answered: within its time limit, or, when it has    *)
(* none, once the other DSAs have answered or failed and provided that     *)
(* none of its operations was forgotten as above.                          *)
Forgotten(t) == t \notin Timed /\ \E o \in OpersOf(d, t) : d.oper[o].conn = "leaked"
TaskEnds == \A t \in Tasks : Live(d, t) ~> (~Live(d, t) \/ Forgotten(t))

(* Operations that wait for a slot get it: idle associations make room, be *)
(* their release accepted, rejected or not answered (task_select.c).       *)
Waits(c) == d.conn[c].state = "WAITING" /\ d.conn[c].ops # <<>>
WaitEnds == \A c \in Dsas : Waits(c) ~> ~Waits(c)
=============================================================================

------------------------------ MODULE Directory ------------------------------
(***************************************************************************)
(* The directory system agent (quipu): how one DSA carries out what its    *)
(* users invoke, itself or by chaining operations to other DSAs.           *)
(*                                                                         *)
(* The process is one loop (dsa.c): task_select runs the timers and picks  *)
(* a task, dsa_work performs it, dsa_wait handles what the network brings. *)
(* A task is what a user invoked; an operation is what this DSA invokes    *)
(* on another on behalf of a task; a connection block is an association,   *)
(* a user's or one this DSA opened.  The blocks point at each other and    *)
(* outlive each other, which is what the properties are about.             *)
(*                                                                         *)
(* The state of the process is one record, and each function of the code   *)
(* an operator from states to states, as one call runs many others.        *)
(***************************************************************************)
EXTENDS Integers, FiniteSets, SequencesExt

CONSTANTS
    Users,      \* associations of users (DAP), open from the start
    Tasks,      \* what users invoke, each once
    Owner,      \* the user that invokes a task
    Searches,   \* tasks that are searches: they may spread over subtasks
    Timed,      \* tasks with a time limit (tk_timed)
    Dsas,       \* the DSAs this one may open an association to
    OffNet,     \* DSAs whose address is on no network of this one
    Refs,       \* lists of DSAs that may hold what a task wants, best first
    Referrals,  \* lists of DSAs another DSA may refer this one to
    Relays,     \* the relayDSA attribute of this DSA's own entry
    MaxConns,   \* MAX_CONNS - CONNS_RESERVED_DI
    Reserved,   \* CONNS_RESERVED_X500
    MaxSubs     \* operations of one task

ASSUME UsersAssumption == Users \cap (Dsas \cup OffNet) = {} /\ Dsas \cap OffNet = {}
ASSUME TasksAssumption == Owner \in [Tasks -> Users] /\ Searches \subseteq Tasks /\ Timed \subseteq Tasks
ASSUME RefsAssumption  == Refs \cup Referrals \cup {Relays} \subseteq Seq(Dsas \cup OffNet)
ASSUME BoundsAssumption == MaxConns \in Nat /\ Reserved \in Nat /\ MaxSubs \in Nat \ {0}

VARIABLES
    d,  \* the process, and what other DSAs owe it
    pc, \* "idle" in task_select or dsa_wait, or the task dsa_work is called with
    by  \* who took the last step: this DSA and those it waits for ("dsas"), or not

dirvars == <<d, pc>>

NULL == "null"
Opers == Tasks \X (1 .. MaxSubs)

(* A connection block this DSA made: an address it may have at most one    *)
(* of in connlist and connwaitlist.  ops is cn_operlist, newest first;     *)
(* rejected is cn_last_release == cn_last_used.                            *)
NoConn  == [state |-> NULL, ops |-> <<>>, rejected |-> FALSE]

(* conn is NULL, a DSA, or "leaked": a block that is in neither list any   *)
(* more and that nobody will look at again.                                *)
NoOper  == [state |-> NULL, task |-> NULL, conn |-> NULL, sub |-> FALSE,
            dsas |-> <<>>, relay |-> "may", trace |-> {}]
Freed   == [NoOper EXCEPT !.state = "freed"]

DirInit ==
    /\ d = [ list |-> SetToSeq(Users), wait |-> <<>>,
             used |-> Cardinality(Users), missed |-> 0,
             task |-> [t \in Tasks |-> NULL], answers |-> [t \in Tasks |-> 0],
             oper |-> [o \in Opers |-> NoOper],
             conn |-> [c \in Dsas |-> NoConn], owed |-> [c \in Dsas |-> {}] ]
    /\ pc = "idle" /\ by = "others"

OpersOf(s, t) == { o \in Opers : s.oper[o].task = t }
Listed(s, c)  == c \in ToSet(s.list)

(***************************************************************************)
(* Operations, tasks and connections taken apart                           *)
(***************************************************************************)
oper_conn_extract(s, o) ==
    IF s.oper[o].conn \in Dsas
    THEN [s EXCEPT !.conn[s.oper[o].conn].ops = Remove(@, o), !.oper[o].conn = NULL]
    ELSE [s EXCEPT !.oper[o].conn = NULL]

oper_extract_left(s, o) ==  \* without oper_conn_extract
    [s EXCEPT !.oper[o] = Freed, !.owed = [c \in Dsas |-> @[c] \ {o}]]

(* An answer that comes for it later finds no operation and changes        *)
(* nothing: it is no longer owed.                                          *)
oper_extract(s, o) ==
    [oper_conn_extract(s, o) EXCEPT !.oper[o] = Freed,
                                    !.owed = [c \in Dsas |-> @[c] \ {o}]]

task_extract_alone(s, t) ==  \* its operations keep pointing to the task
    [s EXCEPT !.task[t] = "gone"]

task_extract_all(s, t) ==  \* frees its operations, without waiting for the answers
    FoldLeft(oper_extract, [s EXCEPT !.task[t] = "gone"], SetToSeq(OpersOf(s, t)))

task_extract(s, t) ==
    [s EXCEPT !.task[t] = "gone",
              !.oper = [o \in Opers |->
                  IF o \notin OpersOf(s, t) THEN @[o]
                  ELSE IF @[o].conn = NULL THEN Freed
                  ELSE [@[o] EXCEPT !.task = NULL, !.dsas = <<>>]]]

(* task_result or task_error, and task_extract, which follow each other.   *)
Answered(s, t) == task_extract([s EXCEPT !.answers[t] = @ + 1], t)

(* The collated answer of a search whose last subtask has returned.        *)
Collated(s, t) ==
    IF s.task[t] = "PASSIVE" /\ OpersOf(s, t) = {} THEN Answered(s, t) ELSE s

(* An operation is over: with it an X.500 task, and the search it was the  *)
(* last subtask of.  task_xxx_wakeup and subtask_xxx_wakeup differ in what *)
(* they put into the answer.                                               *)
Woken(s, t, sub) ==
    IF t = NULL THEN s ELSE IF sub THEN Collated(s, t) ELSE Answered(s, t)

Over(s, o) == Woken(oper_extract(s, o), s.oper[o].task, s.oper[o].sub)

oper_fail_wakeup(s, o) == Over(s, o)

(* conn_extract of a block of connlist this DSA made.                      *)
conn_extract(s, c) ==
    LET cut == [s EXCEPT !.list = Remove(@, c), !.used = @ - 1]
    IN  [FoldLeft(oper_fail_wakeup, cut, s.conn[c].ops)
            EXCEPT !.conn[c] = NoConn, !.owed[c] = {}]

(* conn_extract of a user's block: task_error writes to an association     *)
(* that is gone.                                                           *)
user_extract(s, u) ==
    FoldLeft(task_extract,
             [s EXCEPT !.list = Remove(@, u), !.used = @ - 1],
             SetToSeq({ t \in Tasks : Owner[t] = u /\ s.task[t] \notin {NULL, "gone"} }))

(* The operations of a task that timed out or was abandoned stay on their  *)
(* connections until the answers come.                                     *)
task_abandon(s, t) ==
    Answered([s EXCEPT !.oper = [o \in Opers |->
                  IF o \in OpersOf(s, t) THEN [@[o] EXCEPT !.state = "ABANDONED"] ELSE @[o]]], t)

(***************************************************************************)
(* Chaining (dsa_chain.c, oper_invoke.c).  up is the set of DSAs that take *)
(* a new association in this step; it is opened asynchronously.            *)
(***************************************************************************)
oper_send_invoke(s, o) ==
    [s EXCEPT !.owed[s.oper[o].conn] = @ \cup {o}, !.oper[o].state = "CHAINED"]

Linked(s, o, c, dsas) ==
    [s EXCEPT !.conn[c].ops = <<o>> \o @,
              !.oper[o].conn = c, !.oper[o].dsas = dsas,
              !.oper[o].relay = IF @ = "done" THEN @ ELSE "no"]

(* conn_request: every operation that waits for it abandoned, or the       *)
(* address refuses, or the association is on its way.                      *)
conn_request(s, c, up) ==
    /\ c \in up
    /\ \/ s.conn[c].ops = <<>>
       \/ \E o \in ToSet(s.conn[c].ops) : s.oper[o].state # "ABANDONED"

(* An association there is, of whatever state; one that waits for a slot;  *)
(* or a new block for the first DSA that has an address here and, when     *)
(* there is a slot, takes the call.  The operation is not linked when it   *)
(* has run out of DSAs.                                                    *)
link_op_to_conn(s, o, up) ==
    LET want    == s.oper[o].dsas
        open    == SelectInSeq(want, LAMBDA c : Listed(s, c))
        waiting == SelectInSeq(want, LAMBDA c : c \in ToSet(s.wait))
        room    == s.used < MaxConns
        new     == SelectInSeq(want, LAMBDA c : c \in Dsas /\ (room => conn_request(s, c, up)))
    IN  IF open # 0 THEN Linked(s, o, want[open], RemoveAt(want, open))
        ELSE IF waiting # 0 THEN Linked(s, o, want[waiting], RemoveAt(want, waiting))
        ELSE IF new # 0
        THEN LET c == want[new]
                 l == Linked(s, o, c, SubSeq(want, new + 1, Len(want)))
             IN  IF room
                 THEN [l EXCEPT !.conn[c].state = "CONNECTING", !.list = <<c>> \o @, !.used = @ + 1]
                 ELSE [l EXCEPT !.conn[c].state = "WAITING", !.wait = <<c>> \o @]
        \* a block was made, and failed: no relay either
        ELSE [s EXCEPT !.oper[o].dsas = <<>>,
                       !.oper[o].relay = IF @ = "may" /\ ToSet(want) \cap Dsas # {} THEN "no" ELSE @]

IsLinked(s, o) == s.oper[o].conn # NULL

(* Linked: sent if the association is open, and later if it opens.  Not    *)
(* linked: once more with the relays.                                      *)
oper_chain(s, o, up) ==
    LET Relayed(l) ==
            IF IsLinked(l, o) \/ l.oper[o].relay # "may" THEN l
            ELSE link_op_to_conn([l EXCEPT !.oper[o].relay = "done", !.oper[o].dsas = Relays], o, up)
        Sent(l) ==
            IF ~IsLinked(l, o) THEN l
            ELSE IF l.conn[l.oper[o].conn].state = "OPEN" THEN oper_send_invoke(l, o)
            ELSE [l EXCEPT !.oper[o].state = "CHAINED"]
    IN  Sent(Relayed(link_op_to_conn(s, o, up)))

oper_rechain_blind(s, o, dsas, up) ==  \* without the look at the trace information
    LET u    == [oper_conn_extract(s, o) EXCEPT
                    !.oper[o].dsas = dsas,
                    !.oper[o].relay = IF @ = "no" THEN "may" ELSE @]
        OrOver(n) == IF IsLinked(n, o) THEN n ELSE Over(n, o)
    IN  OrOver(oper_chain(u, o, up))

(* A referral to dsas is followed unless the same DSA gave it before.      *)
oper_rechain(s, o, dsas, up) ==
    LET step == <<s.oper[o].conn, dsas>>
        u    == [oper_conn_extract(s, o) EXCEPT
                    !.oper[o].trace = @ \cup {step}, !.oper[o].dsas = dsas,
                    !.oper[o].relay = IF @ = "no" THEN "may" ELSE @]
        OrOver(n) == IF IsLinked(n, o) THEN n ELSE Over(n, o)
    IN  IF step \in s.oper[o].trace THEN Over(s, o) ELSE OrOver(oper_chain(u, o, up))

(* task2oper or subtask_chain: a new operation of task t.                  *)
NewOper(s, t, o, sub, dsas, up) ==
    LET new == [NoOper EXCEPT !.task = t, !.sub = sub, !.dsas = dsas]
        OrFreed(n) == IF IsLinked(n, o) THEN n ELSE [n EXCEPT !.oper[o] = Freed]
    IN  OrFreed(oper_chain([s EXCEPT !.oper[o] = new], o, up))

(***************************************************************************)
(* dsa_wait: what the network brings                                       *)
(***************************************************************************)
Live(s, t) == s.task[t] \in {"ACTIVE", "PASSIVE", "SUSPEND"}

task_invoke(t) ==
    /\ pc = "idle" /\ Listed(d, Owner[t]) /\ d.task[t] = NULL
    /\ d' = [d EXCEPT !.task[t] = "ACTIVE"]
    /\ UNCHANGED pc

perform_abandon(t) ==
    /\ pc = "idle" /\ Live(d, t)
    /\ d' = task_abandon(d, t)
    /\ UNCHANGED pc

UserGone(u) ==
    /\ pc = "idle" /\ Listed(d, u)
    /\ d' = user_extract(d, u)
    /\ UNCHANGED pc

(* The answer of DSA c to an operation it was sent.                        *)
Received(c, o) == [d EXCEPT !.owed[c] = @ \ {o}, !.conn[c].rejected = FALSE]

oper_result(c, o) ==
    /\ pc = "idle" /\ d.conn[c].state = "OPEN" /\ o \in d.owed[c]
    /\ d' = IF d.oper[o].state = "ABANDONED" THEN oper_extract(d, o)
            ELSE Over(Received(c, o), o)
    /\ UNCHANGED pc

oper_error(c, o, dsas, up) ==
    /\ pc = "idle" /\ d.conn[c].state = "OPEN" /\ o \in d.owed[c]
    /\ d' = IF d.oper[o].state = "ABANDONED" THEN oper_extract(d, o)
            ELSE IF d.oper[o].task # NULL THEN oper_rechain(Received(c, o), o, dsas, up)
            ELSE Over(Received(c, o), o)
    /\ UNCHANGED pc

(* A rejection does not count as a use of the association.                 *)
oper_ureject(c, o) ==
    /\ pc = "idle" /\ d.conn[c].state = "OPEN" /\ o \in d.owed[c]
    /\ d' = Over(d, o)
    /\ UNCHANGED pc

(* The association with c cannot be opened.  Newest first, an operation    *)
(* with DSAs left moves to another connection, any other fails.  Moving it *)
(* relinks the list only while none has failed before it: after that, the  *)
(* list of c still starts at the first one that moved (stray), and goes on *)
(* along the list it moved to, and conn_extract fails all of those.        *)
conn_retry_failed(s, c, up) ==
    LET Moved(a, o, n) ==
            IF a.s.oper[o].state = "ABANDONED" \/ a.s.oper[o].dsas = <<>>
            THEN [a EXCEPT !.s = oper_fail_wakeup(@, o), !.lost = TRUE]
            ELSE IF ~IsLinked(n, o) THEN [a EXCEPT !.s = oper_fail_wakeup(n, o), !.lost = TRUE]
            ELSE [a EXCEPT !.s = n, !.stray = IF a.lost /\ @ = NULL THEN o ELSE @]
        Move(a, o) == Moved(a, o, oper_chain(oper_conn_extract(a.s, o), o, up))
        Swept(a) ==
            LET ops  == a.s.conn[a.s.oper[a.stray].conn].ops
                tail == SubSeq(ops, SelectInSeq(ops, LAMBDA o : o = a.stray), Len(ops))
            IN  FoldLeft(oper_fail_wakeup, conn_extract(a.s, c), IF a.stray = NULL THEN <<>> ELSE tail)
    IN  Swept(FoldLeft(Move, [s |-> [s EXCEPT !.conn[c].state = "FAILED"], lost |-> FALSE, stray |-> NULL],
                       s.conn[c].ops))

conn_retry_done_one(s, c) ==  \* sends only the newest
    LET t == [s EXCEPT !.conn[c].state = "OPEN"]
    IN  IF t.conn[c].ops = <<>> THEN t ELSE oper_send_invoke(t, Head(t.conn[c].ops))

(* The association is open: what waited for it is sent.                    *)
conn_retry_done(s, c) ==
    FoldLeft(LAMBDA t, o : IF t.oper[o].state = "ABANDONED" THEN oper_fail_wakeup(t, o)
                           ELSE oper_send_invoke(t, o),
             [s EXCEPT !.conn[c].state = "OPEN"], s.conn[c].ops)

conn_retry(c, up) ==
    /\ pc = "idle" /\ d.conn[c].state = "CONNECTING"
    /\ \/ d' = conn_retry_done(d, c)
       \/ d' = conn_retry_failed(d, c, up)
    /\ UNCHANGED pc

(* DI_ABORT on an open association, or any answer to the release of one:   *)
(* one that is rejected has not been used since it was asked for, and is   *)
(* aborted.                                                                *)
ConnGone(c) ==
    /\ pc = "idle" /\ d.conn[c].state \in {"OPEN", "CLOSING"}
    /\ d' = conn_extract(d, c)
    /\ UNCHANGED pc

(***************************************************************************)
(* task_select                                                             *)
(***************************************************************************)
conn_release_used(s, c, answer) ==  \* a rejection counts as a use of the association
    IF answer = "later" THEN [s EXCEPT !.conn[c].state = "CLOSING", !.conn[c].rejected = TRUE]
    ELSE IF answer = "no" THEN [s EXCEPT !.conn[c].rejected = ~@]
    ELSE conn_extract(s, c)

(* conn_release: answered at once ("yes", "no"), or not yet, or the        *)
(* association is broken.                                                  *)
conn_release(s, c, answer) ==
    IF answer = "later" THEN [s EXCEPT !.conn[c].state = "CLOSING", !.conn[c].rejected = TRUE]
    ELSE IF answer = "no" /\ ~s.conn[c].rejected THEN [s EXCEPT !.conn[c].rejected = TRUE]
    ELSE conn_extract(s, c)

Counted(s) == [s EXCEPT !.used = @ + 1]
Idle(s, c) == s.conn[c].state = "OPEN" /\ s.conn[c].ops = <<>>

(* One connection of connlist: the tasks in expired are out of time, the   *)
(* timers of the connections in tick have run out, and an association that *)
(* is being opened is given up if stuck.  A release that is over at once   *)
(* is subtracted from a count it was not yet in (missed).                  *)
Served(s, c, expired, tick, answer, up) ==
    IF c \in Users
    THEN Counted(FoldLeft(task_abandon, s,
                          SetToSeq({ t \in expired : Owner[t] = c /\ Live(s, t) })))
    ELSE IF Idle(s, c) /\ c \in tick
    THEN LET Left(r) == IF Listed(r, c) THEN Counted(r) ELSE [r EXCEPT !.missed = @ + 1]
         IN  Left(conn_release(s, c, answer))
    ELSE IF s.conn[c].state = "OPEN" /\ ~Idle(s, c)
    THEN Counted([s EXCEPT !.conn[c].rejected = FALSE])
    ELSE IF s.conn[c].state = "CLOSING" /\ c \in tick THEN Counted(conn_extract(s, c))
    ELSE IF s.conn[c].state = "CONNECTING" /\ c \in tick THEN Counted(conn_retry_failed(s, c, up))
    ELSE Counted(s)

(* What has no operation any more waits until fewer slots are taken.       *)
Slots(s, c) == IF s.conn[c].ops = <<>> THEN MaxConns - Reserved ELSE MaxConns
Queue(s)    == SelectSeq(s.wait, LAMBDA c : s.conn[c].ops # <<>>)
               \o SelectSeq(s.wait, LAMBDA c : s.conn[c].ops = <<>>)

Opened_uncounted(s, c, up) ==  \* without ++conns_used
    LET cut == [s EXCEPT !.wait = Remove(@, c)]
    IN  IF s.used >= Slots(s, c) THEN s
        ELSE IF conn_request(s, c, up)
        THEN [cut EXCEPT !.conn[c].state = "CONNECTING", !.list = <<c>> \o @]
        ELSE [cut EXCEPT !.conn[c] = NoConn,
                         !.oper = [o \in Opers |-> IF @[o].conn = c THEN [@[o] EXCEPT !.conn = "leaked"]
                                                   ELSE @[o]]]

(* One that waits gets its slot.  Of one that fails at once nothing is     *)
(* done with the operations: their block has left both lists.              *)
Opened(s, c, up) ==
    LET cut == [s EXCEPT !.wait = Remove(@, c)]
    IN  IF s.used >= Slots(s, c) THEN s
        ELSE IF conn_request(s, c, up)
        THEN [cut EXCEPT !.conn[c].state = "CONNECTING", !.list = <<c>> \o @, !.used = @ + 1]
        ELSE [cut EXCEPT !.conn[c] = NoConn,
                         !.oper = [o \in Opers |-> IF @[o].conn = c THEN [@[o] EXCEPT !.conn = "leaked"]
                                                   ELSE @[o]]]

(* While something waits for a slot, idle associations are released.       *)
Spared(s, answer) ==
    LET Released(a, c, r) == IF Listed(r, c) THEN [a EXCEPT !.s = Counted(r)]
                             ELSE [s |-> r, waiting |-> a.waiting - 1]
        Spare(a, c) == IF a.waiting = 0 \/ c \in Users \/ ~Idle(a.s, c) THEN a
                       ELSE Released(a, c, conn_release(a.s, c, answer))
    IN  FoldLeft(Spare, [s |-> s, waiting |-> Len(s.wait)], s.list).s

task_select(expired, tick, answer, up) ==
    /\ pc = "idle"
    /\ \E served \in { FoldLeft(LAMBDA s, c : Served(s, c, expired, tick, answer, up),
                               [d EXCEPT !.used = 0, !.missed = 0], d.list) } :
         LET opened  == FoldLeft(LAMBDA s, c : Opened(s, c, up), served, Queue(served))
             ready   == { t \in Tasks : served.task[t] = "ACTIVE" }
             resting == { t \in Tasks : served.task[t] = "SUSPEND" }
         IN  /\ d' = [Spared(opened, answer) EXCEPT
                         !.task = [t \in Tasks |-> IF t \in resting THEN "ACTIVE" ELSE @[t]]]
             /\ IF ready = {} \/ resting # {} THEN pc' = "idle" ELSE pc' \in ready

(***************************************************************************)
(* dsa_work: the task is done, or continues at other DSAs                  *)
(***************************************************************************)
(* The references a search finds become subtasks.                          *)
subtask_chain(s, t, found, up) ==
    FoldLeft(LAMBDA n, o : NewOper(n, t, o, TRUE, found[o], up), s, SetToSeq(DOMAIN found))

Unused(t) == { o \in {t} \X (1 .. MaxSubs) : d.oper[o] = NoOper }

(* do_ds_xxx has found the answer, an error or a referral to give.         *)
WorkDone(t) == pc = t /\ d' = Answered(d, t) /\ pc' = "idle"

(* DS_CONTINUE: task_chain.                                                *)
task_chain(t, dsas, up) ==
    /\ pc = t /\ Unused(t) = {t} \X (1 .. MaxSubs)
    /\ LET After(n) == IF IsLinked(n, <<t, 1>>) THEN [n EXCEPT !.task[t] = "PASSIVE"] ELSE Answered(n, t)
       IN  d' = After(NewOper(d, t, <<t, 1>>, FALSE, dsas, up))
    /\ pc' = "idle"

(* do_ds_search: DS_OK, or DS_SUSPEND to let others run.                   *)
do_ds_search(t, found, suspend, up) ==
    /\ pc = t /\ t \in Searches
    /\ LET After(n) == IF suspend THEN [n EXCEPT !.task[t] = "SUSPEND"]
                       ELSE IF OpersOf(n, t) = {} THEN Answered(n, t)
                       ELSE [n EXCEPT !.task[t] = "PASSIVE"]
       IN  d' = After(subtask_chain(d, t, found, up))
    /\ pc' = "idle"

(***************************************************************************)
(* The process and its network                                             *)
(***************************************************************************)
\* The calls that can be made in this step: the rest would only be ignored.
Taking(cs) == SUBSET (cs \cap { c \in Dsas : d.conn[c].state \in {NULL, "WAITING"} })
Timers == SUBSET { c \in Dsas : d.conn[c].state \in {"CONNECTING", "CLOSING"} \/ Idle(d, c) }

Select ==
    \E expired \in SUBSET (Timed \cap { t \in Tasks : Live(d, t) }), tick \in Timers,
       answer \in {"yes", "no", "later"}, up \in Taking(Dsas) :
        task_select(expired, tick, answer, up)

Work ==
    \E t \in Tasks, up \in Taking(Dsas) :
        \/ WorkDone(t)
        \/ \E dsas \in Refs : task_chain(t, dsas, up)
        \/ \E n \in 0 .. MaxSubs, suspend \in BOOLEAN :
              LET more == { o \in Unused(t) : o[2] <= n }
              IN  \E found \in [more -> Refs] :
                    (suspend => more # {}) /\ do_ds_search(t, found, suspend, up)

Replied(o) ==
    \E c \in Dsas :
        \/ oper_result(c, o) \/ oper_ureject(c, o)
        \/ \E dsas \in Referrals, up \in Taking(Dsas) : oper_error(c, o, dsas, up)

Retried(c) == \E up \in Taking(Dsas) : conn_retry(c, up)

UserDoes(t) == task_invoke(t) \/ perform_abandon(t)

Progress ==
    \/ Select \/ Work
    \/ \E o \in Opers : Replied(o)
    \/ \E c \in Dsas : Retried(c)

DirNext ==
    \/ Progress /\ by' = "dsas"
    \/ by' = "others" /\ \/ \E t \in Tasks : UserDoes(t)
                         \/ \E u \in Users : UserGone(u)
                         \/ \E c \in Dsas : ConnGone(c)

(* The loop runs, limits and timers run out, attempts to open an           *)
(* association come to an end, and other DSAs answer: while there is       *)
(* something of this left to do, some of it is done.  That users invoke,   *)
(* abandon or leave, and that associations break, is not assumed.  (This   *)
(* is WF_dirvars(Progress), with what enables a step of it spelled out.)   *)
Busy ==
    \/ pc # "idle"
    \/ \E t \in Tasks : d.task[t] \in {"ACTIVE", "SUSPEND"} \/ (t \in Timed /\ Live(d, t))
    \/ \E c \in Dsas : d.conn[c].state \in {"CONNECTING", "CLOSING"} \/ d.owed[c] # {}
    \/ \E c \in ToSet(d.wait) : Len(d.list) < Slots(d, c)
    \/ d.wait # <<>> /\ \E c \in Dsas : Idle(d, c)

DirSpec ==
    /\ DirInit /\ [][DirNext]_<<d, pc, by>>
    /\ []<>~Busy \/ []<><<by' = "dsas">>_dirvars
=============================================================================

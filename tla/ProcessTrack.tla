---------------------------- MODULE ProcessTrack ----------------------------
(***************************************************************************)
(* Tracked processes (core/track_process.c): which processes run is read   *)
(* once from /proc and then followed by the messages of the kernel about   *)
(* forks, execs, changed names and exits.  A tracked process is up as long *)
(* as the number of its instances is between quorum and quorum_max, after  *)
(* the delays for forks and terminations.                                  *)
(*                                                                         *)
(* A process is a record [comm, cmd] of the names under /proc.  The        *)
(* messages wait in the socket, in a buffer of a limited size, and /proc   *)
(* is read when a message is handled, not when it was sent.                *)
(***************************************************************************)
EXTENDS Integers, FiniteSets, SequencesExt

UINT_MAX == 1000   \* more processes than there are

CONSTANTS
  Pids,        \* processes that come and go; 0 is one that stays and is not tracked
  Names,       \* names of processes
  Setups,      \* configurations: sequences of blocks, each a sequence of keywords
  MaxQueue,    \* messages the buffer of the socket takes
  MaxChanges,  \* bound on the changes of the processes
  ArgCases     \* [match, params, args]: see MatchesAsConfigured

VARIABLE s     \* [tp, run, q, over, reading, tree, retry, lost, mixed, changes, setup] or an ArgCase

-----------------------------------------------------------------------------
(* Parameters of a command: bytes, each parameter ends with 0.             *)

check_params(match, params, args) ==
    LET n == Len(params)
        Prefix(k) == k <= Len(args) /\ \A i \in 1 .. k : args[i] = params[i]
    IN CASE match = "exact" /\ n = 0 /\ args = <<>> -> TRUE
         [] Len(args) < n -> FALSE
         [] match = "exact" -> args = params
         [] n = 0 -> TRUE
         [] match = "partial" -> Prefix(n)
         [] OTHER -> n = 1 \/ Prefix(n - 1)

-----------------------------------------------------------------------------
(* Counting.  q is the state, i a tracked process.                         *)

Up(t, num) == num >= t.quorum /\ num <= t.max

\* process_update_track_process_status(): the instances add or take away a fault or a
\* weight, so what counts is how often they are told.
Tell(q, i, up) == [q EXCEPT !.tp[i].level = @ + (IF up THEN 1 ELSE -1)]
update_process_status(q, i, up) ==
    IF up = q.tp[i].have THEN q ELSE Tell([q EXCEPT !.tp[i].have = up], i, up)

\* The timers of i: whether its pointer is set, and how many threads there are.
Cancel(q, i, kind) ==
    IF q.tp[i][kind].ref THEN [q EXCEPT !.tp[i][kind] = [ref |-> FALSE, n |-> @.n - 1]] ELSE q
Arm(q, i, kind) == [q EXCEPT !.tp[i][kind] = [ref |-> TRUE, n |-> @.n + 1]]

Gains(t, num) == num = t.quorum \/ num = t.max + 1

Loses(t, num) == num + 1 = t.quorum \/ num = t.max

\* The place of a pid in the tree, 0 if it is not there.
Find(q, pid) ==
    LET at == {k \in 1 .. Len(q.tree) : q.tree[k].pid = pid}
    IN IF at = {} THEN 0 ELSE CHOOSE k \in at : \A l \in at : k <= l
Drop(seq, k) == SubSeq(seq, 1, k - 1) \o SubSeq(seq, k + 1, Len(seq))

add_process(q, pid, i) ==
    LET k == Find(q, pid)
        u == [q EXCEPT !.tp[i].num = @ + 1]
    IN IF k = 0 THEN [u EXCEPT !.tree = Append(@, [pid |-> pid, refs |-> <<i>>])]
       ELSE [u EXCEPT !.tree[k].refs = Append(@, i)]

\* A reference to i is dropped; what the loss of one means at once.
Unref(q, k, j) ==
    LET i == q.tree[k].refs[j]
        t == q.tp[i]
        u == [q EXCEPT !.tree[k].refs = Drop(@, j), !.tp[i].num = @ - 1]
    IN IF Loses(t, t.num - 1) THEN update_process_status(Cancel(u, i, "fork"), i, t.num - 1 = t.max) ELSE u
remove_process_from_track(q, k, i) ==
    LET at == {j \in 1 .. Len(q.tree[k].refs) : q.tree[k].refs[j] = i}
    IN IF at = {} THEN q ELSE Unref(q, k, CHOOSE j \in at : \A l \in at : j <= l)

-----------------------------------------------------------------------------
(* The messages.                                                           *)

\* check_process(): how says what is known, "exec" that both names are read from /proc and
\* "comm" that the name came with the message.
Adds(q, pid, i) ==
    LET u == add_process(q, pid, i)
        num == u.tp[i].num
    IN IF ~Gains(u.tp[i], num) THEN u ELSE update_process_status(Cancel(u, i, "term"), i, num = u.tp[i].quorum)
RECURSIVE CheckFrom(_, _, _, _, _, _)
CheckFrom(q, i, pid, name, how, had) ==
    IF i > Len(q.tp) THEN q
    ELSE LET t == q.tp[i]
             skip == t.full /\ how = "comm"
             same == (IF t.full THEN name.cmd ELSE name.comm) = t.path
             k == Find(q, pid)
             u == IF skip THEN q
                  ELSE IF same THEN Adds(q, pid, i)
                  ELSE IF had /\ how = "exec" THEN remove_process_from_track(q, k, i) ELSE q
         IN CheckFrom(u, i + 1, pid, name, how, had)
check_process(q, pid, name, how) ==
    LET u == CheckFrom(q, 1, pid, name, how, Find(q, pid) # 0)
        k == Find(u, pid)
    IN IF k # 0 /\ u.tree[k].refs = <<>> THEN [u EXCEPT !.tree = Drop(@, k)] ELSE u

RECURSIVE ForkFrom(_, _, _)
ForkFrom(q, refs, k) ==
    IF refs = <<>> THEN q
    ELSE LET i == refs[1]
             u == [q EXCEPT !.tree[k].refs = Append(@, i), !.tp[i].num = @ + 1]
             t == u.tp[i]
             v == IF ~Gains(t, t.num) THEN u
                  ELSE IF t.term.ref THEN update_process_status(Cancel(u, i, "term"), i, t.num = t.quorum)
                  ELSE IF t.forkdelay THEN Arm(u, i, "fork")
                  ELSE update_process_status(u, i, t.num = t.quorum)
         IN ForkFrom(v, Tail(refs), k)
check_process_fork(q, parent, child) ==
    LET k == Find(q, parent)
    IN IF k = 0 THEN q
       ELSE ForkFrom([q EXCEPT !.tree = Append(@, [pid |-> child, refs |-> <<>>])], q.tree[k].refs, Len(q.tree) + 1)

RECURSIVE TerminateFrom(_, _)
TerminateFrom(q, refs) ==
    IF refs = <<>> THEN q
    ELSE LET i == refs[1]
             u == [q EXCEPT !.tp[i].num = @ - 1]
             t == u.tp[i]
             v == IF ~Loses(t, t.num) THEN u
                  ELSE IF t.fork.ref THEN update_process_status(Cancel(u, i, "fork"), i, t.num = t.max)
                  ELSE IF t.termdelay THEN Arm(u, i, "term")
                  ELSE update_process_status(u, i, t.num = t.max)
         IN TerminateFrom(v, Tail(refs))
check_process_termination(q, pid) ==
    LET k == Find(q, pid) IN IF k = 0 THEN q ELSE [TerminateFrom(q, q.tree[k].refs) EXCEPT !.tree = Drop(@, k)]

\* The references by name go, unless the name is the old one.
RECURSIVE Renamed(_, _, _, _)
Renamed(q, k, j, comm) ==
    IF j > Len(q.tree[k].refs) THEN [q |-> q, done |-> FALSE]
    ELSE LET t == q.tp[q.tree[k].refs[j]]
         IN IF t.full THEN Renamed(q, k, j + 1, comm)
            ELSE IF t.path = comm THEN [q |-> q, done |-> TRUE]
            ELSE Renamed(Unref(q, k, j), k, j, comm)
check_process_comm_change(q, pid, comm) ==
    LET k == Find(q, pid)
        r == IF k = 0 THEN [q |-> q, done |-> FALSE] ELSE Renamed(q, k, 1, comm)
    IN IF r.done THEN r.q ELSE check_process(r.q, pid, [comm |-> comm, cmd |-> ""], "comm")

\* handle_proc_ev(), one message.
handle_proc_ev(q, m) ==
    CASE m.what = "fork" -> check_process_fork(q, m.pid, m.child)
      [] m.what = "exec" -> IF q.run[m.pid].on THEN check_process(q, m.pid, q.run[m.pid], "exec") ELSE q
      [] m.what = "comm" -> check_process_comm_change(q, m.pid, m.comm)
      [] m.what = "exit" -> check_process_termination(q, m.pid)

-----------------------------------------------------------------------------
(* Reading /proc.                                                          *)

Matches(t, p) == p.on /\ (IF t.full THEN p.cmd ELSE p.comm) = t.path
RECURSIVE ReadFrom(_, _, _)
ReadFrom(q, pids, i) ==
    IF pids = <<>> THEN q
    ELSE IF i > Len(q.tp) THEN ReadFrom(q, Tail(pids), 1)
    ELSE ReadFrom(IF Matches(q.tp[i], q.run[pids[1]]) THEN add_process(q, pids[1], i) ELSE q, pids, i + 1)
Order == CHOOSE o \in [1 .. Cardinality(Pids) -> Pids] : \A i, j \in DOMAIN o : i # j => o[i] # o[j]
read_procs(q) == ReadFrom(q, Order, 1)

None == [ref |-> FALSE, n |-> 0]
\* A tracked process of a new configuration, and its keywords.
alloc_vrrp_process ==
    [path |-> "", full |-> FALSE, quorum |-> 1, max |-> UINT_MAX, forkdelay |-> FALSE, termdelay |-> FALSE,
     num |-> 0, have |-> FALSE, level |-> 0, fork |-> None, term |-> None]
vrrp_tprocess_process_handler(t, path, params) ==
    IF t.path # "" THEN t ELSE [t EXCEPT !.path = path, !.full = @ \/ params]
vrrp_tprocess_quorum_handler(t, n) == IF n > t.max THEN t ELSE [t EXCEPT !.quorum = n]
vrrp_tprocess_quorum_max_handler(t, n) ==
    IF (n > 0 \/ t.quorum > 1) /\ n < t.quorum THEN t
    ELSE [t EXCEPT !.max = n, !.quorum = IF n = 0 THEN 0 ELSE IF @ = 0 THEN 1 ELSE @]
vrrp_tprocess_delay_general(t, kind) ==
    [t EXCEPT !.termdelay = @ \/ kind # "fork_delay", !.forkdelay = @ \/ kind # "terminate_delay"]
Keyword(t, w) ==
    CASE w[1] = "process" -> vrrp_tprocess_process_handler(t, w[2], w[3])
      [] w[1] \in {"full_command", "param_match"} -> [t EXCEPT !.full = TRUE]
      [] w[1] = "quorum" -> vrrp_tprocess_quorum_handler(t, w[2])
      [] w[1] = "quorum_max" -> vrrp_tprocess_quorum_max_handler(t, w[2])
      [] OTHER -> vrrp_tprocess_delay_general(t, w[1])
vrrp_tprocess_handler(text) == FoldLeft(Keyword, alloc_vrrp_process, text)
\* A block without a process is dropped.
vrrp_tprocess_end_handler(text) ==
    SelectSeq([i \in 1 .. Len(text) |-> vrrp_tprocess_handler(text[i])], LAMBDA t : t.path # "")

\* init_track_processes() and reload_track_processes(), and the state the instances start
\* with, initialise_process_tracking_priorities(): the threads of before are gone.
init_track_processes(q, setup) ==
    LET r == read_procs([q EXCEPT !.tree = <<>>, !.tp = vrrp_tprocess_end_handler(setup),
                                  !.retry = FALSE, !.reading = FALSE, !.lost = q.over, !.mixed = q.q # <<>>])
        First(t) == LET up == Up(t, t.num) IN [t EXCEPT !.have = up, !.level = IF up THEN 1 ELSE 0]
    IN [r EXCEPT !.tp = [i \in DOMAIN r.tp |-> First(r.tp[i])]]

\* After messages were lost everything is read again; where the count went over a limit
\* the instances are told, after the delay if there is one.
RECURSIVE Settle(_, _, _)
Settle(q, i, before) ==
    IF i > Len(q.tp) THEN q
    ELSE LET t == q.tp[i]
             u == IF Up(t, before[i]) = Up(t, t.num) /\ (before[i] > t.max) = (t.num > t.max) THEN q
                  ELSE IF Up(t, t.num)
                  THEN IF t.forkdelay THEN Arm(q, i, "fork") ELSE Tell(q, i, TRUE)
                  ELSE IF t.termdelay THEN Arm(q, i, "term") ELSE Tell(q, i, FALSE)
         IN Settle(u, i + 1, before)
RECURSIVE CancelAll(_, _)
CancelAll(q, i) == IF i > Len(q.tp) THEN q ELSE CancelAll(Cancel(Cancel(q, i, "fork"), i, "term"), i + 1)
reinitialise_track_processes(q) ==
    LET c == CancelAll([q EXCEPT !.tree = <<>>, !.retry = FALSE], 1)
        r == read_procs([c EXCEPT !.tp = [i \in DOMAIN c.tp |-> [c.tp[i] EXCEPT !.num = 0]]])
    IN Settle(r, 1, [i \in DOMAIN q.tp |-> q.tp[i].num])

-----------------------------------------------------------------------------
(* The processes of the machine, and the steps of keepalived.              *)

\* Two things the counting cannot tell are noted in mixed until the configuration is read
\* again.  A process that execs a program of the name it has is counted twice, and /proc
\* may already show what messages that wait are about to say.
Distinct(tree) ==
    /\ \A k, l \in 1 .. Len(tree) : k # l => tree[k].pid # tree[l].pid
    /\ \A k \in 1 .. Len(tree) : \A j, l \in 1 .. Len(tree[k].refs) : j # l => tree[k].refs[j] # tree[k].refs[l]

Late(q) == Head(q).what = "exec" /\ \E k \in 2 .. Len(q) : q[k].pid = Head(q).pid

Untracked == [on |-> TRUE, comm |-> "z", cmd |-> "z"]
Gone == [on |-> FALSE, comm |-> "", cmd |-> ""]

\* Two kinds of states: one of the monitor, and one of a command with its parameters.
Init == \/ \E setup \in Setups, n \in Names :
             s = init_track_processes(
                   [tp |-> <<>>, q |-> <<>>, over |-> FALSE, reading |-> FALSE, tree |-> <<>>, retry |-> FALSE,
                    lost |-> FALSE, mixed |-> FALSE, changes |-> 0, setup |-> setup,
                    run |-> [p \in Pids \cup {0} |-> IF p = 0 THEN Untracked
                             ELSE IF p = Order[1] THEN [on |-> TRUE, comm |-> n, cmd |-> n] ELSE Gone]], setup)
        \/ \E c \in ArgCases : s = c
Monitor == "tp" \in DOMAIN s

\* The kernel sends a message, which is dropped when the buffer is full.
Sent(q, m) == LET u == [q EXCEPT !.changes = @ + 1]
              IN IF Len(q.q) = MaxQueue THEN [u EXCEPT !.over = TRUE, !.lost = TRUE] ELSE [u EXCEPT !.q = Append(@, m)]
More == Monitor /\ s.changes < MaxChanges
Fork == More /\ \E p \in Pids \cup {0}, c \in Pids :
            /\ s.run[p].on /\ ~s.run[c].on
            /\ s' = Sent([s EXCEPT !.run[c] = s.run[p]], [what |-> "fork", pid |-> p, child |-> c])
Exec == More /\ \E p \in Pids, n \in Names :
            /\ s.run[p].on
            /\ s' = Sent([s EXCEPT !.run[p] = [@ EXCEPT !.comm = n, !.cmd = n]], [what |-> "exec", pid |-> p])
SetName == More /\ \E p \in Pids, n \in Names :
            /\ s.run[p].on
            /\ s' = Sent([s EXCEPT !.run[p].comm = n], [what |-> "comm", pid |-> p, comm |-> n])
Exit == More /\ \E p \in Pids :
            /\ s.run[p].on
            /\ s' = Sent([s EXCEPT !.run[p] = Gone], [what |-> "exit", pid |-> p])

\* The read thread goes on until there is nothing to read or an error.
ReadMessage == /\ Monitor /\ ~s.over /\ s.q # <<>>
               /\ LET u == handle_proc_ev([s EXCEPT !.q = Tail(@), !.reading = TRUE], Head(s.q))
                  IN s' = [u EXCEPT !.mixed = @ \/ Late(s.q) \/ ~Distinct(u.tree)]
ReadNothing == Monitor /\ ~s.over /\ s.q = <<>> /\ s.reading /\ s' = [s EXCEPT !.reading = FALSE]
ReadOverrun == Monitor /\ s.over /\ s' = [s EXCEPT !.over = FALSE, !.reading = FALSE, !.retry = TRUE]

Between == Monitor /\ ~s.reading
Fires(kind) == Between /\ \E i \in DOMAIN s.tp :
    /\ s.tp[i][kind].n > 0
    /\ s' = update_process_status([s EXCEPT !.tp[i][kind] = [ref |-> FALSE, n |-> @.n - 1]], i, Up(s.tp[i], s.tp[i].num))
process_gained_quorum_timer_thread == Fires("fork")
process_lost_quorum_timer_thread == Fires("term")
process_lost_messages_timer_thread == Between /\ s.retry /\ s' = reinitialise_track_processes(s)
reload_track_processes == Between /\ s' = init_track_processes(s, s.setup)

Next == \/ Fork \/ Exec \/ SetName \/ Exit
        \/ ReadMessage \/ ReadNothing \/ ReadOverrun
        \/ process_gained_quorum_timer_thread \/ process_lost_quorum_timer_thread
        \/ process_lost_messages_timer_thread \/ reload_track_processes
Spec == Init /\ [][Next]_s

-----------------------------------------------------------------------------
Refs(i) == {<<k, j>> \in (1 .. Len(s.tree)) \X (1 .. 8) : j <= Len(s.tree[k].refs) /\ s.tree[k].refs[j] = i}

Read == s.q = <<>> /\ ~s.over
NoTimer(t) == t.fork.n = 0 /\ t.term.n = 0

\* The parameters match as the manual says: all of them, the first ones, or the first ones
\* of which the last may be longer.
MatchesAsConfigured ==
    check_params(s.match, s.params, s.args) <=>
        \/ s.match = "exact" /\ s.args = s.params
        \/ s.match = "partial" /\ \E n \in 0 .. Len(s.args) : SubSeq(s.args, 1, n) = s.params
        \/ s.match = "initial" /\ s.params # <<>>
             /\ \E n \in 1 .. Len(s.args) : SubSeq(s.args, 1, n - 1) = SubSeq(s.params, 1, Len(s.params) - 1)
        \/ s.match = "initial" /\ s.params = <<>>

\* What the instances were told of a tracked process is what runs.  Whatever the order of
\* the keywords the limits can be met, with none for none.  The number of its
\* processes is always the number of references in the tree.  When the messages are read,
\* none was lost and nothing was mixed since the configuration was read, then
\* the references are the processes that run, and without a timer the instances were told
\* exactly once more of up than of down if the number is within the limits.
ProcessesTracked ==
    IF ~Monitor THEN MatchesAsConfigured
    ELSE \A i \in DOMAIN s.tp :
        LET t == s.tp[i]
            runs == Cardinality({p \in Pids : Matches(t, s.run[p])})
        IN /\ t.quorum <= t.max /\ (t.quorum = 0 <=> t.max = 0)
           /\ t.num = Cardinality(Refs(i))
           /\ (Read /\ ~s.mixed /\ ~s.lost => t.num = runs)
           /\ (~s.lost => t.level = (IF t.have THEN 1 ELSE 0))
           /\ (~s.lost /\ ~s.reading /\ NoTimer(t) => t.have = Up(t, t.num))
=============================================================================

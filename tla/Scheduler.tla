----------------------------- MODULE Scheduler -----------------------------
(***************************************************************************)
(* The event loop of every process (lib/scheduler.c): threads that wait    *)
(* for a file descriptor, a time or a child, the events of the descriptors *)
(* and their registration with epoll, the list of ready threads, a reload  *)
(* and the end of the process.                                             *)
(*                                                                         *)
(* A thread is a slot; a queue sorted by time is a sequence.  Times are    *)
(* relative to now.  What the callbacks do is a small client that uses the *)
(* scheduler as the checks, the sockets and the scripts of keepalived do:  *)
(* it connects and listens, starts scripts, cancels, reloads and stops.    *)
(* "T" is the timer descriptor, "S" the descriptor of the signals.         *)
(***************************************************************************)
EXTENDS Integers, Sequences, FiniteSets

CONSTANTS
  Socket,     \* descriptors the client may open
  Pid,        \* children it may have
  Slots,      \* threads
  MaxLoad     \* bound on the sockets, and on twice the children, at a time

VARIABLE s

Never == 9    \* TIMER_DISABLED
Fds == Socket \cup {"T", "S"}
NoEvent == [on |-> FALSE, read |-> 0, write |-> 0, r |-> FALSE, w |-> FALSE, epoll |-> FALSE,
            er |-> FALSE, ew |-> FALSE]
Unused == [type |-> "UNUSED", fd |-> "none", sands |-> 0, event |-> "null", pid |-> 0, close |-> FALSE,
           func |-> "none"]

Range(q) == {q[i] : i \in DOMAIN q}
Without(q, t) == SelectSeq(q, LAMBDA u : u # t)
Free(q) == CHOOSE t \in Slots : q.th[t].type = "UNUSED" /\ \A u \in 1 .. t - 1 : q.th[u].type # "UNUSED"
Room(q) == Cardinality({t \in Slots : q.th[t].type = "UNUSED"})

\* rb_add_cached() with thread_timer_less(): behind the threads of the same time.
Insert(queue, t, th) ==
    LET n == Cardinality({i \in DOMAIN queue : th[queue[i]].sands <= th[t].sands})
    IN SubSeq(queue, 1, n) \o <<t>> \o SubSeq(queue, n + 1, Len(queue))

-----------------------------------------------------------------------------
(* Events of the descriptors.                                              *)

\* thread_event_set(): what epoll is told is what the flags ask for.
thread_event_set(q, fd) ==
    [q EXCEPT !.ev[fd].epoll = TRUE,
              !.kernel[fd] = (IF q.ev[fd].r THEN {"in"} ELSE {}) \cup (IF q.ev[fd].w THEN {"out"} ELSE {})]

\* thread_event_cancel(): the event is freed, and the pointer of the thread that asked
\* for it cleared; what other threads still point to is gone.
thread_event_cancel(q, t) ==
    LET fd == q.th[t].fd
    IN [q EXCEPT !.ev[fd] = NoEvent, !.kernel[fd] = {}, !.count = @ - 1,
                 !.current = IF @ = fd THEN "none" ELSE @,
                 !.th = [u \in Slots |->
                          IF u = t THEN [q.th[u] EXCEPT !.event = "null"]
                          ELSE IF q.th[u].fd = fd /\ q.th[u].event = "ok" THEN [q.th[u] EXCEPT !.event = "freed"]
                          ELSE q.th[u]]]

thread_event_del(q, t, dir) ==
    LET fd == q.th[t].fd
        e == q.ev[fd]
    IN CASE ~(IF dir = "read" THEN e.er ELSE e.ew) -> q
         [] ~(IF dir = "read" THEN e.ew ELSE e.er) -> thread_event_cancel(q, t)
         [] dir = "read" /\ e.ew ->
              [thread_event_set([q EXCEPT !.ev[fd].r = FALSE, !.ev[fd].read = 0], fd) EXCEPT !.ev[fd].er = FALSE]
         [] OTHER ->
              [thread_event_set([q EXCEPT !.ev[fd].w = FALSE, !.ev[fd].write = 0], fd) EXCEPT !.ev[fd].ew = FALSE]

thread_del_read(q, t) == IF q.th[t].event = "null" THEN q ELSE thread_event_del(q, t, "read")
thread_del_write(q, t) == IF q.th[t].event = "null" THEN q ELSE thread_event_del(q, t, "write")

-----------------------------------------------------------------------------
(* Adding threads.                                                         *)

thread_event_new(q, fd) ==
    IF q.ev[fd].on THEN q ELSE [q EXCEPT !.ev[fd] = [NoEvent EXCEPT !.on = TRUE], !.count = @ + 1]

thread_add_read(q, fd, sands, close) ==
    LET t == Free(q)
        n == thread_event_new(q, fd)
        p == [n EXCEPT !.th[t] = [Unused EXCEPT !.type = "READ", !.fd = fd, !.sands = sands, !.event = "ok", !.close = close],
                       !.ev[fd].r = TRUE, !.ev[fd].read = t]
        k == IF p.ev[fd].er THEN p ELSE [thread_event_set(p, fd) EXCEPT !.ev[fd].er = TRUE]
    IN IF q.ev[fd].r /\ q.ev[fd].read # 0 THEN q
       ELSE [k EXCEPT !.read = Insert(@, t, k.th)]

thread_add_write(q, fd, sands, close) ==
    LET t == Free(q)
        n == thread_event_new(q, fd)
        p == [n EXCEPT !.th[t] = [Unused EXCEPT !.type = "WRITE", !.fd = fd, !.sands = sands, !.event = "ok", !.close = close],
                       !.ev[fd].w = TRUE, !.ev[fd].write = t]
        k == IF p.ev[fd].ew THEN p ELSE [thread_event_set(p, fd) EXCEPT !.ev[fd].ew = TRUE]
    IN IF q.ev[fd].w /\ q.ev[fd].write # 0 THEN q
       ELSE [k EXCEPT !.write = Insert(@, t, k.th)]

thread_add_timer(q, sands, type, func) ==
    LET t == Free(q)
        p == [q EXCEPT !.th[t] = [Unused EXCEPT !.type = type, !.sands = sands, !.func = func]]
    IN [p EXCEPT !.timer = Insert(@, t, p.th)]

thread_add_child(q, pid, sands, func) ==
    LET t == Free(q)
        p == [q EXCEPT !.th[t] = [Unused EXCEPT !.type = "CHILD", !.sands = sands, !.pid = pid, !.func = func]]
    IN [p EXCEPT !.child = Insert(@, t, p.th), !.child_pid = @ \cup {t}]

thread_add_event(q, type, func) ==
    LET t == Free(q)
    IN [q EXCEPT !.th[t] = [Unused EXCEPT !.type = type, !.func = func], !.event = Append(@, t)]

\* thread_children_reschedule(): all at the same time, so the order stays.
thread_children_reschedule(q, func, sands) ==
    [q EXCEPT !.th = [t \in Slots |-> IF t \in Range(q.child) THEN [q.th[t] EXCEPT !.func = func, !.sands = sands]
                                      ELSE q.th[t]]]

thread_add_base_threads(q) == thread_add_read(thread_add_read(q, "T", Never, FALSE), "S", Never, FALSE)

-----------------------------------------------------------------------------
(* Taking threads away.                                                    *)

thread_add_unuse(q, t) == [q EXCEPT !.th[t] = Unused]

\* Mutant: the descriptor is closed and its event stays.
thread_close_fd_plain(q, t) ==
    IF q.th[t].fd = "none" THEN q ELSE [q EXCEPT !.open = @ \ {q.th[t].fd}, !.th[t].fd = "none"]
\* thread_close_fd(): the event goes first.
thread_close_fd(q, t) ==
    LET fd == q.th[t].fd
        c == IF q.th[t].event = "null" THEN q ELSE thread_event_cancel(q, t)
    IN IF fd = "none" THEN q ELSE [c EXCEPT !.open = @ \ {fd}, !.th[t].fd = "none"]

Drop(q, t) ==
    [q EXCEPT !.read = Without(@, t), !.write = Without(@, t), !.timer = Without(@, t), !.child = Without(@, t),
              !.event = Without(@, t), !.ready = Without(@, t)]

\* thread_cancel(): types of the end of the process are left alone.
thread_cancel(q, t) ==
    LET type == q.th[t].type
        e == CASE type \in {"READ", "READY_READ", "READ_TIMEOUT", "READ_ERROR"} -> thread_del_read(q, t)
               [] type \in {"WRITE", "READY_WRITE", "WRITE_TIMEOUT", "WRITE_ERROR"} -> thread_del_write(q, t)
               [] type \in {"CHILD", "CHILD_TIMEOUT"} -> [q EXCEPT !.child_pid = @ \ {t}]
               [] OTHER -> q
    IN IF type \in {"UNUSED", "TIMER_SHUTDOWN", "TERMINATE_START", "TERMINATE"} THEN q
       ELSE thread_add_unuse(Drop(e, t), t)

\* One thread of thread_destroy_rb() or thread_destroy_list().
Destroy(q, t, keep_children) ==
    LET type == q.th[t].type
        e == CASE type = "READ" -> thread_del_read(q, t)
               [] type = "WRITE" -> thread_del_write(q, t)
               [] type \in {"READY_READ", "READY_WRITE", "READ_TIMEOUT", "WRITE_TIMEOUT", "READ_ERROR", "WRITE_ERROR"}
                    -> thread_del_write(thread_del_read(q, t), t)
               [] type = "CHILD_TIMEOUT" /\ keep_children -> [q EXCEPT !.child_pid = @ \ {t}]
               [] OTHER -> q
        c == IF q.th[t].close THEN thread_close_fd(e, t) ELSE e
    IN thread_add_unuse(Drop(c, t), t)

RECURSIVE DestroyAll(_, _, _)
DestroyAll(q, queue, keep_children) ==
    IF queue = <<>> THEN q ELSE DestroyAll(Destroy(q, Head(queue), keep_children), Tail(queue), keep_children)

\* thread_cleanup_master() at a reload: only the children are kept.
thread_cleanup_master(q, keep_children) ==
    LET all == q.read \o q.write \o q.timer \o q.event \o q.ready
        d == DestroyAll([q EXCEPT !.current = "none"], all, keep_children)
    IN [d EXCEPT !.count = 0, !.running = 0,
                 !.th = [t \in Slots |-> IF t = q.running THEN Unused ELSE d.th[t]]]

-----------------------------------------------------------------------------
(* The client.                                                             *)

OpenOne(q) == CHOOSE fd \in Socket : fd \notin q.open
Load(q) == Cardinality(q.open) - 2 + 2 * Cardinality({p \in Pid : q.kid[p] # "none"})
CanOpen(q) == Socket \ q.open # {} /\ Load(q) < MaxLoad /\ Room(q) > 0
Connect(q) == thread_add_write([q EXCEPT !.open = @ \cup {OpenOne(q)}], OpenOne(q), 1, TRUE)
Listen(q) == thread_add_read([q EXCEPT !.open = @ \cup {OpenOne(q)}], OpenOne(q), Never, FALSE)
CloseAll(q) == [q EXCEPT !.open = {"T", "S"} \cap @]

\* A reload: the scripts are stopped, every thread but theirs goes, the rest of the
\* sockets is closed with the data of the configuration, and it starts again.
ReloadClient(q) ==
    LET k == thread_children_reschedule([q EXCEPT !.kid = [p \in Pid |-> IF @[p] = "runs" /\ \E t \in Range(q.child) : q.th[t].pid = p
                                                                        THEN "told" ELSE @[p]]], "killed", 1)
        c == CloseAll(thread_cleanup_master(k, TRUE))
    IN thread_add_timer(thread_add_base_threads(c), 1, "TIMER", "client")

\* The periodic timer of the client, and what it may do besides.
ClientTimer(q) ==
    LET again == thread_add_timer(q, 1, "TIMER", "client")
    IN {again}
       \cup (IF CanOpen(again) THEN {Connect(again), Listen(again)} ELSE {})
       \cup (IF Room(again) > 0 THEN {thread_add_event(again, "EVENT", "reload"), thread_add_event(again, "TERMINATE_START", "stop")}
             ELSE {})
       \cup {thread_add_child([again EXCEPT !.kid[p] = "runs"], p, 1, "script")
              : p \in {p \in Pid : again.kid[p] = "none" /\ Load(again) + 2 <= MaxLoad /\ Room(again) > 0}}
       \cup {[thread_cancel(again, t) EXCEPT !.open = @ \ {again.th[t].fd}]
              : t \in {t \in Slots : again.th[t].fd \in Socket /\ ~again.th[t].close}}

\* A thread of a socket: after an error or a timeout it is closed; otherwise it waits
\* again, or goes on in the other direction: the new thread is added before the old
\* direction is deleted.
ClientIo(q, t) ==
    LET me == q.th[t]
        shut == thread_close_fd(q, t)
    IN IF me.type \notin {"READY_READ", "READY_WRITE"} THEN {shut}
       ELSE IF ~me.close THEN {thread_add_read(q, me.fd, Never, FALSE)}
       ELSE IF me.type = "READY_READ"
       THEN {shut, thread_add_read(q, me.fd, 1, TRUE), thread_del_read(thread_add_write(q, me.fd, 1, TRUE), t)}
       ELSE {shut, thread_del_write(thread_add_read(q, me.fd, 1, TRUE), t)}

\* A script that takes too long is told to end, and watched again; at a reload and at
\* the end it is killed (child_killed_reload(), child_killed_thread()).
ClientChild(q, t) ==
    LET me == q.th[t]
        late == me.type = "CHILD_TIMEOUT"
        killed == [q EXCEPT !.kid[me.pid] = IF late THEN "told" ELSE @]
        over == me.func = "last" /\ q.child = <<>> /\ ~q.shutdown_timer
    IN IF me.func = "script" THEN {IF late THEN thread_add_child(killed, me.pid, 1, "script") ELSE q}
       ELSE {IF over THEN thread_add_event(killed, "TERMINATE", "none") ELSE killed}

\* The end: scripts are stopped; a shutdown timer, a backstop, or the end at once.
ClientStop(q) ==
    LET k == thread_children_reschedule([q EXCEPT !.kid = [p \in Pid |-> IF @[p] = "runs" THEN "told" ELSE @[p]]], "last", 1)
    IN {[thread_add_timer(k, 1, "TIMER_SHUTDOWN", "shutdown") EXCEPT !.shutdown_timer = TRUE],
        IF q.child # <<>> THEN thread_add_timer(k, 1, "TIMER_SHUTDOWN", "backstop")
        ELSE thread_add_event(k, "TERMINATE", "none")}
ClientShutdown(q, t) ==
    LET off == [q EXCEPT !.shutdown_timer = FALSE]
    IN {IF q.th[t].func = "shutdown" /\ q.child # <<>> THEN thread_add_timer(off, 0, "TIMER_SHUTDOWN", "backstop")
        ELSE thread_add_event(IF q.th[t].func = "shutdown" THEN off ELSE q, "TERMINATE", "none")}

-----------------------------------------------------------------------------
(* The loop.                                                               *)

thread_move_ready(q, t, type) ==
    [q EXCEPT !.read = Without(@, t), !.write = Without(@, t), !.timer = Without(@, t), !.child = Without(@, t),
              !.ready = Append(@, t), !.th[t].type = IF @ = "TIMER_SHUTDOWN" THEN @ ELSE type]

RECURSIVE thread_rb_move_ready(_, _, _)
thread_rb_move_ready(q, queue, type) ==
    IF queue = <<>> THEN q
    ELSE IF q.th[Head(queue)].sands > 0 THEN q
    ELSE LET t == Head(queue)
             e == CASE type = "READ_TIMEOUT" -> [q EXCEPT !.ev[q.th[t].fd].read = 0]
                    [] type = "WRITE_TIMEOUT" -> [q EXCEPT !.ev[q.th[t].fd].write = 0]
                    [] OTHER -> q
         IN thread_rb_move_ready(thread_move_ready(e, t, type), Tail(queue), type)

thread_timerfd_handler(q) ==
    LET r == thread_rb_move_ready(q, q.read, "READ_TIMEOUT")
        w == thread_rb_move_ready(r, q.write, "WRITE_TIMEOUT")
        m == thread_rb_move_ready(w, q.timer, "READY_TIMER")
    IN thread_add_read(thread_rb_move_ready(m, q.child, "CHILD_TIMEOUT"), "T", Never, FALSE)

\* process_child_termination(): a thread whose timeout has not been handled yet is
\* told of the end of the child instead.
process_child_termination(q, pid) ==
    LET mine == {t \in q.child_pid : q.th[t].pid = pid}
        t == CHOOSE t \in mine : TRUE
        p == [q EXCEPT !.child_pid = @ \ mine, !.kid[pid] = "none"]
    IN IF mine = {} THEN p
       ELSE IF q.th[t].type = "CHILD_TIMEOUT" THEN [p EXCEPT !.th[t].type = "CHILD_TERMINATED"]
       ELSE thread_move_ready(p, t, "CHILD_TERMINATED")

RECURSIVE thread_child_handler(_, _)
thread_child_handler(q, pids) ==
    IF pids = {} THEN q
    ELSE LET p == CHOOSE p \in pids : TRUE
         IN thread_child_handler(process_child_termination(q, p), pids \ {p})
signal_run_callback(q) ==
    thread_add_read(thread_child_handler(q, {p \in Pid : q.kid[p] = "dead"}), "S", Never, FALSE)

\* thread_set_timer(), when there is nothing to do.
First(q, queue) == IF queue = <<>> THEN Never ELSE q.th[Head(queue)].sands
thread_set_timer ==
    /\ s.pc = "loop" /\ s.event = <<>> /\ s.ready = <<>>
    /\ LET firsts == {First(s, s.timer), First(s, s.write), First(s, s.read), First(s, s.child)}
       IN s' = [s EXCEPT !.pc = "wait", !.armed = CHOOSE n \in firsts : \A k \in firsts : n <= k]

\* What epoll_wait() may report, and what is done about it.
Reports ==
    {<<"T", {"in"}>> : x \in {x \in {1} : s.armed = 0 /\ s.kernel["T"] # {}}}
    \cup {<<"S", {"in"}>> : x \in {x \in {1} : (\E p \in Pid : s.kid[p] = "dead") /\ s.kernel["S"] # {}}}
    \cup {<<fd, e>> \in Socket \X (SUBSET {"in", "out"}) : e # {} /\ e \subseteq s.kernel[fd]}
    \cup {<<fd, {"error"}>> : fd \in {fd \in Socket : s.kernel[fd] # {}}}
HandleEvent(q, fd, e) ==
    LET v == q.ev[fd]
        rd == [thread_move_ready(q, v.read, IF "error" \in e THEN "READ_ERROR" ELSE "READY_READ") EXCEPT !.ev[fd].read = 0]
        wr(p) == [thread_move_ready(p, v.write, IF "error" \in e THEN "WRITE_ERROR" ELSE "READY_WRITE") EXCEPT !.ev[fd].write = 0]
    IN CASE "error" \in e -> IF v.read # 0 THEN rd ELSE IF v.write # 0 THEN wr(q) ELSE q
         [] "in" \in e /\ v.read = 0 -> q
         [] "in" \in e /\ ("out" \notin e \/ v.write = 0) -> rd
         [] "in" \in e -> wr(rd)
         [] v.write # 0 -> wr(q)
         [] OTHER -> q
thread_fetch_next_queue ==
    /\ s.pc = "wait"
    /\ \/ \E a \in Reports : s' = [HandleEvent(s, a[1], a[2]) EXCEPT !.pc = "loop"]
       \/ \E a, b \in Reports :
            /\ a[1] # b[1]
            /\ s' = [HandleEvent(HandleEvent(s, a[1], a[2]), b[1], b[2]) EXCEPT !.pc = "loop"]

Call(q, t) ==
    CASE q.th[t].fd = "T" -> {thread_timerfd_handler(q)}
      [] q.th[t].fd = "S" -> {signal_run_callback(q)}
      [] q.th[t].fd \in Socket -> ClientIo(q, t)
      [] q.th[t].pid # 0 -> ClientChild(q, t)
      [] q.th[t].func = "client" -> ClientTimer(q)
      [] q.th[t].func = "reload" -> {ReloadClient(q)}
      [] q.th[t].func = "stop" -> ClientStop(q)
      [] q.th[t].func \in {"shutdown", "backstop"} -> ClientShutdown(q, t)
      [] OTHER -> {q}

\* One turn of process_threads(): while the process ends only some threads are run, and
\* the sockets of the others are closed.
Serves(q, t) ==
    \/ ~q.shutting_down
    \/ q.th[t].type \in {"READY_READ", "READY_WRITE", "READ_ERROR", "WRITE_ERROR"} /\ q.th[t].fd \in {"T", "S"}
    \/ q.th[t].type \in {"CHILD", "CHILD_TIMEOUT", "CHILD_TERMINATED", "TIMER_SHUTDOWN", "TERMINATE"}
process_threads ==
    /\ s.pc = "loop" /\ s.event \o s.ready # <<>>
    /\ LET t == Head(s.event \o s.ready)
           type == s.th[t].type
           q == [s EXCEPT !.event = IF @ # <<>> THEN Tail(@) ELSE @, !.ready = IF s.event = <<>> THEN Tail(@) ELSE @,
                          !.running = t, !.child_pid = IF type = "CHILD_TIMEOUT" THEN @ \ {t} ELSE @]
           called == IF Serves(q, t) THEN Call(q, t)
                     ELSE IF s.th[t].fd # "none" THEN {thread_close_fd(q, t)} ELSE {q}
       IN \E r \in called :
            LET off == r.shutting_down \/ (type = "TERMINATE_START" /\ Serves(q, t))
                io == r.running # 0 /\ type \in {"READY_READ", "READY_WRITE"} /\ r.th[t].event # "null"
                u == IF r.running # 0 THEN thread_add_unuse(r, t) ELSE r
            IN s' = [u EXCEPT !.running = 0, !.shutting_down = off,
                              !.current = IF io THEN s.th[t].fd ELSE "none",
                              !.bad = @ \/ (io /\ r.th[t].event = "freed"),
                              !.pc = IF (off /\ ~u.shutdown_timer /\ u.child = <<>>) \/ type = "TERMINATE" THEN "done" ELSE "loop"]

-----------------------------------------------------------------------------
(* Time, and the children.                                                 *)

Timed == Range(s.read) \cup Range(s.write) \cup Range(s.timer) \cup Range(s.child)
Tick ==
    /\ s.pc # "done"
    /\ \E t \in Timed : s.th[t].sands \in 1 .. Never - 1
    /\ LET less(n) == IF n \in 1 .. Never - 1 THEN n - 1 ELSE n
       IN s' = [s EXCEPT !.th = [t \in Slots |-> [s.th[t] EXCEPT !.sands = less(@)]], !.armed = less(@)]

\* A child ends, also one that has been told to and takes its time.
Exit == s.pc # "done" /\ \E p \in Pid : s.kid[p] \in {"runs", "told"} /\ s' = [s EXCEPT !.kid[p] = "dead"]

Init ==
    LET none == [th |-> [t \in Slots |-> Unused], ev |-> [fd \in Fds |-> NoEvent], kernel |-> [fd \in Fds |-> {}],
                 open |-> {"T", "S"}, read |-> <<>>, write |-> <<>>, timer |-> <<>>, child |-> <<>>, event |-> <<>>,
                 ready |-> <<>>, child_pid |-> {}, kid |-> [p \in Pid |-> "none"], count |-> 0, current |-> "none",
                 running |-> 0, shutting_down |-> FALSE, shutdown_timer |-> FALSE, armed |-> Never, pc |-> "loop",
                 bad |-> FALSE]
    IN s = thread_add_timer(thread_add_base_threads(none), 1, "TIMER", "client")

Next == thread_set_timer \/ thread_fetch_next_queue \/ process_threads \/ Tick \/ Exit

-----------------------------------------------------------------------------
\* Whatever the callbacks add, cancel and close, and whenever they do: no thread and no
\* event points to what has been freed; a thread that waits for a descriptor is the one
\* its event names, and epoll watches it; the tree of the pids has exactly the children
\* that wait and those whose timeout is still to be handled ("Failure to remove the
\* thread from the master->child_pid RB tree can cause segfaults", thread_add_child());
\* epoll_count is the number of events; and the timer is armed whenever a thread is due.
SchedulerSound ==
    /\ ~s.bad
    /\ \A t \in Range(s.read) : s.th[t].event = "ok" /\ s.ev[s.th[t].fd].read = t /\ "in" \in s.kernel[s.th[t].fd]
    /\ \A t \in Range(s.write) : s.th[t].event = "ok" /\ s.ev[s.th[t].fd].write = t /\ "out" \in s.kernel[s.th[t].fd]
    /\ \A fd \in Fds : s.ev[fd].read \in Range(s.read) \cup {0} /\ s.ev[fd].write \in Range(s.write) \cup {0}
    /\ \A fd \in Fds : s.ev[fd].on => fd \in s.open
    /\ \A t \in Slots : s.th[t].event # "freed"
    /\ s.current # "none" => s.ev[s.current].on
    /\ s.child_pid = Range(s.child) \cup {t \in Range(s.ready) : s.th[t].type = "CHILD_TIMEOUT"}
    /\ s.count = Cardinality({fd \in Fds : s.ev[fd].on})
    /\ s.pc = "wait" /\ (\E t \in Timed : s.th[t].sands = 0) => s.armed = 0

=============================================================================

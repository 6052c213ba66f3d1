----------------------------- MODULE VrrpTrack -----------------------------
(***************************************************************************)
(* What the instances make of the things they track (vrrp/vrrp_track.c,    *)
(* trackers/track_file.c): interfaces, processes, BFD sessions, scripts    *)
(* and files, each with a weight.  With weight 0 a tracked thing that is   *)
(* down is a fault of the instance, with another it changes the priority.  *)
(* A file holds a number, which is multiplied by the weight.               *)
(*                                                                         *)
(* Configurations are read with their limits, the lists of an instance and *)
(* of its sync group are merged, and then the priority and the faults are  *)
(* kept by differences only: each event adds or takes away what it         *)
(* changes.  Files are watched with inotify, scripts are child processes   *)
(* that may hang.  What an instance does in a fault is in VrrpSyncGroup;   *)
(* its own interface is in VrrpLinks.                                      *)
(***************************************************************************)
EXTENDS Integers, FiniteSets, SequencesExt

VRRP_PRIO_OWNER == 255
INT_MAX == 4095        \* of an int: wide enough for the products of the instance

CONSTANTS
  Setups,      \* sequences of configurations; the first is the one of the start
  Numbers,     \* numbers that are written to the files
  MaxQueue,    \* events the inotify queue takes
  MaxChanges   \* bound on the changes of the files

VARIABLE s     \* see Start

-----------------------------------------------------------------------------
(* Definitions.  A definition is [kind, weights, path, init, value, rise,  *)
(* fall, ok]: weights are its weight lines <<n, option>>, path says what   *)
(* is wrong with the file's name, and ok that the script may be run.       *)

InRange(n, limit) == -limit <= n /\ n <= limit

track_file_weight_handler(d, w) ==
    IF d.weight # 1 THEN d
    ELSE [d EXCEPT !.weight = IF InRange(w[1], 254) THEN w[1] ELSE 1, !.reverse = @ \/ w[2] = "reverse"]
\* The number is used although it is out of range.
vrrp_vscript_weight_handler(d, w) == [d EXCEPT !.weight = w[1], !.reverse = @ \/ w[2] = "reverse"]
vrrp_tprocess_weight_handler(d, w) ==
    IF d.weight # 0 \/ ~InRange(w[1], 254) THEN d
    ELSE [d EXCEPT !.weight = w[1], !.reverse = @ \/ w[2] = "reverse"]

alloc_vrrp_script(reload) == [result |-> 0, init |-> IF reload THEN "reload" ELSE "init", state |-> "idle", child |-> FALSE]

Default(d) ==
    LET none == [kind |-> d.kind, weight |-> IF d.kind = "file" THEN 1 ELSE 0, reverse |-> FALSE]
    IN CASE d.kind = "file" -> FoldLeft(track_file_weight_handler, none, d.weights)
         [] d.kind = "script" -> FoldLeft(vrrp_vscript_weight_handler, none, d.weights)
         [] d.kind = "process" -> FoldLeft(vrrp_tprocess_weight_handler, none, d.weights)
         [] OTHER -> none

\* The file must be on a file system that can be watched; a file that is not there, or is
\* to be overwritten, is written when keepalived starts.
KeepsFile(d) == d.path \notin {"none", "no directory", "cannot be watched"}
track_file_end_handler(d, content, reload) ==
    IF KeepsFile(d) /\ ~reload /\ (d.init = "overwrite" \/ (d.init = "init" /\ content = <<>>))
    THEN <<d.value>> ELSE content
\* A script without a command or a user is dropped.
vrrp_vscript_end_handler(d) == d.path = ""

Defs(c) == [o \in {p \in DOMAIN c.defs : CASE c.defs[p].kind = "file" -> KeepsFile(c.defs[p])
                                           [] c.defs[p].kind = "script" -> vrrp_vscript_end_handler(c.defs[p])
                                           [] OTHER -> TRUE}
            |-> Default(c.defs[o])]

-----------------------------------------------------------------------------
(* Track statements: [o, opt, val, rev] of the words after the name.  The  *)
(* functions that read them differ in their limits and in what they accept *)
(* after the weight.                                                       *)

AllocTrack(rule, defs, list, st) ==
    LET d == defs[st.o]
        n == st.val[1]
        w == IF st.opt = "" \/ ~InRange(n, rule.limit) THEN d.weight
             ELSE IF rule.cut /\ n = 254 THEN 253 ELSE IF rule.cut /\ n = -254 THEN -253 ELSE n
        r == CASE st.rev = "reverse" -> TRUE
               [] st.rev = "noreverse" /\ rule.noreverse -> FALSE
               [] OTHER -> d.reverse
    IN IF \/ st.o \notin DOMAIN defs
          \/ \E i \in DOMAIN list : list[i].o = st.o
          \/ (st.opt # "" /\ (st.opt # "weight" \/ st.val = <<>>))
          \/ (st.rev = "other" /\ rule.strict)
       THEN list ELSE Append(list, [o |-> st.o, w |-> w, reverse |-> r])
alloc_track_if == [limit |-> 254, cut |-> TRUE, noreverse |-> FALSE, strict |-> FALSE]
alloc_track_script == [limit |-> 254, cut |-> TRUE, noreverse |-> TRUE, strict |-> FALSE]
alloc_track_process == [limit |-> 254, cut |-> FALSE, noreverse |-> TRUE, strict |-> FALSE]
vrrp_alloc_track_file == [limit |-> 254, cut |-> FALSE, noreverse |-> TRUE, strict |-> TRUE]
alloc_track_bfd == [limit |-> 253, cut |-> FALSE, noreverse |-> TRUE, strict |-> TRUE]
AllocRule(kind) ==
    CASE kind = "if" -> alloc_track_if
      [] kind = "script" -> alloc_track_script
      [] kind = "process" -> alloc_track_process
      [] kind = "file" -> vrrp_alloc_track_file
      [] kind = "bfd" -> alloc_track_bfd

\* The lists of an instance or a group, all kinds in one; check_vrrp_script_security()
\* takes out the scripts that may not be run.
Lists(c, defs, track) ==
    SelectSeq(FoldLeft(LAMBDA list, st : AllocTrack(AllocRule(c.defs[st.o].kind), defs, list, st), <<>>, track),
              LAMBDA e : c.defs[e.o].ok)

\* vrrp_complete_instance(): weights are not for owners, and for members of a group only
\* with sgroup_tracking_weight.  Interfaces were added with their weight before, and
\* processes are not looked at.
NoWeights(c, v) == c.insts[v].base = VRRP_PRIO_OWNER \/ (c.insts[v].sync /\ ~c.group.weight)
Allowed(c, v, e) ==
    \/ ~NoWeights(c, v)
    \/ CASE c.defs[e.o].kind \in {"script", "bfd"} -> e.w = 0
         [] c.defs[e.o].kind = "file" -> e.w \in {0, 1}
         [] OTHER -> TRUE
Unweighted(c, v, list) ==
    [i \in DOMAIN list |-> IF NoWeights(c, v) /\ c.defs[list[i].o].kind = "file" THEN [list[i] EXCEPT !.w = 0] ELSE list[i]]
OwnList(c, defs, v) ==
    Unweighted(c, v, SelectSeq(Lists(c, defs, c.insts[v].track), LAMBDA e : Allowed(c, v, e)))

Members(c) == SelectSeq([v \in DOMAIN c.insts |-> v], LAMBDA v : c.insts[v].sync)
ForMembers(c, list) ==
    LET owner == \E v \in DOMAIN c.insts : c.insts[v].sync /\ c.insts[v].base = VRRP_PRIO_OWNER
    IN [i \in DOMAIN list |-> IF owner THEN [list[i] EXCEPT !.w = 0] ELSE list[i]]
GroupList(c, defs) == ForMembers(c, Lists(c, defs, c.group.track))

\* What tracks an object: [v, w, m], an instance with weight and multiplier.  The weight of
\* the group replaces the one of the instance, unless that is 0.
Sign(e) == IF e.reverse THEN -1 ELSE 1
AddTop(tops, v, e, sign) ==
    IF \A i \in DOMAIN tops : tops[i].v # v THEN Append(tops, [v |-> v, w |-> e.w, m |-> Sign(e)])
    ELSE [i \in DOMAIN tops |-> IF tops[i].v # v \/ tops[i].w = 0 THEN tops[i]
                                 ELSE [v |-> v, w |-> e.w, m |-> IF sign THEN Sign(e) ELSE tops[i].m]]
add_vrrp_to_interface(tops, v, e) == AddTop(tops, v, e, TRUE)
add_vrrp_to_track_script(tops, v, e) == AddTop(tops, v, e, TRUE)
add_vrrp_to_track_process(tops, v, e) == AddTop(tops, v, e, FALSE)
add_vrrp_to_track_bfd(tops, v, e) == AddTop(tops, v, e, TRUE)
add_obj_to_track_file(tops, v, e) == AddTop(tops, v, e, TRUE)

AddTo(kind, tops, v, e) ==
    CASE kind = "if" -> add_vrrp_to_interface(tops, v, e)
      [] kind = "script" -> add_vrrp_to_track_script(tops, v, e)
      [] kind = "process" -> add_vrrp_to_track_process(tops, v, e)
      [] kind = "bfd" -> add_vrrp_to_track_bfd(tops, v, e)
      [] kind = "file" -> add_obj_to_track_file(tops, v, e)

\* vrrp_complete_instance() for each instance, then sync_group_tracking_init().
ForInstance(v, list) == [i \in DOMAIN list |-> [v |-> v, e |-> list[i]]]
ForGroup(members, list) ==
    FlattenSeq([i \in DOMAIN list |-> [k \in DOMAIN members |-> [v |-> members[k], e |-> list[i]]]])
TopsFor(c, defs, all) ==
    [o \in DOMAIN defs |-> FoldLeft(LAMBDA tops, x : AddTo(c.defs[o].kind, tops, x.v, x.e), <<>>,
                                    SelectSeq(all, LAMBDA x : x.e.o = o))]
Tops(c, defs) ==
    TopsFor(c, defs, FlattenSeq([v \in DOMAIN c.insts |-> ForInstance(v, OwnList(c, defs, v))])
                    \o ForGroup(Members(c), GroupList(c, defs)))

-----------------------------------------------------------------------------
(* Priorities and faults of the instances.  q is the state, t a top.       *)

Clip(n, lo, hi) == IF n < lo THEN lo ELSE IF n > hi THEN hi ELSE n
vrrp_set_effective_priority(q, v) ==
    IF q.inst[v].base = VRRP_PRIO_OWNER THEN q
    ELSE [q EXCEPT !.inst[v].eff = Clip(q.inst[v].total, 1, VRRP_PRIO_OWNER - 1)]
AddPriority(q, v, n) == [q EXCEPT !.inst[v].total = @ + n]

down_instance(q, v, flag) ==
    IF flag = "tracker" THEN [q EXCEPT !.inst[v].faults = @ + 1] ELSE [q EXCEPT !.inst[v].ifdown = TRUE]
try_up_instance(q, v, leaving_init, flag) ==
    IF leaving_init THEN q
    ELSE IF flag = "tracker" THEN [q EXCEPT !.inst[v].faults = @ - 1] ELSE [q EXCEPT !.inst[v].ifdown = FALSE]

\* What a thing that is up or down adds to the priority.
Level(t, up) == IF (t.w > 0) = up THEN t.w * t.m ELSE 0
Abs(n) == IF n < 0 THEN -n ELSE n
Switch(q, t, up, flag) ==
    IF t.w # 0 THEN vrrp_set_effective_priority(AddPriority(q, t.v, (IF up THEN 1 ELSE -1) * Abs(t.w) * t.m), t.v)
    ELSE IF up = (t.m = 1) THEN try_up_instance(q, t.v, FALSE, flag) ELSE down_instance(q, t.v, flag)
process_if_status_change(q, o, up) ==
    FoldLeft(LAMBDA r, t : Switch(r, t, up, "interface"), [q EXCEPT !.up[o] = up], q.tops[o])
vrrp_handle_bfd_event(q, o, up) ==
    IF up = q.up[o] THEN q
    ELSE FoldLeft(LAMBDA r, t : Switch(r, t, up, "tracker"), [q EXCEPT !.up[o] = up], q.tops[o])
process_update_track_process_status(q, o, up) ==
    LET Tell(r, t) ==
            IF t.w = 0 THEN Switch(r, t, up, "tracker")
            ELSE IF r.inst[t.v].base = VRRP_PRIO_OWNER THEN r
            ELSE vrrp_set_effective_priority(AddPriority(r, t.v, (IF (t.w > 0) = up THEN 1 ELSE -1) * t.w * t.m), t.v)
    IN FoldLeft(Tell, [q EXCEPT !.up[o] = up], q.tops[o])

\* num_member_init of the group.
MemberInit(q, v) == q.inst[v].sync /\ \E u \in DOMAIN q.inst : q.inst[u].sync /\ q.inst[u].init > 0
process_script_update_priority(q, o, t, ok) ==
    LET init == q.scr[o].init
        left == t.w = 0 /\ init = "init" /\ q.inst[t.v].init = 1
        u == IF init = "init" THEN [q EXCEPT !.inst[t.v].init = @ - 1] ELSE q
    IN IF t.w = 0
       THEN IF ok # (t.m = 1) THEN down_instance(u, t.v, "tracker")
            ELSE IF u.inst[t.v].init = 0 /\ init # "reload" /\ ~MemberInit(u, t.v)
            THEN try_up_instance(u, t.v, left, "tracker") ELSE u
       ELSE vrrp_set_effective_priority(
              AddPriority(q, t.v, IF init \in {"init", "reload"} THEN Level(t, ok)
                                  ELSE (IF ok THEN 1 ELSE -1) * Abs(t.w) * t.m), t.v)
update_script_priorities(q, o, ok) ==
    FoldLeft(LAMBDA r, t : process_script_update_priority(r, o, t, ok), q, q.tops[o])

-----------------------------------------------------------------------------
(* Files.                                                                  *)

ToInt(n) == ((n + INT_MAX + 1) % (2 * INT_MAX + 2)) - INT_MAX - 1
weight_range(n) == Clip(n, -INT_MAX - 1, INT_MAX)
Bad(n, t) == (n # 0) = (t.m = 1)
\* The status of a file for a top: what is new is brought into range, the last one was
\* computed as an int.
NewStatus(n, t) == Clip(IF t.w = 0 THEN IF Bad(n, t) THEN -254 ELSE 0 ELSE weight_range(n * t.w * t.m), -254, 253)
LastStatus(n, t) == Clip(IF t.w = 0 THEN IF Bad(n, t) THEN -254 ELSE 0 ELSE ToInt(n * t.w * t.m), -254, 253)

process_update_vrrp_track_file_status(q, o, t, n) ==
    LET new == NewStatus(n, t)
        last == LastStatus(q.last[o], t)
    IN IF new = last THEN q
       ELSE IF new = -254
       THEN down_instance(IF t.w # 0 THEN AddPriority(q, t.v, -last) ELSE q, t.v, "tracker")
       ELSE IF last = -254
       THEN LET u == IF t.w = 0 THEN q ELSE AddPriority(q, t.v, new)
            IN try_up_instance(IF t.w = 0 THEN u ELSE [u EXCEPT !.inst[t.v].eff = Clip(u.inst[t.v].total, 1, 254)],
                               t.v, FALSE, "tracker")
       ELSE vrrp_set_effective_priority(AddPriority(q, t.v, new - last), t.v)
update_track_file_status(q, o, n) ==
    IF n = q.last[o] THEN q
    ELSE FoldLeft(LAMBDA r, t : process_update_vrrp_track_file_status(r, o, t, n), q, q.tops[o])

\* A file that cannot be read is 0, a number that no int can be is not looked at.
Valid(n) == -INT_MAX - 1 <= n /\ n <= INT_MAX + 1
Read(content) == IF content = <<>> THEN 0 ELSE content[1]
process_track_file(q, o, init) ==
    LET n == Read(q.disk[o])
    IN IF ~Valid(n) THEN q
       ELSE [(IF init THEN q ELSE update_track_file_status(q, o, n)) EXCEPT !.last[o] = n]

-----------------------------------------------------------------------------
(* The start, and a reload.  A state is of one configuration conf, with    *)
(* the files todo to be set up, the first of them as far as "at".  An      *)
(* instance has its priorities, the number of its faults and of the        *)
(* scripts it waits for.                                                   *)

Of(c, defs, kind) == {o \in DOMAIN defs : c.defs[o].kind = kind}
vrrp_vscript_init_fail_handler(sc) == [sc EXCEPT !.init = "failed"]
\* alloc_track_script() sets the state of the script again, so that init_fail is lost.
Script(c, o, reload) ==
    LET new == alloc_vrrp_script(reload)
    IN [(IF c.defs[o].init = "fail" THEN vrrp_vscript_init_fail_handler(new) ELSE new) EXCEPT !.init = new.init]

\* The result of a script that is still the same counts on.
clear_diff_script(c, old, o) ==
    LET new == Script(c, o, TRUE)
        rise == c.defs[o].rise
        fall == c.defs[o].fall
        was == old.scr[o]
        before == old.conf.defs[o]
    IN IF o \notin DOMAIN old.scr THEN new
       ELSE IF before.cmd # c.defs[o].cmd THEN new
       ELSE IF was.init = "init" THEN [new EXCEPT !.init = "init", !.result = rise - 1]
       ELSE IF was.init = "reload" THEN [new EXCEPT !.init = "reload"]
       ELSE [new EXCEPT !.init = "done", !.result =
               IF was.result < before.rise
               THEN IF was.result = 0 THEN 0 ELSE Clip(rise - (before.rise - was.result), 0, rise)
               ELSE IF was.result = before.rise + before.fall - 1 THEN rise + fall - 1
               ELSE Clip(rise + (was.result - before.rise), rise, rise + fall - 1)]
clear_diff_bfd(c, old, o) == o \in DOMAIN old.up /\ old.up[o]

BeginWith(c, defs, tops, old, reload) ==
    [old EXCEPT
      !.conf = c, !.at = "resolve", !.exists = FALSE, !.watched = {}, !.q = <<>>, !.lost = FALSE,
      !.busy = FALSE, !.raced = {}, !.tops = tops,
      !.todo = SetToSeq(Of(c, defs, "file")), !.last = [o \in Of(c, defs, "file") |-> 0],
      !.disk = [o \in DOMAIN old.disk |-> IF o \in DOMAIN c.defs
                  THEN track_file_end_handler(c.defs[o], old.disk[o], reload) ELSE old.disk[o]],
      !.scr = [o \in {p \in Of(c, defs, "script") : tops[p] # <<>>} |->
                 IF reload THEN clear_diff_script(c, old, o) ELSE Script(c, o, FALSE)],
      !.up = [o \in Of(c, defs, "if") \cup Of(c, defs, "process") \cup Of(c, defs, "bfd") |->
                IF c.defs[o].kind = "bfd" THEN clear_diff_bfd(c, old, o)
                ELSE o \in DOMAIN old.up => old.up[o]],
      !.inst = [v \in DOMAIN c.insts |-> LET b == c.insts[v].base
                  IN [base |-> b, sync |-> c.insts[v].sync, total |-> b, eff |-> b, faults |-> 0,
                      ifdown |-> FALSE, init |-> 0]]]
Begin(c, old, reload) == BeginWith(c, Defs(c), Tops(c, Defs(c)), old, reload)

\* init_track_files(), call by call: a file that nothing tracks or whose path cannot be
\* resolved is removed, the directory of the others is watched, and one that was there
\* is read.
ResolveFile ==
    /\ s.todo # <<>> /\ s.at = "resolve"
    /\ LET f == Head(s.todo)
       IN s' = IF s.tops[f] = <<>> \/ s.conf.defs[f].path = "not accessible"
               THEN [s EXCEPT !.todo = Tail(@), !.tops[f] = <<>>]
               ELSE [s EXCEPT !.at = "watch", !.exists = s.disk[f] # <<>>]
WatchFile ==
    /\ s.at = "watch"
    /\ s' = [s EXCEPT !.at = "read", !.watched = @ \cup {Head(s.todo)}]
ReadFile ==
    /\ s.at = "read"
    /\ s' = [(IF s.exists THEN process_track_file(s, Head(s.todo), TRUE) ELSE s)
               EXCEPT !.at = "resolve", !.todo = Tail(@)]

\* initialise_interface_tracking_priorities() and initialise_process_tracking_priorities()
FirstSwitch(q, o, t) ==
    LET flag == IF q.conf.defs[o].kind = "if" THEN "interface" ELSE "tracker"
    IN IF t.w # 0 THEN AddPriority(q, t.v, Level(t, q.up[o]))
       ELSE IF q.up[o] # (t.m = 1) THEN down_instance(q, t.v, flag) ELSE q
initialise_vrrp_file_tracking_priorities(q, o, t) ==
    LET n == IF t.w = 0 THEN IF Bad(q.last[o], t) THEN -254 ELSE 0 ELSE ToInt(q.last[o] * t.w * t.m)
    IN IF n <= -254 THEN down_instance(q, t.v, "tracker") ELSE AddPriority(q, t.v, Clip(n, n, 253))
\* Scripts and BFD sessions are counted by the lists, and not by what tracks them.
initialise_track_script_state(q, v, e) ==
    LET sc == q.scr[e.o]
        ok == sc.result >= q.conf.defs[e.o].rise
    IN CASE e.w = 0 /\ sc.init = "init" -> [q EXCEPT !.inst[v].init = @ + 1]
         [] e.w = 0 /\ (sc.init = "failed" \/ (sc.init # "reload" /\ ~ok)) -> down_instance(q, v, "tracker")
         [] e.w # 0 /\ q.inst[v].base # VRRP_PRIO_OWNER /\ sc.init \notin {"init", "reload"} ->
              AddPriority(q, v, Level([w |-> e.w, m |-> 1], ok))
         [] OTHER -> q
initialise_track_bfd_state(q, v, e) ==
    IF e.w # 0 THEN AddPriority(q, v, Level([w |-> e.w, m |-> Sign(e)], q.up[e.o]))
    ELSE IF q.up[e.o] = e.reverse THEN down_instance(q, v, "tracker") ELSE q
initialise_vrrp_tracking_priorities(q, v) ==
    LET c == q.conf
        list == OwnList(c, Defs(c), v) \o (IF c.insts[v].sync THEN GroupList(c, Defs(c)) ELSE <<>>)
        First(r, e) == CASE c.defs[e.o].kind = "script" -> initialise_track_script_state(r, v, e)
                         [] c.defs[e.o].kind = "bfd" -> initialise_track_bfd_state(r, v, e)
                         [] OTHER -> r
    IN vrrp_set_effective_priority(FoldLeft(First, q, list), v)
initialise_tracking_priorities(q) ==
    LET Each(r, x) == IF q.conf.defs[x.o].kind = "file" THEN initialise_vrrp_file_tracking_priorities(r, x.o, x.t)
                      ELSE FirstSwitch(r, x.o, x.t)
        all == FlattenSeq([o \in 1 .. Cardinality(DOMAIN q.up \cup DOMAIN q.last) |->
                 LET p == SetToSeq(DOMAIN q.up \cup DOMAIN q.last)[o]
                 IN IF q.conf.defs[p].kind = "bfd" THEN <<>>
                    ELSE [i \in DOMAIN q.tops[p] |-> [o |-> p, t |-> q.tops[p][i]]]])
    IN FoldLeft(initialise_vrrp_tracking_priorities, FoldLeft(Each, q, all), [v \in DOMAIN q.inst |-> v])
vrrp_init_script(q) ==
    [q EXCEPT !.scr = [o \in DOMAIN q.scr |->
        CASE q.scr[o].init \in {"init", "reload"} -> [q.scr[o] EXCEPT !.result = q.conf.defs[o].rise - 1]
          [] q.scr[o].init = "failed" -> [q.scr[o] EXCEPT !.result = 0]
          [] OTHER -> q.scr[o]]]
Started ==
    /\ s.todo = <<>> /\ s.at = "resolve"
    /\ s' = [vrrp_init_script(initialise_tracking_priorities(s)) EXCEPT !.at = "run"]

-----------------------------------------------------------------------------
(* The events.                                                             *)

Kind(kind) == {o \in DOMAIN s.up : s.conf.defs[o].kind = kind}
Idle == s.at = "run" /\ ~s.busy
InterfaceChanges == Idle /\ \E o \in Kind("if") : s' = process_if_status_change(s, o, ~s.up[o])
ProcessChanges == Idle /\ \E o \in Kind("process") : s' = process_update_track_process_status(s, o, ~s.up[o])
vrrp_bfd_thread == Idle /\ \E o \in Kind("bfd"), up \in BOOLEAN : s' = vrrp_handle_bfd_event(s, o, up)

\* A script is started, unless the last one still runs or the fork fails.
vrrp_script_thread ==
    Idle /\ \E o \in DOMAIN s.scr :
        /\ s.scr[o].state = "idle"
        /\ s' = [s EXCEPT !.scr[o].state = "running", !.scr[o].child = TRUE]

\* It takes too long: it is asked to end, then killed; kill() may find that it is gone.
ScriptTimeout ==
    Idle /\ \E o \in DOMAIN s.scr, gone \in BOOLEAN :
        /\ s.scr[o].child
        /\ LET next == CASE s.scr[o].state = "running" -> "term" [] s.scr[o].state \in {"term", "kill"} -> "kill"
           IN s' = IF gone THEN [s EXCEPT !.scr[o].state = "idle", !.scr[o].child = FALSE]
                   ELSE [s EXCEPT !.scr[o].state = next]

\* One more result: the instances hear of the one that makes or ends a run of rise or fall,
\* and of the first.
Counted(q, o, ok) ==
    LET sc == q.scr[o]
        rise == q.conf.defs[o].rise
        fall == q.conf.defs[o].fall
        Set(r, n) == [r EXCEPT !.scr[o].result = n]
    IN IF ok THEN IF sc.result < rise - 1 THEN Set(q, sc.result + 1)
                  ELSE Set(IF sc.result < rise THEN update_script_priorities(q, o, TRUE) ELSE q, rise + fall - 1)
       ELSE IF sc.result > rise THEN Set(q, sc.result - 1)
       ELSE Set(IF sc.result = rise \/ sc.init \in {"init", "reload"} THEN update_script_priorities(q, o, FALSE) ELSE q, 0)
\* It ends, with a status or by a signal, which is a failure.
vrrp_script_child_thread ==
    Idle /\ \E o \in DOMAIN s.scr, how \in {"success", "failure", "signal"} :
        /\ s.scr[o].child
        /\ s' = [Counted(s, o, how = "success") EXCEPT
                   !.scr[o].state = "idle", !.scr[o].child = FALSE, !.scr[o].init = "done"]

\* The files: a number is written and then the file is closed, or the file goes.  Of what
\* is watched the kernel notes an event, unless the queue is full.
Noted(q, f, what) ==
    IF f \notin q.watched THEN q
    ELSE IF Len(q.q) = MaxQueue THEN [q EXCEPT !.lost = TRUE] ELSE [q EXCEPT !.q = Append(@, <<f, what>>)]
WriteFile ==
    \E f \in DOMAIN s.disk, n \in Numbers :
        /\ s.changes < MaxChanges
        /\ s' = [s EXCEPT !.disk[f] = <<n>>, !.open = @ \cup {f}, !.changes = @ + 1]
\* A file that comes between the call that looks for it and the one that watches it is not
\* known before the next event: raced.
CloseFile ==
    \E f \in s.open :
        LET u == Noted([s EXCEPT !.open = @ \ {f}], f, "written")
        IN s' = IF s.at = "watch" /\ f = Head(s.todo) /\ ~s.exists THEN [u EXCEPT !.raced = @ \cup {f}] ELSE u
RemoveFile ==
    \E f \in DOMAIN s.disk \ s.open :
        /\ s.disk[f] # <<>> /\ s.changes < MaxChanges
        /\ s' = Noted([s EXCEPT !.disk[f] = <<>>, !.changes = @ + 1], f, "gone")

\* Mutant of HandleEvent: a file that is gone keeps its last number.
HandleEvent_keep(q, f, what) ==
    IF what = "gone" THEN update_track_file_status(q, f, 0) ELSE process_track_file(q, f, FALSE)
HandleEvent(q, f, what) ==
    IF what = "gone" THEN [update_track_file_status(q, f, 0) EXCEPT !.last[f] = 0]
    ELSE process_track_file(q, f, FALSE)
\* process_inotify() reads until there is nothing more.
process_inotify ==
    /\ s.at = "run"
    /\ \/ /\ s.q # <<>>
          /\ LET e == Head(s.q)
             IN s' = HandleEvent([s EXCEPT !.q = Tail(@), !.busy = TRUE, !.raced = @ \ {e[1]}], e[1], e[2])
       \/ s.busy /\ s.q = <<>> /\ s' = [s EXCEPT !.busy = FALSE]

\* A reload reads the next configuration.  The scripts that run are killed.
Reload == Idle /\ s.rest # <<>> /\ s' = Begin(Head(s.rest), [s EXCEPT !.rest = Tail(@)], TRUE)

Start(setup, disk, up) ==
    Begin(setup[1],
          [conf |-> setup[1], rest |-> Tail(setup), at |-> "", todo |-> <<>>, exists |-> FALSE, watched |-> {},
           q |-> <<>>, lost |-> FALSE, busy |-> FALSE, raced |-> {}, open |-> {}, changes |-> 0, disk |-> disk,
           tops |-> <<>>, last |-> <<>>, scr |-> <<>>, up |-> up, inst |-> <<>>], FALSE)
Init == \E setup \in Setups :
          LET c == setup[1]
              fs == {o \in DOMAIN c.defs : c.defs[o].kind = "file"}
              os == {o \in DOMAIN c.defs : c.defs[o].kind \in {"if", "process"}}
          IN \E there \in SUBSET fs, up \in [os -> BOOLEAN] :
                s = Start(setup, [f \in fs |-> IF f \in there THEN <<1>> ELSE <<>>], up)
Next == \/ ResolveFile \/ WatchFile \/ ReadFile \/ Started
        \/ InterfaceChanges \/ ProcessChanges \/ vrrp_bfd_thread
        \/ vrrp_script_thread \/ ScriptTimeout \/ vrrp_script_child_thread
        \/ WriteFile \/ CloseFile \/ RemoveFile \/ process_inotify \/ Reload
Spec == Init /\ [][Next]_s

-----------------------------------------------------------------------------
(* What the counts should be.                                              *)

\* The trackers' present state, as the events have told it.
Known(o) == IF s.conf.defs[o].kind = "script" THEN s.scr[o].result >= s.conf.defs[o].rise ELSE s.up[o]
Unknown(o) == s.conf.defs[o].kind = "script" /\ s.scr[o].init \in {"init", "reload"}
Fault(o, t) ==
    CASE s.conf.defs[o].kind = "file" -> NewStatus(s.last[o], t) = -254
      [] s.conf.defs[o].kind = "if" -> FALSE
      [] OTHER -> t.w = 0 /\ ~Unknown(o) /\ Known(o) # (t.m = 1)
Share(o, t) ==
    CASE s.conf.defs[o].kind = "file" -> IF t.w = 0 \/ Fault(o, t) THEN 0 ELSE NewStatus(s.last[o], t)
      [] Unknown(o) -> 0
      [] OTHER -> Level(t, Known(o))
TopsOf(v) == {<<o, i>> \in (DOMAIN s.tops) \X (1 .. 4) : i \in DOMAIN s.tops[o] /\ s.tops[o][i].v = v}
Tracked(o) == \E v \in DOMAIN s.inst : \E x \in TopsOf(v) : x[1] = o

\* The priority of an instance is exactly its base and the shares of all it tracks, the
\* number of its faults that of the things without weight that are down, and of the files
\* that say so; it waits for exactly the scripts that never ended.  An owner stays at 255.
Exact(v) ==
    LET i == s.inst[v]
    IN /\ i.faults = Cardinality({x \in TopsOf(v) : Fault(x[1], s.tops[x[1]][x[2]])})
       /\ i.init = Cardinality({x \in TopsOf(v) : s.tops[x[1]][x[2]].w = 0 /\ s.conf.defs[x[1]].kind = "script"
                                                  /\ s.scr[x[1]].init = "init"})
       /\ \/ i.base = VRRP_PRIO_OWNER /\ i.eff = VRRP_PRIO_OWNER
          \/ /\ i.base # VRRP_PRIO_OWNER
             /\ i.total = i.base + MapThenSumSet(LAMBDA x : Share(x[1], s.tops[x[1]][x[2]]), TopsOf(v))
             /\ (i.faults = 0 => i.eff = Clip(i.total, 1, 254))
       /\ \A x \in TopsOf(v) : (s.conf.defs[x[1]].kind = "if" /\ s.tops[x[1]][x[2]].w = 0)
                               => i.ifdown = (s.up[x[1]] # (s.tops[x[1]][x[2]].m = 1))

\* When the events are read, what is known of a file is the number in it.
FileKnown(f) ==
    \/ s.at # "run" \/ s.lost \/ f \in s.open \cup s.raced \/ ~Tracked(f) \/ ~Valid(Read(s.disk[f]))
    \/ \E k \in DOMAIN s.q : s.q[k][1] = f
    \/ s.last[f] = Read(s.disk[f])

\* A script is never forgotten: it is marked as running exactly when its end is awaited,
\* and its result stays between the limits.
ScriptKept(o) ==
    /\ s.scr[o].child <=> s.scr[o].state # "idle"
    /\ s.scr[o].result \in 0 .. (s.conf.defs[o].rise + s.conf.defs[o].fall - 1)

\* What is tracked is counted exactly, whatever the order of the events, the reloads and
\* the files' changes: priorities and faults by Exact, files by FileKnown, scripts by
\* ScriptKept.
TrackersExact ==
    /\ s.at = "run" => \A v \in DOMAIN s.inst : Exact(v)
    /\ \A f \in DOMAIN s.last : FileKnown(f)
    /\ \A o \in DOMAIN s.scr : ScriptKept(o)
=============================================================================

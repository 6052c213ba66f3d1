--------------------------- MODULE ReloadMonitor ---------------------------
(***************************************************************************)
(* The parent's watch on reload_time_file (core/reload_monitor.c).  The    *)
(* administrator creates, writes, replaces, moves and deletes the file or  *)
(* its directory, and asks for reloads; inotify queues one event for each  *)
(* change, and the parent handles them later, when the file is already     *)
(* another one.  A file holds a moment, a time of day, or text that is no  *)
(* time.  A day lasts Day ticks.                                           *)
(***************************************************************************)
EXTENDS Integers, Sequences

CONSTANTS
  Day,        \* ticks in a day
  Texts,      \* what may be written: records kind ("date", "daily", "bad"), at
  LastTick,   \* bound: last tick
  Changes,    \* bound: things done to the file or its directory, and reloads asked for
  Repeats     \* the values of reload_time_file's "repeat" option

\* A time of day is one of the ticks of a day.
ASSUME MonitorAssumption ==
  /\ Day \in Nat \ {0} /\ Changes \in Nat /\ LastTick \in Nat /\ Repeats \subseteq BOOLEAN
  /\ Texts \subseteq [kind : {"date", "daily", "bad"}, at : Nat]
  /\ \A x \in Texts : x.kind = "daily" => x.at < Day

VARIABLES
  now, left,  \* time, and what the administrator may still do
  repeat,     \* reload_repeat
  dir,        \* the file's directory: "watched", "none", or "other": one that is not watched
  timefile,   \* the file: ino (0: none) and text
  open,       \* a writer has truncated the file and not closed it yet
  queue,      \* inotify events not handled yet
  mode,       \* what became of inotify_thread, see Modes
  watched,    \* inode the kernel reports writes of
  wd,         \* file_wd: the inode the parent believes it watches, 0: -1
  timer,      \* reload_timer_thread, 0: none
  time,       \* global_data->reload_time
  dated,      \* global_data->reload_date_specified
  hup         \* a SIGHUP to the parent is pending

monitorVars == <<now, left, repeat, dir, timefile, open, queue, mode, watched, wd, timer, time,
                 dated, hup>>
disk == <<left, dir, timefile, open>>

\* It waits for events; the timer has closed it (NULL); the directory has disappeared and
\* its descriptor is closed, but the pointer is still set; there was no directory at the
\* start (NULL); no reload_time_file is configured (NULL); the parent has ended.
Modes == {"watching", "fired", "gone", "nodir", "unset", "ended"}
IsNull == mode \notin {"watching", "gone"}

Empty == [kind |-> "bad", at |-> 0]

\* parse_datetime(): a time of day that has passed means tomorrow, a moment that
\* has passed nothing (0).
parse_datetime(text) ==
  CASE text.kind = "date"  -> IF text.at > now THEN text.at ELSE 0
    [] text.kind = "daily" -> LET t == Day * (now \div Day) + text.at
                              IN IF t > now THEN t ELSE t + Day
    [] text.kind = "bad"   -> 0

\* The moment that the file names, 0 if none.
Written == IF timefile.ino = 0 THEN 0 ELSE parse_datetime(timefile.text)

\* read_file(), with cancel_reload() when it is missing, empty, wrong or past.
read_file ==
  /\ timer' = IF Written # time \/ Written = 0 THEN Written ELSE timer
  /\ time'  = IF Written = 0 /\ timer = 0 THEN time ELSE Written
  /\ dated' = IF Written = 0 THEN dated ELSE timefile.text.kind = "date"

cancel_reload == timer' = 0 /\ time' = (IF timer = 0 THEN time ELSE 0) /\ UNCHANGED dated

\* watch_file(): inotify_add_watch, and read_file if that found a file.
watch_file ==
  /\ wd' = timefile.ino
  /\ watched' = IF timefile.ino = 0 THEN watched ELSE timefile.ino
  /\ IF timefile.ino = 0 THEN UNCHANGED <<timer, time, dated>> ELSE read_file

\* start_reload_monitor(), with what global_data has for reload_time and
\* reload_date_specified.  The timer is not set: the monitor has been stopped.
start_reload_monitor(t, d) ==
  /\ queue' = <<>>
  /\ \/ /\ dir = "none" /\ mode' = "nodir" /\ watched' = 0
        /\ timer' = 0 /\ time' = t /\ dated' = d
        /\ UNCHANGED <<dir, wd>>
     \/ /\ dir # "none" /\ mode' = "watching" /\ dir' = "watched"
        /\ wd' = timefile.ino /\ watched' = timefile.ino
        /\ timer' = IF Written # t THEN Written ELSE 0
        /\ time' = IF Written = 0 THEN t ELSE Written
        /\ dated' = IF Written = 0 THEN d ELSE timefile.text.kind = "date"

InitMonitor ==
  /\ now = 0 /\ left = Changes /\ repeat \in Repeats
  /\ dir = "watched" /\ timefile = [ino |-> 0, text |-> Empty] /\ open = FALSE
  /\ queue = <<>> /\ mode = "watching" /\ watched = 0 /\ wd = 0
  /\ timer = 0 /\ time = 0 /\ dated = FALSE /\ hup = FALSE

(***************************************************************************)
(* The administrator, and the kernel's events                              *)
(***************************************************************************)
Tell(e) == queue' = IF mode = "watching" THEN Append(queue, e) ELSE queue
TellDir(what) ==
  IF dir = "watched" THEN Tell([what |-> what, wd |-> 0]) ELSE UNCHANGED queue
NewIno == Changes - left + 1
Admin ==
  /\ mode # "ended"
  /\ left > 0 /\ left' = left - 1
  /\ UNCHANGED <<now, repeat, mode, wd, timer, time, dated>>

\* The shell's > file: open with O_CREAT | O_TRUNC ...
OpenFile ==
  /\ Admin /\ ~open /\ open' = TRUE /\ dir # "none"
  /\ IF timefile.ino = 0
     THEN timefile' = [ino |-> NewIno, text |-> Empty] /\ TellDir("CREATE")
     ELSE timefile' = [timefile EXCEPT !.text = Empty] /\ UNCHANGED queue
  /\ UNCHANGED <<dir, watched, hup>>

\* ... write and close.
CloseFile(text) ==
  /\ open /\ open' = FALSE
  /\ timefile' = [timefile EXCEPT !.text = text]
  /\ IF watched = timefile.ino THEN Tell([what |-> "CLOSE_WRITE", wd |-> watched]) ELSE UNCHANGED queue
  /\ UNCHANGED <<now, left, repeat, dir, mode, watched, wd, timer, time, dated, hup>>

\* mv onto the file: the old file and its watch go.
Replace(text) ==
  /\ Admin /\ ~open /\ dir # "none"
  /\ timefile' = [ino |-> NewIno, text |-> text]
  /\ watched' = IF watched = timefile.ino THEN 0 ELSE watched
  /\ TellDir("MOVED_TO")
  /\ UNCHANGED <<dir, open, hup>>

\* rm, or mv away from the file.
RemoveFile ==
  /\ Admin /\ ~open /\ timefile.ino # 0
  /\ timefile' = [ino |-> 0, text |-> Empty]
  /\ watched' = IF watched = timefile.ino THEN 0 ELSE watched
  /\ TellDir("DELETE")
  /\ UNCHANGED <<dir, open, hup>>

\* The directory is renamed, with what is in it, or removed.  What is written to the file
\* under its new name is reported after this event, when nobody reads it any more.
RemoveDir ==
  /\ Admin /\ ~open /\ dir # "none"
  /\ dir' = "none" /\ timefile' = [ino |-> 0, text |-> Empty] /\ watched' = 0
  /\ TellDir("GONE")
  /\ UNCHANGED <<open, hup>>

MakeDir ==
  /\ Admin /\ dir = "none" /\ dir' = "other"
  /\ UNCHANGED <<timefile, open, queue, watched, hup>>

\* keepalived is asked to reload.
Sighup == Admin /\ ~hup /\ hup' = TRUE /\ UNCHANGED <<dir, timefile, open, queue, watched>>

\* The timer has run out; it is served before time goes on.
TimeDue == timer # 0 /\ timer <= now

Tick ==
  /\ now < LastTick /\ ~TimeDue
  /\ now' = now + 1
  /\ UNCHANGED <<disk, repeat, queue, mode, watched, wd, timer, time, dated, hup>>

(***************************************************************************)
(* The parent                                                              *)
(***************************************************************************)
\* Mutant: a file that appears is watched, but not read.
inotify_event_no_read ==
  /\ mode = "watching" /\ queue # <<>>
  /\ LET e == Head(queue)
     IN \/ /\ e.what = "CLOSE_WRITE"
           /\ IF wd # 0 /\ e.wd = wd THEN read_file ELSE UNCHANGED <<timer, time, dated>>
           /\ queue' = Tail(queue)
           /\ UNCHANGED <<mode, wd, watched>>
        \/ /\ e.what \in {"CREATE", "MOVED_TO"}
           /\ wd' = timefile.ino
           /\ watched' = IF timefile.ino = 0 THEN watched ELSE timefile.ino
           /\ UNCHANGED <<timer, time, dated>>
           /\ queue' = Tail(queue)
           /\ UNCHANGED mode
        \/ /\ e.what = "DELETE"
           /\ watched' = IF watched = wd THEN 0 ELSE watched
           /\ wd' = 0
           /\ cancel_reload
           /\ queue' = Tail(queue)
           /\ UNCHANGED mode
        \/ /\ e.what = "GONE"
           /\ cancel_reload
           /\ mode' = "gone" /\ watched' = 0 /\ queue' = <<>>
           /\ UNCHANGED wd
  /\ UNCHANGED <<now, disk, repeat, hup>>

\* inotify_event_thread(), one event of the queue.  When the directory has gone the
\* descriptor is closed with what is still in its queue.
inotify_event ==
  /\ mode = "watching" /\ queue # <<>>
  /\ LET e == Head(queue)
     IN \/ /\ e.what = "CLOSE_WRITE"
           /\ IF wd # 0 /\ e.wd = wd THEN read_file ELSE UNCHANGED <<timer, time, dated>>
           /\ queue' = Tail(queue)
           /\ UNCHANGED <<mode, wd, watched>>
        \/ /\ e.what \in {"CREATE", "MOVED_TO"}
           /\ watch_file
           /\ queue' = Tail(queue)
           /\ UNCHANGED mode
        \/ /\ e.what = "DELETE"
           /\ watched' = IF watched = wd THEN 0 ELSE watched
           /\ wd' = 0
           /\ cancel_reload
           /\ queue' = Tail(queue)
           /\ UNCHANGED mode
        \/ /\ e.what = "GONE"
           /\ cancel_reload
           /\ mode' = "gone" /\ watched' = 0 /\ queue' = <<>>
           /\ UNCHANGED wd
  /\ UNCHANGED <<now, disk, repeat, hup>>

\* reload_timer_thread(): stop watching, delete the file unless it repeats, and
\* send ourselves a SIGHUP.
reload_timer ==
  /\ TimeDue
  /\ timer' = 0 /\ mode' = "fired" /\ queue' = <<>> /\ watched' = 0
  /\ timefile' = IF repeat /\ ~dated THEN timefile ELSE [ino |-> 0, text |-> Empty]
  /\ open' = (open /\ timefile'.ino # 0)
  /\ hup' = TRUE
  /\ UNCHANGED <<now, left, repeat, dir, wd, time, dated>>

\* What stop_reload_monitor() leaves in reload_time.  In "gone" it cancels a thread that
\* has been freed and closes its descriptor again: others may have got both since, but
\* none of them is the monitor's.
StoppedTime == IF IsNull \/ timer = 0 THEN time ELSE 0

\* reload_config(): the monitor is stopped, and started again if the new configuration
\* has a reload_time_file.
Reload(r, wanted) ==
  /\ hup /\ hup' = FALSE /\ mode # "ended"
  /\ repeat' = r
  /\ IF wanted
     THEN start_reload_monitor(0, FALSE)
     ELSE /\ mode' = "unset" /\ queue' = <<>> /\ watched' = 0
          /\ timer' = 0 /\ time' = 0 /\ dated' = FALSE /\ UNCHANGED <<dir, wd>>
  /\ UNCHANGED <<now, left, timefile, open>>

\* reload_config() with a change that is not supported: the old global_data stays.
ReloadKeeps ==
  /\ hup /\ hup' = FALSE /\ mode \notin {"ended", "unset"}
  /\ start_reload_monitor(StoppedTime, dated)
  /\ UNCHANGED <<now, left, repeat, timefile, open>>

\* The reload is refused before reload_config(), by the check of the configuration: the
\* monitor stays as it is.
ReloadRefused ==
  /\ hup /\ hup' = FALSE /\ mode # "ended"
  /\ UNCHANGED <<now, disk, repeat, queue, mode, watched, wd, timer, time, dated>>

\* sigend()
Sigend ==
  /\ mode # "ended" /\ mode' = "ended"
  /\ queue' = <<>> /\ watched' = 0
  /\ timer' = (IF IsNull THEN timer ELSE 0) /\ time' = StoppedTime
  /\ UNCHANGED <<now, disk, repeat, wd, dated, hup>>

NextMonitor ==
  \/ OpenFile \/ RemoveFile \/ RemoveDir \/ MakeDir \/ Sighup \/ Tick
  \/ \E text \in Texts : CloseFile(text) \/ Replace(text)
  \/ inotify_event \/ reload_timer
  \/ \E r \in Repeats : \E wanted \in BOOLEAN : Reload(r, wanted)
  \/ ReloadKeeps \/ ReloadRefused \/ Sigend

MonitorSpec == InitMonitor /\ [][NextMonitor]_monitorVars

\* Once every event is handled, a reload is scheduled for the moment that the file
\* now on disk names and for no other, whatever was done to it and to its directory in
\* the meantime.  The monitor that reload_timer_thread(), the loss of the directory or a
\* new configuration has stopped has no reload scheduled.
ScheduledAsWritten ==
  /\ mode = "watching" /\ queue = <<>> /\ ~open /\ ~TimeDue =>
       /\ dir = "watched" /\ wd = timefile.ino /\ watched = wd
       /\ timer = Written
  /\ mode # "watching" => timer = 0

(***************************************************************************)
(* The inductive invariant: what the parent does not know yet is in the    *)
(* queue.  The last event of the directory tells whether there is a file.  *)
(***************************************************************************)
Notices == [what : {"CREATE", "MOVED_TO", "DELETE", "GONE", "CLOSE_WRITE"}, wd : Nat]
MonitorType ==
  /\ now \in Nat /\ left \in 0..Changes /\ repeat \in BOOLEAN
  /\ dir \in {"watched", "none", "other"} /\ mode \in Modes
  /\ timefile \in [ino : Nat, text : Texts \cup {Empty}]
  /\ open \in BOOLEAN /\ dated \in BOOLEAN /\ hup \in BOOLEAN
  /\ queue \in Seq(Notices)
  /\ watched \in Nat /\ wd \in Nat /\ timer \in Nat /\ time \in Nat

\* An event of the directory: the file has come, or gone.
Named(i) == queue[i].what # "CLOSE_WRITE"
NonePending == \A i \in 1..Len(queue) : ~Named(i)
Rewritten == \E i \in 1..Len(queue) : ~Named(i) /\ queue[i].wd = timefile.ino
Watching == mode = "watching" /\ dir = "watched"

MonitorInv ==
  /\ MonitorType
  /\ open => timefile.ino # 0
  /\ dir = "none" => timefile.ino = 0
  /\ watched \in {0, timefile.ino}
  /\ \A i \in 1..Len(queue) : Named(i) <=> queue[i].wd = 0
  /\ mode # "watching" => queue = <<>> /\ timer = 0
  /\ time = timer \/ (timer = 0 /\ time <= now)
  /\ mode = "watching" => (dir = "watched" <=> \A i \in 1..Len(queue) : queue[i].what # "GONE")
  /\ Watching /\ NonePending => wd = timefile.ino /\ watched = timefile.ino
  /\ Watching => \A i \in 1..Len(queue) :
       Named(i) /\ (\A j \in (i + 1)..Len(queue) : ~Named(j))
         => (queue[i].what = "DELETE" <=> timefile.ino = 0)
  /\ Watching /\ ~open /\ ~TimeDue /\ NonePending => timer = Written \/ Rewritten

=============================================================================

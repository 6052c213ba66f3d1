----------------------------- MODULE SmtpAlert -----------------------------
(***************************************************************************)
(* An alert that is sent by mail (core/smtp.c): the connection to the mail *)
(* server, and the commands HELO, MAIL, RCPT, DATA, the message, and QUIT, *)
(* each sent when the server has answered the one before.  The state of an *)
(* alert is held by one allocation and one socket, which exactly one       *)
(* thread of the scheduler refers to; a reload destroys the threads.       *)
(*                                                                         *)
(* The server answers the commands in order, with the code that the alert  *)
(* expects or another one, after any delay, in answers of one or several   *)
(* lines that arrive in pieces; or it closes the connection.  The texts    *)
(* are left out, but for the code of a line and whether another follows.   *)
(***************************************************************************)
EXTENDS Integers, Sequences, SequencesExt

CONSTANTS
  Emails,       \* numbers of recipients that a configuration may have
  MaxAlerts,
  MaxQuits      \* bound: the server closes the connection rather than answer more of them

VARIABLE s

Idle == [stage |-> "", fd |-> 0, mem |-> 0, pend |-> <<>>, next |-> 0, buf |-> <<>>, half |-> FALSE,
         wire |-> <<>>, todo |-> <<>>, closed |-> FALSE, sent |-> <<>>, ok |-> <<>>]

Init == s \in [emails : Emails, server : BOOLEAN, alerts : {0}, a : {Idle}]

\* SMTP_FSM: the code that each stage expects; the stages are numbered in this order.
Stages == <<"CONNECT", "HELO", "MAIL", "RCPT", "DATA", "BODY", "QUIT", "END">>
Expected == [CONNECT |-> "220", HELO |-> "250", MAIL |-> "250", RCPT |-> "250", DATA |-> "354", BODY |-> "250",
             QUIT |-> "221"]
Successor(stage) == Stages[(CHOOSE i \in 1 .. 7 : Stages[i] = stage) + 1]

-----------------------------------------------------------------------------
(* The alert *)

\* The socket is closed and the data freed.
close_and_free(a) == [Idle EXCEPT !.pend = a.pend]
thread_add(a, f) == [a EXCEPT !.pend = Append(@, f)]

\* The command of a stage.  rcpt_cmd() names the next recipient and moves on.
SMTP_FSM_SEND(a, emails) ==
    LET cmd == IF a.stage = "RCPT" THEN <<"RCPT", a.next>> ELSE <<a.stage>>
        b == IF a.stage # "RCPT" THEN a ELSE [a EXCEPT !.next = IF @ = emails THEN 0 ELSE @ + 1]
    IN [b EXCEPT !.sent = Append(@, cmd), !.todo = Append(@, cmd)]

\* Failing to send ends the alert.
smtp_send(a, emails, sent) ==
    IF sent THEN thread_add(SMTP_FSM_SEND(a, emails), "smtp_read") ELSE close_and_free(a)

connection_success(a) == thread_add([a EXCEPT !.stage = "CONNECT", !.todo = <<<<"CONNECT">>>>], "smtp_read")

\* smtp_connect(), and smtp_alert() which does nothing unless there is a recipient and
\* a server.
smtp_connect(a, o) ==
    LET b == [a EXCEPT !.mem = 1, !.fd = 1, !.next = 1]
    IN CASE o = "in_progress" -> thread_add(b, "connection_in_progress")
         [] o = "success" -> connection_success(b)
         [] OTHER -> close_and_free(b)

smtp_alert ==
    /\ s.alerts < MaxAlerts /\ s.a.mem = 0
    /\ \E o \in {"no_socket", "in_progress", "success", "fail"} :
         s' = [s EXCEPT !.alerts = @ + 1,
                        !.a = IF s.emails = 0 \/ ~s.server THEN @ ELSE smtp_connect(Idle, o)]

\* connection_in_progress(), with connection_error() and connection_timeout(), for which
\* socket_state() has closed the socket.
connection_in_progress(a, o) ==
    CASE o = "success" -> connection_success(a)
      [] o = "in_progress" -> thread_add(a, "connection_in_progress")
      [] OTHER -> close_and_free(a)

Connection ==
    /\ s.a.pend = <<"connection_in_progress">>
    /\ \E o \in {"timeout", "write_error", "success", "in_progress", "refused"} :
         s' = [s EXCEPT !.a = connection_in_progress([@ EXCEPT !.pend = <<>>], o)]

\* smtp_read_thread(), when the wait or the read fails.  An alert that waits too long
\* for the answer to its QUIT ends.
read_failed(a, emails, o, sent) ==
    CASE o \in {"read_error", "eof"} \/ (o = "timeout" /\ a.stage = "QUIT") -> close_and_free(a)
      [] o = "again" -> thread_add(a, "smtp_read")
      [] o = "overflow" -> smtp_send([a EXCEPT !.buf = <<>>, !.half = FALSE, !.stage = "QUIT"], emails, sent)
      [] OTHER -> smtp_send([a EXCEPT !.stage = "QUIT"], emails, sent)

\* rcpt_code(): there is another RCPT for every recipient.
read_code_stops(a, emails, code) ==
    IF code # Expected[a.stage] THEN "QUIT" ELSE Successor(a.stage)
read_code_skips(a, emails, code) ==
    IF code # Expected[a.stage] /\ a.stage # "RCPT" THEN "QUIT"
    ELSE IF a.stage = "RCPT" /\ a.next # 0 THEN "RCPT" ELSE Successor(a.stage)

read_code(a, emails, code) ==
    IF code # Expected[a.stage] THEN "QUIT"
    ELSE IF a.stage = "RCPT" /\ a.next # 0 THEN "RCPT" ELSE Successor(a.stage)

\* The rest of smtp_read_thread(): the code is the one of the first line that is complete
\* and that no other follows; what comes after it stays in the buffer.
read_lines(a, emails, lines, half, sent) ==
    LET all == a.buf \o lines
        last == SelectInSeq(all, LAMBDA l : l # "more")
        b == [a EXCEPT !.half = half, !.buf = IF last = 0 THEN <<>> ELSE SubSeq(all, last + 1, Len(all))]
        stage == read_code(a, emails, all[last])
    IN IF last = 0 THEN thread_add(b, "smtp_read")
       ELSE IF stage = "END" THEN close_and_free([b EXCEPT !.stage = "END"])
       ELSE smtp_send([b EXCEPT !.stage = stage], emails, sent)

\* Time passes for a thread whose socket has nothing for it only.
ReadFails ==
    /\ s.a.pend = <<"smtp_read">>
    /\ \E o \in {"timeout", "read_error", "eof", "again", "error", "overflow"}, sent \in BOOLEAN :
         /\ o = "timeout" => s.a.wire = <<>>
         /\ o = "eof" => s.a.closed /\ s.a.wire = <<>>
         /\ o \in {"read_error", "error"} => s.a.closed
         /\ o = "overflow" => s.a.wire # <<>> /\ "long" = Head(s.a.wire)
         /\ sent \/ s.a.closed
         /\ o = "error" => ~sent
         /\ s' = [s EXCEPT !.a = read_failed([@ EXCEPT !.pend = <<>>,
                                     !.wire = IF o = "overflow" THEN <<"rest">> \o Tail(@) ELSE @],
                                     s.emails, o, sent)]

ReadLines ==
    /\ s.a.pend = <<"smtp_read">>
    /\ \E n \in 0 .. Len(s.a.wire), half \in BOOLEAN, sent \in BOOLEAN :
         /\ "long" \notin Range(SubSeq(s.a.wire, 1, n))
         /\ n = 0 => half /\ ~s.a.half
         /\ half => n < Len(s.a.wire)
         /\ sent \/ s.a.closed
         /\ s' = [s EXCEPT !.a = read_lines([@ EXCEPT !.pend = <<>>, !.wire = SubSeq(@, n + 1, Len(@))],
                                            s.emails, SubSeq(s.a.wire, 1, n), half, sent)]

-----------------------------------------------------------------------------
(* The server and the reload *)

Quits == Len(SelectSeq(s.a.sent, LAMBDA c : c = <<"QUIT">>))

\* The answer to a command: the code it expects or another, after more lines or a line
\* that is too long for the alert.
Answer ==
    /\ s.a.mem = 1 /\ ~s.a.closed /\ s.a.todo # <<>> /\ Len(s.a.wire) < 3
    /\ Quits <= MaxQuits
    /\ LET cmd == Head(s.a.todo)
       IN \E code \in {Expected[cmd[1]], "554"}, before \in {<<>>, <<"more">>, <<"long">>} :
            s' = [s EXCEPT !.a.wire = @ \o (IF before = <<"long">> THEN before ELSE Append(before, code)),
                           !.a.todo = Tail(@),
                           !.a.ok = IF code = Expected[cmd[1]] /\ before # <<"long">> THEN Append(@, cmd) ELSE @]

Close ==
    /\ s.a.mem = 1 /\ ~s.a.closed /\ s.a.stage # ""
    /\ s' = [s EXCEPT !.a.closed = TRUE]

\* The threads are destroyed with the socket and the data they were added with.
Reload ==
    /\ s.a.pend # <<>>
    /\ \E n \in Emails, server \in BOOLEAN :
         s' = [s EXCEPT !.emails = n, !.server = server, !.a = close_and_free([@ EXCEPT !.pend = <<>>])]

Next == smtp_alert \/ Connection \/ ReadFails \/ ReadLines \/ Answer \/ Close \/ Reload

-----------------------------------------------------------------------------
\* An alert is never forgotten: while its data or its socket exist, exactly one thread
\* has them, whatever happens to the connection and whenever a reload comes.
OneThread == s.a.mem = s.a.fd /\ Len(s.a.pend) = s.a.mem

\* The mail server is given the message only after it has accepted the sender and each
\* recipient that is configured, once and in order, even though answers are late or come
\* in pieces; and once an alert gives up it sends nothing else than QUIT.
AlertSound ==
    LET rcpts == [i \in 1 .. s.emails |-> <<"RCPT", i>>]
        head == <<<<"HELO">>, <<"MAIL">>>> \o rcpts \o <<<<"DATA">>>>
    IN /\ OneThread
       /\ s.a.mem = 1 =>
            /\ <<"BODY">> \in Range(s.a.sent) =>
                 /\ IsPrefix(Append(head, <<"BODY">>), s.a.sent)
                 /\ IsPrefix(<<<<"CONNECT">>>> \o head, s.a.ok)
            /\ \A i, j \in 1 .. Len(s.a.sent) : i < j /\ s.a.sent[i] = <<"QUIT">> => s.a.sent[j] = <<"QUIT">>
=============================================================================

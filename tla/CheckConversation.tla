------------------------- MODULE CheckConversation -------------------------
(***************************************************************************)
(* One health checker and the conversation it has with its server: TCP,    *)
(* UDP, DNS, PING, SMTP, HTTP_GET and SSL_GET checks (check_*.c, layer4.c).*)
(*                                                                         *)
(* A conversation is a chain of scheduler threads.  Each one runs when its *)
(* timer expires, when its socket is ready or when that takes too long,    *)
(* and must leave exactly one successor.  What the socket calls return is  *)
(* the environment's choice.  Delays, and the bytes that are exchanged     *)
(* except for what a check looks at, are left out.                         *)
(*                                                                         *)
(* The address of the virtual server comes and goes (ha_suspend), and the  *)
(* configuration is reloaded.  A thread that is ready is run before its    *)
(* own timeout passes.                                                     *)
(***************************************************************************)
EXTENDS Integers, Sequences

CONSTANTS
  Confs,        \* kind, retry, urls, reply, fast, suspend, up
  MaxFd,        \* bound on open sockets
  MaxReloads,
  MaxFlips      \* bound on changes of the address

VARIABLE s

MaxLen == 1     \* reads that fill the buffer of an HTTP check

Launch == [tcp |-> "tcp_connect", udp |-> "udp_connect", dns |-> "dns_connect", ping |-> "icmp_connect",
           smtp |-> "smtp_start_check", http |-> "http_connect", ssl |-> "http_connect"]

\* Threads that begin a conversation.
Starts == {"tcp_connect", "udp_connect", "dns_connect", "icmp_connect", "smtp_start_check", "smtp_connect",
           "http_connect"}

-----------------------------------------------------------------------------
(* The scheduler and the sockets, as the checks use them.                  *)

thread_add(q, f, w, fd) == [q EXCEPT !.pend = Append(@, [f |-> f, w |-> w, fd |-> fd])]
thread_add_timer(q, f) == thread_add(q, f, "timer", 0)

\* A thread whose event is removed after it has been registered: thread_event_cancel()
\* frees the event, the thread stays and points to it.
thread_add_stale(q, f, fd) == thread_add(q, f, "stale", fd)
Stale(th) == th.w = "stale"

\* The one that smtp_check_thread() leaves: its socket is closed, and the time that
\* socket_state() gives it, the negated rest of the timeout, never passes.
Dead(th) == Stale(th) /\ th.f = "smtp_check"
Live(q) == SelectSeq(q.pend, LAMBDA th : ~Dead(th))
thread_close_fd(q, fd) == [q EXCEPT !.fds = @ \ {fd}]
FreeFd(q) == CHOOSE n \in 1 .. MaxFd : n \notin q.fds
socket(q) == [q EXCEPT !.fds = @ \cup {FreeFd(q)}]

\* update_svr_checker_state(): the kernel may refuse what the state asks for.
update_svr_checker_state(q, up, kernel) ==
    [q EXCEPT !.has_run = TRUE, !.is_up = IF kernel THEN up ELSE @]

\* tcp_epilog(), udp_epilog() and the first part of icmp_epilog().
count_result(q, ok, kernel) ==
    LET news == q.is_up \/ ~q.has_run
        done == ok \/ (news /\ q.retry_it >= q.conf.retry)
        r == IF done THEN [q EXCEPT !.retry_it = 0]
             ELSE [q EXCEPT !.retry_it = IF q.is_up THEN @ + 1 ELSE @]
        v == IF ok /\ (~q.is_up \/ ~q.has_run) THEN update_svr_checker_state(r, TRUE, kernel)
             ELSE IF ~ok /\ done THEN update_svr_checker_state(r, FALSE, kernel) ELSE r
    IN [v EXCEPT !.has_run = TRUE]

\* What socket_bind_connect() and the socket() before it may return, udp_bind_connect()
\* (the connection of a datagram socket is immediate), socket_state(), and
\* udp_socket_state() with udp_socket_error().
Connects == {"success", "in_progress", "unreachable", "bind_error", "no_socket"}
UdpConnects == {"success", "bind_error", "no_socket"}
States == {"connected", "in_progress", "timeout", "refused"}
UdpStates == {"timeout", "unreachable", "soft_error", "recv_error", "match", "mismatch"}

\* ping_it() and ping6_it(), recv_it() and recv6_it(), ssl_connect().
Pings == {"sent", "send_error"}
Echoes == {"echo", "other", "timeout"}
Handshakes == {"want_read", "want_write", "handshake"}

-----------------------------------------------------------------------------
(* TCP_CHECK and UDP_CHECK                                                 *)

tcp_epilog(q, ok, kernel) == thread_add_timer(count_result(q, ok, kernel), "tcp_connect")

tcp_connect_thread(q, o, kernel) ==
    IF ~q.enabled \/ o \in {"no_socket", "bind_error"} THEN thread_add_timer(q, "tcp_connect")
    ELSE IF o = "unreachable" THEN tcp_epilog(q, FALSE, kernel)
    ELSE thread_add(socket(q), "tcp_check", "write", FreeFd(q))

\* socket_state() has registered the thread again for a connection that is in progress.
tcp_check_thread(q, fd, o, kernel) ==
    IF o = "in_progress" THEN thread_add(q, "tcp_check", "write", fd)
    ELSE tcp_epilog(thread_close_fd(q, fd), o = "connected", kernel)

udp_epilog(q, ok, kernel) == thread_add_timer(count_result(q, ok, kernel), "udp_connect")

udp_connect_thread(q, o, kernel) ==
    IF ~q.enabled \/ o = "no_socket" THEN thread_add_timer(q, "udp_connect")
    ELSE IF o # "success" THEN udp_epilog(q, FALSE, kernel)
    ELSE thread_add(socket(q), "udp_check", "read", FreeFd(q))

\* No answer is a success, unless a reply is required; an error that is not an
\* ICMP "unreachable" is one too, unless the reply has to have some content.
udp_socket_state(q, o) ==
    CASE o = "timeout" -> q.conf.reply = "none"
      [] o = "soft_error" -> TRUE
      [] o \in {"unreachable", "recv_error"} -> FALSE
      [] OTHER -> TRUE

check_udp_reply(q, o) == q.conf.reply = "data" => o = "match"

udp_check_thread(q, fd, o, kernel) ==
    udp_epilog(thread_close_fd(q, fd), udp_socket_state(q, o) /\ check_udp_reply(q, o), kernel)

-----------------------------------------------------------------------------
(* PING_CHECK: the socket is kept as long as the server answers.           *)

icmp_epilog(q, fd, ok, kernel) ==
    LET c == count_result(q, ok, kernel)
    IN IF ok THEN thread_add(c, "icmp_ping", "read", fd)
       ELSE thread_add_timer(thread_close_fd(c, fd), "icmp_connect")

icmp_connect_thread(q, o) ==
    IF ~q.enabled \/ o = "no_socket" THEN thread_add_timer(q, "icmp_connect")
    ELSE thread_add(socket(q), "icmp_ping", "read", FreeFd(q))

\* The wait is over and an echo request is sent; a reply that nobody waits for is
\* dropped; after an error the socket is opened again.
icmp_ping_thread(q, fd, o, kernel) ==
    CASE o = "sent" -> thread_add(q, "icmp_check", "read", fd)
      [] o = "send_error" -> icmp_epilog(q, fd, FALSE, kernel)
      [] o = "stray" -> thread_add(q, "icmp_ping", "read", fd)
      [] OTHER -> thread_add_timer(thread_close_fd(q, fd), "icmp_connect")

icmp_check_thread(q, fd, o, kernel) == icmp_epilog(q, fd, o = "echo", kernel)

-----------------------------------------------------------------------------
(* DNS_CHECK                                                               *)

dns_verdict(q, ok, kernel) ==
    LET failing == q.is_up \/ ~q.has_run
        v == IF ~ok /\ failing THEN update_svr_checker_state(q, FALSE, kernel)
             ELSE IF ok /\ (~q.is_up \/ ~q.has_run) THEN update_svr_checker_state(q, TRUE, kernel)
             ELSE q
    IN IF ~ok /\ failing /\ q.retry_it < q.conf.retry
       THEN thread_add_timer([q EXCEPT !.retry_it = @ + 1, !.has_run = TRUE], "dns_connect")
       ELSE thread_add_timer([v EXCEPT !.retry_it = 0], "dns_connect")

\* "timed" is THREAD_READY_TIMER: the thread is not one that has a socket to close.
dns_final(q, fd, timed, ok, kernel) ==
    dns_verdict(IF timed THEN q ELSE thread_close_fd(q, fd), ok, kernel)

dns_send(q, fd, timed, o, kernel) ==
    CASE o = "sent" -> thread_add(q, "dns_recv", "read", fd)
      [] o = "again" -> thread_add(q, "dns_send", "write", fd)
      [] OTHER -> dns_final(q, fd, timed, FALSE, kernel)

\* connect() of a datagram socket is immediate: the query is sent by a copy of the
\* timer thread.
dns_connect_thread(q, o, kernel) ==
    IF ~q.enabled \/ o \in {"no_socket", "bind_error"} THEN thread_add_timer(q, "dns_connect")
    ELSE IF o = "unreachable" THEN dns_final(q, 0, TRUE, FALSE, kernel)
    ELSE IF o = "in_progress" THEN thread_add(socket(q), "dns_check", "write", FreeFd(q))
    ELSE dns_send(socket(q), FreeFd(q), TRUE, o, kernel)

\* The event of a query that has to wait goes with thread_del_write(), that of a thread
\* which waits for the answer does not.
dns_check_thread(q, fd, o, kernel) ==
    CASE o \in {"timeout", "refused"} -> dns_final(q, fd, FALSE, FALSE, kernel)
      [] o = "in_progress" -> thread_add(q, "dns_check", "write", fd)
      [] o = "again" -> thread_add_stale(q, "dns_send", fd)
      [] OTHER -> dns_send(q, fd, FALSE, o, kernel)

dns_send_thread(q, fd, o, kernel) ==
    IF o = "timeout" THEN dns_final(q, fd, FALSE, FALSE, kernel) ELSE dns_send(q, fd, FALSE, o, kernel)

\* A datagram that is too short, has another id or is a query is skipped.
dns_recv_thread(q, fd, o, kernel) ==
    CASE o = "skip" -> thread_add(q, "dns_recv", "read", fd)
      [] o = "answer" -> dns_final(q, fd, FALSE, TRUE, kernel)
      [] OTHER -> dns_final(q, fd, FALSE, FALSE, kernel)

-----------------------------------------------------------------------------
(* SMTP_CHECK                                                              *)

smtp_final_forgets(q, fd, ok, kernel) == [thread_close_fd(q, fd) EXCEPT !.is_up = ok]

smtp_final(q, fd, ok, kernel) ==
    LET c == [thread_close_fd(q, fd) EXCEPT !.retry_it = IF ok THEN 0 ELSE @ + 1]
        news == IF ok THEN ~q.is_up \/ ~q.has_run ELSE q.is_up \/ ~q.has_run
        v == IF news THEN update_svr_checker_state(c, ok, kernel) ELSE c
    IN IF ~ok /\ c.retry_it <= q.conf.retry THEN thread_add_timer(c, "smtp_connect")
       ELSE thread_add_timer([v EXCEPT !.has_run = @ \/ ok], "smtp_start_check")

smtp_connect_thread(q, o, kernel) ==
    IF ~q.enabled \/ o \in {"no_socket", "bind_error"} THEN thread_add_timer(q, "smtp_start_check")
    ELSE IF o = "unreachable" THEN smtp_final(q, 0, FALSE, kernel)
    ELSE thread_add(socket(q), "smtp_check", "write", FreeFd(q))

smtp_start_check_thread(q, o, kernel) == smtp_connect_thread([q EXCEPT !.retry_it = 0], o, kernel)

smtp_get_line(q, fd, state) == thread_add([q EXCEPT !.state = state], "smtp_get_line", "read", fd)

\* smtp_put_line_cb(): once the line is written the engine waits for the answer.
smtp_put_line(q, fd, wr, kernel) ==
    CASE wr = "again" -> thread_add(q, "smtp_put_line", "write", fd)
      [] wr \in {"write_error", "timeout"} -> smtp_final(q, fd, FALSE, kernel)
      [] OTHER -> smtp_get_line(q, fd, IF q.state = "SENT_HELO" THEN "RECV_HELO" ELSE "RECV_QUIT")

\* smtp_engine_thread(), called with a line of the server.
smtp_engine(q, fd, line, wr, kernel) ==
    CASE q.state = "HAVE_BANNER" /\ line = "220" -> smtp_put_line([q EXCEPT !.state = "SENT_HELO"], fd, wr, kernel)
      [] q.state = "RECV_HELO" /\ line = "250" -> smtp_put_line([q EXCEPT !.state = "SENT_QUIT"], fd, wr, kernel)
      [] OTHER -> smtp_final(q, fd, q.state = "RECV_QUIT", kernel)

\* A connection that is in progress is taken for one that failed, although socket_state()
\* has registered the thread again.
smtp_check_thread(q, fd, o, kernel) ==
    CASE o = "connected" -> smtp_get_line(q, fd, "HAVE_BANNER")
      [] o = "in_progress" -> smtp_final(thread_add_stale(q, "smtp_check", fd), fd, FALSE, kernel)
      [] OTHER -> smtp_final(q, fd, FALSE, kernel)

smtp_get_line_cb(q, fd, o, wr, kernel) ==
    CASE o \in {"timeout", "closed"} -> smtp_final(q, fd, FALSE, kernel)
      [] o \in {"again", "part"} -> thread_add(q, "smtp_get_line", "read", fd)
      [] OTHER -> smtp_engine(q, fd, o, wr, kernel)

-----------------------------------------------------------------------------
(* HTTP_GET and SSL_GET: one conversation per URL.  url_it is the URL to   *)
(* fetch, failed the one that took the server down (0: none).              *)

NoReq == [on |-> FALSE, extracted |-> FALSE, status |-> FALSE, junk |-> FALSE, len |-> 0]

\* url_it after epilog(REGISTER_CHECKER_NEW): the next URL, or the end of the list.
AfterUrl(q) == IF q.url_it = q.conf.urls THEN 0 ELSE q.url_it + 1

\* epilog(REGISTER_CHECKER_NEW), were any URL that is well enough to come back.
epilog_new_any(q, kernel) ==
    LET v == IF ~q.is_up \/ ~q.has_run THEN update_svr_checker_state(q, TRUE, kernel) ELSE q
    IN [v EXCEPT !.failed = 0, !.url_it = IF AfterUrl(q) = 0 THEN 1 ELSE AfterUrl(q), !.retry_it = 0]

epilog_new(q, kernel) ==
    LET all == AfterUrl(q) = 0 /\ q.failed = 0
        news == all /\ (~q.is_up \/ ~q.has_run)
        v == IF news THEN update_svr_checker_state(q, TRUE, kernel) ELSE q
    IN [v EXCEPT !.failed = 0, !.url_it = IF all \/ q.failed # 0 THEN 1 ELSE AfterUrl(q),
                 !.retry_it = IF v.has_run THEN 0 ELSE q.conf.retry]

epilog_retry(q, kernel) ==
    LET c == [q EXCEPT !.retry_it = @ + 1]
        v == IF q.is_up \/ ~q.has_run THEN update_svr_checker_state(c, FALSE, kernel) ELSE c
    IN IF c.retry_it > q.conf.retry THEN [v EXCEPT !.failed = q.url_it] ELSE c

\* The end of epilog(): the request and its socket go, the next check is registered.
epilog(q, fd) ==
    LET c == IF q.req.on THEN [thread_close_fd(q, fd) EXCEPT !.req = NoReq] ELSE q
        now == q.conf.fast /\ (~q.has_run \/ (~q.is_up /\ q.failed = 0))
    IN thread_add(c, "http_connect", IF now THEN "event" ELSE "timer", 0)

timeout_epilog(q, fd, kernel) ==
    IF q.is_up \/ ~q.has_run THEN epilog(epilog_retry([q EXCEPT !.has_run = TRUE], kernel), fd)
    ELSE epilog(q, fd)

http_connect_thread(q, o, kernel) ==
    IF ~q.enabled \/ o \in {"no_socket", "bind_error"} THEN thread_add_timer(q, "http_connect")
    ELSE IF o = "unreachable" THEN timeout_epilog(q, 0, kernel)
    ELSE thread_add(socket(q), "http_check", "write", FreeFd(q))

http_request(q, fd, wr, kernel) ==
    IF wr = "write_error" THEN timeout_epilog(q, fd, kernel) ELSE thread_add(q, "http_response", "read", fd)

\* Errors of the connection have closed the socket; the handshake of an SSL check
\* may have to wait to read or to write.
http_check_thread(q, fd, o, wr, kernel) ==
    LET c == [q EXCEPT !.req.on = TRUE]
    IN CASE o \in {"timeout", "refused"} -> timeout_epilog(thread_close_fd(q, fd), fd, kernel)
         [] o = "in_progress" -> thread_add(q, "http_check", "write", fd)
         [] o = "want_read" -> thread_add(c, "http_check", "read", fd)
         [] o = "want_write" -> thread_add(c, "http_check", "write", fd)
         [] o = "handshake" -> timeout_epilog(c, fd, kernel)
         [] OTHER -> http_request(c, fd, wr, kernel)

http_response_thread(q, fd, o, kernel) ==
    IF o = "timeout" THEN timeout_epilog(q, fd, kernel)
    ELSE thread_add([q EXCEPT !.req = [NoReq EXCEPT !.on = TRUE]],
                    IF q.conf.kind = "ssl" THEN "ssl_read" ELSE "http_read", "read", fd)

http_process_response(q, o) ==
    LET head == ~q.req.extracted /\ o \in {"head", "head_bad"}
    IN [q EXCEPT !.req.extracted = @ \/ head, !.req.status = @ \/ (head /\ o = "head"),
                 !.req.junk = @ \/ o = "junk",
                 !.req.len = IF q.req.extracted \/ head THEN 0 ELSE @ + 1]

http_handle_response(q, fd, kernel) ==
    IF q.req.extracted /\ q.req.status /\ ~q.req.junk THEN epilog(epilog_new(q, kernel), fd)
    ELSE timeout_epilog(q, fd, kernel)

\* An SSL stream that ends in an error is judged by what has been read.
http_read_thread(q, fd, o, kernel) ==
    CASE o = "timeout" \/ (o = "error" /\ q.conf.kind = "http") -> timeout_epilog(q, fd, kernel)
      [] o = "again" -> thread_add(q, IF q.conf.kind = "ssl" THEN "ssl_read" ELSE "http_read", "read", fd)
      [] o \in {"eof", "error"} -> http_handle_response(q, fd, kernel)
      [] OTHER -> thread_add(http_process_response(q, o),
                             IF q.conf.kind = "ssl" THEN "ssl_read" ELSE "http_read", "read", fd)

-----------------------------------------------------------------------------
(* What can happen to a thread, and the thread that it runs.               *)

\* Bound: smtp_check_thread() leaves one dead thread.
Outcomes(q, th) ==
    CASE Stale(th) -> IF Dead(th) THEN {} ELSE {"timeout"}
      [] th.f \in {"tcp_connect", "smtp_connect", "smtp_start_check", "http_connect"} -> Connects
      [] th.f = "udp_connect" -> UdpConnects
      [] th.f = "icmp_connect" -> {"success", "no_socket"}
      [] th.f = "dns_connect" -> {"no_socket", "bind_error", "unreachable", "in_progress", "sent", "again"}
                                 \cup (IF q.fds = {} THEN {"send_error"} ELSE {})
      [] th.f \in {"tcp_check", "smtp_check"} -> States \ (IF Live(q) = q.pend THEN {} ELSE {"in_progress"})
      [] th.f = "udp_check" -> UdpStates
      [] th.f = "icmp_ping" -> Pings \cup {"stray", "error"}
      [] th.f = "icmp_check" -> Echoes
      [] th.f = "dns_check" -> {"timeout", "refused", "in_progress", "sent", "again", "send_error"}
      [] th.f = "dns_send" -> {"timeout", "sent", "again", "send_error"}
      [] th.f = "dns_recv" -> {"timeout", "skip", "answer", "rcode"}
      [] th.f = "smtp_get_line" -> {"timeout", "closed", "again", "part", "220", "250", "other"}
      [] th.f = "smtp_put_line" -> {"written"}
      [] th.f = "http_check" -> States \cup (IF q.conf.kind = "ssl" THEN Handshakes ELSE {})
      [] th.f = "http_response" -> {"ready", "timeout"}
      [] OTHER -> {"timeout", "eof"} \cup (IF q.req.len = MaxLen THEN {}
                  ELSE {"again", "error"} \cup (IF q.req.extracted THEN {"body", "junk"} ELSE {"head", "head_bad", "part"}))

\* The result of the write that follows, where one does.
Writes(q, th, o) ==
    CASE th.f = "smtp_get_line" /\ <<q.state, o>> \in {<<"HAVE_BANNER", "220">>, <<"RECV_HELO", "250">>}
            -> {"written", "again", "write_error"}
      [] th.f = "smtp_put_line" -> {"written", "again", "write_error", "timeout"}
      [] th.f = "http_check" /\ o = "connected" -> {"written", "write_error"}
      [] OTHER -> {"written"}

Run(q, th, o, wr, kernel) ==
    CASE th.f = "tcp_connect" -> tcp_connect_thread(q, o, kernel)
      [] th.f = "tcp_check" -> tcp_check_thread(q, th.fd, o, kernel)
      [] th.f = "udp_connect" -> udp_connect_thread(q, o, kernel)
      [] th.f = "udp_check" -> udp_check_thread(q, th.fd, o, kernel)
      [] th.f = "icmp_connect" -> icmp_connect_thread(q, o)
      [] th.f = "icmp_ping" -> icmp_ping_thread(q, th.fd, o, kernel)
      [] th.f = "icmp_check" -> icmp_check_thread(q, th.fd, o, kernel)
      [] th.f = "dns_connect" -> dns_connect_thread(q, o, kernel)
      [] th.f = "dns_check" -> dns_check_thread(q, th.fd, o, kernel)
      [] th.f = "dns_send" -> dns_send_thread(q, th.fd, o, kernel)
      [] th.f = "dns_recv" -> dns_recv_thread(q, th.fd, o, kernel)
      [] th.f = "smtp_connect" -> smtp_connect_thread(q, o, kernel)
      [] th.f = "smtp_start_check" -> smtp_start_check_thread(q, o, kernel)
      [] th.f = "smtp_check" -> smtp_check_thread(q, th.fd, o, kernel)
      [] th.f = "smtp_get_line" -> smtp_get_line_cb(q, th.fd, o, wr, kernel)
      [] th.f = "smtp_put_line" -> smtp_put_line(q, th.fd, wr, kernel)
      [] th.f = "http_connect" -> http_connect_thread(q, o, kernel)
      [] th.f = "http_check" -> http_check_thread(q, th.fd, o, wr, kernel)
      [] th.f = "http_response" -> http_response_thread(q, th.fd, o, kernel)
      [] OTHER -> http_read_thread(q, th.fd, o, kernel)

-----------------------------------------------------------------------------
(* What the server has shown, kept beside the checker to judge it by:      *)
(* seen in this conversation, the URLs whose last fetch went well, and how *)
(* many conversations in a row did not.                                    *)

Facts == {"connected", "match", "mismatch", "soft_error", "bind_error", "unreachable", "recv_error", "echo", "answer",
          "220", "250", "timeout", "closed", "write_error", "head", "junk", "error"}
Shown(conf, seen) ==
    CASE conf.kind = "tcp" -> "connected" \in seen
      [] conf.kind = "udp" -> CASE conf.reply = "data" -> "match" \in seen
                                [] conf.reply = "any" -> seen \cap {"match", "mismatch", "soft_error"} # {}
                                [] OTHER -> seen \cap {"bind_error", "unreachable", "recv_error"} = {}
      [] conf.kind = "ping" -> "echo" \in seen
      [] conf.kind = "dns" -> "answer" \in seen
      [] conf.kind = "smtp" -> {"220", "250"} \subseteq seen /\ seen \cap {"timeout", "closed", "write_error"} = {}
      [] OTHER -> "head" \in seen /\ seen \cap {"junk", "timeout", "write_error"} = {}
                  /\ (conf.kind = "http" => "error" \notin seen)

\* A conversation ends with the next one registered; one that could not be started
\* for want of a socket says nothing about the server.
Judge(before, after, th, o, wr) ==
    LET seen == IF th.f \in Starts \/ th.f = "icmp_ping" THEN {o} \cap Facts ELSE before.seen \cup ({o, wr} \cap Facts)
        void == (~before.enabled /\ th.f \in Starts) \/ o \in {"no_socket", "stray"}
                \/ (o = "bind_error" /\ before.conf.kind # "udp") \/ (th.f = "icmp_ping" /\ o = "error")
        ended == Live(after) # <<>> /\ Live(after)[1].f \in Starts \cup {"icmp_ping"} /\ th.f # "icmp_connect"
        well == Shown(before.conf, seen)
        url == before.url_it
    IN IF void \/ ~ended THEN [after EXCEPT !.seen = seen]
       ELSE [after EXCEPT !.seen = {}, !.good = IF well THEN @ \cup {url} ELSE @ \ {url},
                          !.bad = IF well THEN 0 ELSE IF @ <= before.conf.retry THEN @ + 1 ELSE @]

-----------------------------------------------------------------------------
(* Actions                                                                 *)

Start(conf, addr) ==
    [conf |-> conf, has_run |-> FALSE, is_up |-> conf.up, retry_it |-> conf.retry,
     count |-> IF conf.suspend THEN addr ELSE 0,
     enabled |-> conf.suspend => addr > 0, addr |-> addr, url_it |-> 1, failed |-> 0, req |-> NoReq,
     state |-> "START", fds |-> {}, pend |-> <<[f |-> Launch[conf.kind], w |-> "timer", fd |-> 0]>>,
     seen |-> {}, good |-> {}, bad |-> 0, known |-> FALSE, reloads |-> 0, flips |-> 0]

Init == \E conf \in Confs : \E addr \in IF conf.suspend THEN 0 .. 1 ELSE {1} : s = Start(conf, addr)

\* The kernel may refuse a command; bound: not once that has made retry_it grow.
Answers == IF s.retry_it <= s.conf.retry + 1 THEN BOOLEAN ELSE {TRUE}

\* A thread runs.  The server is known from the first change of state, or the first
\* time that all of it has been found well.
Fire ==
    \E i \in DOMAIN s.pend : \E o \in Outcomes(s, s.pend[i]), kernel \in Answers : \E wr \in Writes(s, s.pend[i], o) :
        LET th == s.pend[i]
            q == [s EXCEPT !.pend = SelectSeq(@, LAMBDA x : x # th)]
            r == Judge(q, Run(q, th, o, wr, kernel), th, o, wr)
        IN s' = [r EXCEPT !.known = @ \/ r.is_up # s.is_up \/ r.good = 1 .. r.conf.urls]

\* update_checker_activity(): the address of the virtual server comes or goes.
update_checker_activity ==
    /\ s.conf.suspend /\ s.flips < MaxFlips
    /\ \E addr \in {s.addr - 1, s.addr + 1} \cap (0 .. 2) :
        LET enable == addr > s.addr
            count == IF enable THEN s.count + 1 ELSE s.count - 1
        IN s' = [s EXCEPT !.addr = addr, !.flips = @ + 1, !.count = IF s.conf.suspend THEN count ELSE @,
                          !.enabled = IF s.conf.suspend /\ (enable \/ count = 0) THEN enable ELSE @]

\* A reload destroys the threads and the sockets they own; migrate_checkers() gives
\* the new checker the state of the old one, clear_diff_services() the number of
\* addresses, and register_checkers_thread() starts it.
Reload ==
    /\ s.reloads < MaxReloads
    /\ \E suspend \in BOOLEAN :
        LET up == IF s.has_run THEN s.is_up ELSE s.conf.up
            count == IF suspend THEN s.count ELSE 0
        IN s' = [s EXCEPT !.conf.suspend = suspend, !.is_up = up, !.count = count,
                          !.retry_it = IF ~s.has_run THEN s.conf.retry ELSE IF ~up THEN s.conf.retry + 1
                                       ELSE IF @ >= s.conf.retry THEN s.conf.retry ELSE @,
                          !.enabled = suspend => count # 0,
                          !.url_it = 1, !.failed = IF up THEN 0 ELSE @, !.req = NoReq,
                          !.state = "START", !.fds = @ \ {s.pend[i].fd : i \in DOMAIN s.pend},
                          !.pend = <<[f |-> Launch[s.conf.kind], w |-> "timer", fd |-> 0]>>,
                          !.seen = {}, !.reloads = @ + 1]

\* What touches the event of a stale thread, its own timeout or a reload, reads and frees
\* memory that is free: it may do nothing worse, or end the process, and the parent
\* starts another one.
Crash ==
    /\ \E i \in DOMAIN s.pend : Stale(s.pend[i])
    /\ s.reloads < MaxReloads
    /\ s' = [Start(s.conf, s.addr) EXCEPT !.reloads = s.reloads + 1, !.flips = s.flips]

Next == Fire \/ update_checker_activity \/ Reload \/ Crash

-----------------------------------------------------------------------------
Owned == {Live(s)[i].fd : i \in DOMAIN Live(s)} \ {0}

\* "we ARE responsible for scheduling ourselves to run again ... eventually has to
\* happen" (check_smtp.c): whatever the server and the kernel do, a checker always has
\* exactly one thread that can run; a thread that waits for a socket has an open one, and
\* no other socket is open.  Three exceptions, that the code has: dns_connect_thread()
\* sends its query from a thread that dns_final() takes for one without a socket, so that
\* a send that fails leaves the socket open; the query that dns_check_thread() could not
\* send waits without an event; and an SMTP check whose connection is still in progress
\* when it is looked at leaves a dead thread beside the next one.
ConversationSound ==
    /\ Len(Live(s)) = 1
    /\ Owned \subseteq s.fds
    /\ Live(s)[1].w \in {"read", "write", "stale"} <=> Owned # {}
    /\ s.conf.kind # "dns" => s.fds = Owned
    /\ \A i \in DOMAIN s.pend : Stale(s.pend[i]) => s.conf.kind \in {"smtp", "dns"}

\* A checker comes up only when the last conversation about every URL went well, and a
\* server that is known goes down only when more conversations in a row than "retry"
\* allows did not: counters survive kernel errors, reloads and suspensions.
Earned ==
    s'.reloads = s.reloads =>
      /\ s'.is_up /\ ~s.is_up => s'.good = 1 .. s.conf.urls
      /\ s.is_up /\ ~s'.is_up /\ s.known => s'.bad > s.conf.retry

=============================================================================

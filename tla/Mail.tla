-------------------------------- MODULE Mail --------------------------------
(***************************************************************************)
(* The mail that a contact page sends (metaSite/source/contactus.cpp), by  *)
(* ocSendMail of openMailer/oc_Mail.cpp over SMTP (openSocket/oc_SMTP.h    *)
(* and ocSocket.h).  The mail server is outside: it may refuse a command,  *)
(* say nothing, or close the connection at any time.                       *)
(*                                                                         *)
(* One page sends one mail.  A step of the page is a write to the socket   *)
(* or a read from it; lines and replies travel in order.                   *)
(***************************************************************************)
EXTENDS Integers, Sequences, FiniteSets

CONSTANTS
  MailHeaders     \* the headers of the mail, as they are written

Commands == {"HELO", "MAIL", "RCPT", "DATA", "QUIT"}
Texts == {"header", "type", "", "body"}

ASSUME MailAssumption == MailHeaders \in Seq({"header"})

VARIABLES
  page,           \* what the page is doing: "reads" a reply, "writes",
                  \* "thanks" the visitor; "killed" or, for ever, "spins"
  route,          \* what openRoute came to: "open", "refused" or "none" yet
  lines,          \* the lines the page has still to write
  sent,           \* the last line written, which is answered
  buffer,         \* readBuff: the last reply read
  toServer,       \* lines under way
  toPage,         \* replies under way
  server,         \* what the server takes the next line for: a "command" or
                  \* "text"; "closed"
  text,           \* the text since DATA
  delivered,      \* the mails the server took over
  misread,        \* history: a line of text was taken for a command
  pipeKills       \* a write to a closed connection kills the page (SIGPIPE)

wireVars == << toServer, toPage >>
serverVars == << server, text, delivered, misread >>
mailVars == << page, route, lines, sent, buffer, wireVars, serverVars, pipeKills >>

Ended == page \in {"thanks", "killed"}

MailTypeOK ==
  /\ page \in {"reads", "writes", "thanks", "killed", "spins"}
  /\ route \in {"none", "open", "refused"}
  /\ lines \in Seq(Commands \cup Texts \cup {"."})
  /\ sent \in Commands \cup {"connect", "."}
  /\ server \in {"command", "text", "closed"}
  /\ misread \in BOOLEAN /\ pipeKills \in BOOLEAN
  \* who waits for a reply has nothing that it could read in its place
  /\ page = "reads" /\ server # "closed" =>
       Cardinality({i \in DOMAIN toServer : toServer[i] \in Commands \cup {"."}})
         + Len(toPage) = 1

-----------------------------------------------------------------------------
(* What ocSendMail writes.                                                 *)

\* openRoute: four commands, each answered, and the headers.
OpenRoute == << "HELO", "MAIL", "RCPT", "DATA" >> \o MailHeaders

\* send, which looks at isConnected only: whether openRoute did what was
\* asked of it or not.
Send == << "type", "", "body", ".", "QUIT" >>

Expected(command) ==
  CASE command = "connect" -> "220"
    [] command = "DATA"    -> "354"
    [] OTHER               -> "250"

\* Mutant of AfterRefusal: no QUIT.
AfterRefusal_NoQuit(rest) == rest

\* A command of openRoute that is refused is followed by quit; then comes
\* send, the callers do not look at what openRoute returns.
AfterRefusal(rest) == << "QUIT" >> \o rest

MailInit ==
  /\ page = "reads" /\ route = "none"
  /\ lines = OpenRoute \o Send
  /\ sent = "connect" /\ buffer = ""
  /\ toServer = << >> /\ toPage \in {<< "220" >>, << "554" >>}
  /\ server = "command" /\ text = << >> /\ delivered = << >>
  /\ misread = FALSE
  /\ pipeKills \in BOOLEAN

-----------------------------------------------------------------------------
(* The page                                                                *)

\* Mutant of Answered: the reply to the period is not read.
Answered_NotPeriod(line) == line \in Commands

\* What a reply is read for.
Answered(line) == line \in Commands \cup {"."}

\* Command: nothing is written for an empty line (cmdIn.length()).  end_data:
\* a line end goes before the period.
Written(line) ==
  CASE line = ""  -> << >>
    [] line = "." -> << "", "." >>
    [] OTHER      -> << line >>

\* Write: to a connection closed by the server the first bytes still go out;
\* then they fail, with a signal or, as nwrote is unsigned, without an end to
\* the loop.
WriteLine ==
  /\ page = "writes" /\ lines # << >>
  /\ lines' = Tail(lines)
  /\ \/ /\ toServer' = IF server = "closed" THEN toServer
                       ELSE toServer \o Written(Head(lines))
        /\ IF Answered(Head(lines))
           THEN page' = "reads" /\ sent' = Head(lines)
           ELSE UNCHANGED << page, sent >>
     \/ /\ server = "closed" /\ Head(lines) # ""
        /\ page' = IF pipeKills THEN "killed" ELSE "spins"
        /\ UNCHANGED << toServer, sent >>
  /\ UNCHANGED << route, buffer, toPage, serverVars, pipeKills >>

Thank ==
  /\ page = "writes" /\ lines = << >>
  /\ page' = "thanks"
  /\ UNCHANGED << route, lines, sent, buffer, wireVars, serverVars, pipeKills >>

\* Response: what the page does with the line in the buffer.
Respond(line) ==
  LET good == line = Expected(sent)
  IN  /\ page' = "writes"
      /\ lines' = IF good \/ sent \in {"QUIT", "."} THEN lines
                  ELSE IF sent = "connect" THEN << >>
                  ELSE AfterRefusal(Send)
      /\ route' = IF route # "none" THEN route
                  ELSE IF ~good THEN "refused"
                  ELSE IF sent = "DATA" THEN "open"
                  ELSE "none"

\* ReadLine
ReadReply ==
  /\ page = "reads" /\ toPage # << >>
  /\ Respond(Head(toPage))
  /\ buffer' = Head(toPage) /\ toPage' = Tail(toPage)
  /\ UNCHANGED << sent, toServer, serverVars, pipeKills >>

\* At the end of the stream, or when the connection is reset and what was
\* under way is lost: the buffer still holds the line that was read last, and
\* ReadLine returns it.
ReadStale ==
  /\ page = "reads" /\ server = "closed"
  /\ Respond(buffer)
  /\ toPage' = << >>
  /\ UNCHANGED << sent, buffer, toServer, serverVars, pipeKills >>

\* Mutant of TimedOut: no timeout is set.
TimedOut_Never == FALSE

\* Nothing to read for five seconds.
TimedOut == toPage = << >> /\ server # "closed"

\* SetTimeoutTime, and ReadLine returns NULL: the assignment of NULL to
\* response ends the page.
Timeout ==
  /\ page = "reads" /\ TimedOut
  /\ page' = "killed"
  /\ UNCHANGED << route, lines, sent, buffer, wireVars, serverVars, pipeKills >>

PageStep == WriteLine \/ Thank \/ ReadReply \/ ReadStale \/ Timeout

-----------------------------------------------------------------------------
(* The server                                                              *)

\* Lines after DATA are text up to the one with a period.  Then the mail is
\* taken over, or refused, as any command may be.
ServerReads ==
  /\ server # "closed" /\ toServer # << >>
  /\ toServer' = Tail(toServer)
  /\ LET line == Head(toServer)
         Replies(r) == toPage' = Append(toPage, r)
     IN  IF server = "text" /\ line # "."
         THEN /\ text' = Append(text, line)
              /\ UNCHANGED << toPage, server, delivered, misread >>
         ELSE /\ misread' = (misread \/ line \in Texts)
              /\ text' = << >>
              /\ \/ /\ line \in Commands \cup {"."}
                    /\ Replies(IF line = "QUIT" THEN "221" ELSE Expected(line))
                    /\ server' = CASE line = "QUIT" -> "closed"
                                   [] line = "DATA" -> "text"
                                   [] OTHER         -> "command"
                    /\ delivered' = IF line = "." THEN Append(delivered, text)
                                    ELSE delivered
                 \/ /\ line # "QUIT"
                    /\ Replies("550")
                    /\ server' = "command"
                    /\ UNCHANGED delivered
  /\ UNCHANGED << page, route, lines, sent, buffer, pipeKills >>

ServerCloses ==
  /\ server # "closed" /\ ~Ended
  /\ server' = "closed"
  /\ UNCHANGED << page, route, lines, sent, buffer, wireVars, text, delivered,
                  misread, pipeKills >>

MailNext == PageStep \/ ServerReads \/ ServerCloses

\* The page is a running program, and the timeout is the kernel's; of the
\* server nothing is assumed.
MailSpec == MailInit /\ [][MailNext]_mailVars /\ WF_mailVars(PageStep)

-----------------------------------------------------------------------------
(* Properties                                                              *)

\* The server never takes a line of the message for a command, although send
\* writes the message even after a refusal (oc_Mail.cpp:225): the connection
\* is one of which the server has read QUIT, or that it has closed.
TextIsNoCommand == ~misread

\* Between the headers and the body there is a blank line: "crlf to seperate
\* the headers from body" (oc_Mail.cpp:253).
BodyIsSeparated ==
  \A i \in DOMAIN delivered :
    \E k, b \in DOMAIN delivered[i] :
      k < b /\ delivered[i][k] = "" /\ delivered[i][b] = "body"

\* The visitor's page ends whatever the server does, also if it never answers:
\* if a write to a closed connection kills the page.
MailEnds == pipeKills => <>Ended
=============================================================================

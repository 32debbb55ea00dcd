----------------------------- MODULE Site_proofs -----------------------------
(***************************************************************************)
(* Proofs about what a site shows and sends.  Menus, for any number of     *)
(* entries, paragraphs and processes: places are told apart after every    *)
(* request, a step puts nothing in another order but what the requests are *)
(* about, an item that is moved changes places with the one next to it,    *)
(* and a page shows the part of the menu around the selected item.  Mail,  *)
(* for any message and answers: the server never takes text for a command. *)
(***************************************************************************)
EXTENDS MCSite, FiniteSetTheorems, SequenceTheorems,
        WellFoundedInduction, TLAPS

-----------------------------------------------------------------------------
(* Mail.                                                                   *)

Line == Commands \cup Texts \cup {"."}
Reply == {"220", "221", "250", "354", "550", "554"}

\* Text up to the period, and QUIT: what is left to write after DATA.
Message(l) ==
  /\ l \in Seq(Line) /\ Len(l) >= 2
  /\ l[Len(l)] = "QUIT" /\ l[Len(l) - 1] = "."
  /\ \A i \in 1 .. Len(l) - 2 : l[i] \in Texts

\* Commands up to DATA, and a message.
Dialogue(l) ==
  /\ l \in Seq(Line) /\ Len(l) >= 3
  /\ l[Len(l)] = "QUIT" /\ l[Len(l) - 1] = "."
  /\ \E d \in 1 .. Len(l) - 2 :
       /\ l[d] = "DATA"
       /\ \A i \in 1 .. d - 1 : l[i] \in {"HELO", "MAIL", "RCPT"}
       /\ \A i \in d + 1 .. Len(l) - 2 : l[i] \in Texts

\* Nothing is left, or QUIT comes first.
Quits(l) == l = << >> \/ (l \in Seq(Line) /\ Len(l) > 0 /\ l[1] = "QUIT")

(***************************************************************************)
(* As long as the connection is open: what is under way is text with its   *)
(* period, or one command, as the server expects; a page that writes does  *)
(* so as the server expects; a page that reads has one line to be answered *)
(* or one answer under way, and from the answer it knows what the server   *)
(* expects.                                                                *)
(***************************************************************************)
UnderWay ==
  /\ toServer \in Seq(Line) /\ toPage \in Seq(Reply) /\ server \in {"command", "text"}
  /\ server = "text" => \A i \in 1 .. Len(toServer) :
       toServer[i] \in Texts \/ (toServer[i] = "." /\ i = Len(toServer))
  /\ server = "command" =>
       toServer = << >> \/ (Len(toServer) = 1 /\ toServer[1] \in Commands)

WritesAsExpected ==
  page = "writes" =>
    /\ toPage = << >>
    /\ server = "text" =>
         Message(lines) /\ \A i \in 1 .. Len(toServer) : toServer[i] \in Texts
    /\ server = "command" => toServer = << >> /\ (Dialogue(lines) \/ Quits(lines))

ReadsOneAnswer ==
  page = "reads" =>
    /\ sent \in {"connect", "HELO", "MAIL", "RCPT"} => Dialogue(lines)
    /\ sent = "DATA" => Message(lines)
    /\ sent = "." => Quits(lines)
    /\ sent \in Commands \cup {"connect", "."}
    /\ toPage # << >> =>
         /\ toServer = << >> /\ Len(toPage) = 1 /\ sent # "QUIT"
         /\ server = "text" <=> (sent = "DATA" /\ toPage[1] = "354")
    /\ toPage = << >> =>
         /\ toServer # << >> /\ toServer[Len(toServer)] = sent
         /\ server = "text" <=> sent = "."

MailInv ==
  /\ ~misread /\ lines \in Seq(Line)
  /\ server # "closed" => UnderWay /\ WritesAsExpected /\ ReadsOneAnswer

\* What is left of a list of lines after the first.
LEMMA TailOf ==
  ASSUME NEW S, NEW l \in Seq(S), l # << >>
  PROVE  /\ Tail(l) \in Seq(S) /\ Len(Tail(l)) = Len(l) - 1
         /\ Head(l) = l[1] /\ l[1] \in S /\ Len(l) \in Nat \ {0}
         /\ \A i \in 1 .. Len(l) - 1 : Tail(l)[i] = l[i + 1]
OBVIOUS

\* A message goes on until its period, and then the page quits.
LEMMA MessageGoesOn ==
  ASSUME NEW l, Message(l)
  PROVE  /\ l # << >> /\ l \in Seq(Line) /\ Head(l) \in Texts \cup {"."}
         /\ Head(l) \in Texts => Message(Tail(l))
         /\ Head(l) = "." => Quits(Tail(l))
<1>1. l \in Seq(Line) /\ Len(l) \in Nat /\ Len(l) >= 2 /\ l # << >>
  BY DEF Message
<1>2. /\ Tail(l) \in Seq(Line) /\ Len(Tail(l)) = Len(l) - 1 /\ Head(l) = l[1]
      /\ \A i \in 1 .. Len(l) - 1 : Tail(l)[i] = l[i + 1]
  BY <1>1, TailOf
<1>3. l[Len(l)] = "QUIT" /\ l[Len(l) - 1] = "."
      /\ \A i \in 1 .. Len(l) - 2 : l[i] \in Texts
  BY DEF Message
<1>4. CASE Len(l) = 2
  <2>1. Head(l) = "." /\ Tail(l)[1] = "QUIT" /\ Len(Tail(l)) = 1
    BY <1>1, <1>2, <1>3, <1>4
  <2>2. Quits(Tail(l))
    BY <1>2, <2>1 DEF Quits
  <2>3. Head(l) \notin Texts
    BY <2>1 DEF Texts
  <2> HIDE DEF Line
  <2> QED
    BY <1>1, <2>1, <2>2, <2>3
<1>5. CASE Len(l) > 2
  <2>1. Head(l) \in Texts
    BY <1>1, <1>2, <1>3, <1>5
  <2>2. Tail(l)[Len(Tail(l))] = "QUIT" /\ Tail(l)[Len(Tail(l)) - 1] = "."
    BY <1>1, <1>2, <1>3, <1>5
  <2>3. \A i \in 1 .. Len(Tail(l)) - 2 : Tail(l)[i] \in Texts
    BY <1>1, <1>2, <1>3
  <2>4. Message(Tail(l))
    BY <1>1, <1>2, <1>5, <2>2, <2>3 DEF Message
  <2>5. Head(l) # "."
    BY <2>1 DEF Texts
  <2> QED
    BY <1>1, <2>1, <2>4, <2>5
<1>6. Len(l) = 2 \/ Len(l) > 2
  <2> DEFINE n == Len(l)
  <2>1. n \in Nat /\ n >= 2
    BY <1>1
  <2> HIDE DEF n
  <2>2. n = 2 \/ n > 2
    BY <2>1
  <2> QED
    BY <2>2 DEF n
<1> QED
  BY <1>4, <1>5, <1>6

\* A dialogue goes on until DATA, and then comes the message.
LEMMA DialogueGoesOn ==
  ASSUME NEW l, Dialogue(l)
  PROVE  /\ l # << >> /\ l \in Seq(Line)
         /\ Head(l) \in {"HELO", "MAIL", "RCPT", "DATA"}
         /\ Head(l) # "DATA" => Dialogue(Tail(l))
         /\ Head(l) = "DATA" => Message(Tail(l))
<1>1. l \in Seq(Line) /\ Len(l) \in Nat /\ Len(l) >= 3 /\ l # << >>
  BY DEF Dialogue
<1>2. /\ Tail(l) \in Seq(Line) /\ Len(Tail(l)) = Len(l) - 1 /\ Head(l) = l[1]
      /\ \A i \in 1 .. Len(l) - 1 : Tail(l)[i] = l[i + 1]
  BY <1>1, TailOf
<1>3. PICK d \in 1 .. Len(l) - 2 :
        /\ l[d] = "DATA"
        /\ \A i \in 1 .. d - 1 : l[i] \in {"HELO", "MAIL", "RCPT"}
        /\ \A i \in d + 1 .. Len(l) - 2 : l[i] \in Texts
  BY DEF Dialogue
<1>4. l[Len(l)] = "QUIT" /\ l[Len(l) - 1] = "."
  BY DEF Dialogue
<1>5. Tail(l)[Len(Tail(l))] = "QUIT" /\ Tail(l)[Len(Tail(l)) - 1] = "."
  BY <1>1, <1>2, <1>4
<1>6. CASE d = 1
  <2>1. \A i \in 1 .. Len(Tail(l)) - 2 : Tail(l)[i] \in Texts
    BY <1>1, <1>2, <1>3, <1>6
  <2>2. Message(Tail(l)) /\ Head(l) = "DATA"
    BY <1>1, <1>2, <1>3, <1>5, <1>6, <2>1 DEF Message
  <2> QED
    BY <1>1, <2>2
<1>7. CASE d > 1
  <2>1. Head(l) \in {"HELO", "MAIL", "RCPT"}
    BY <1>1, <1>2, <1>3, <1>7
  <2>2. d - 1 \in 1 .. Len(Tail(l)) - 2 /\ Tail(l)[d - 1] = "DATA"
    BY <1>1, <1>2, <1>3, <1>7
  <2>3. \A i \in 1 .. d - 2 : Tail(l)[i] \in {"HELO", "MAIL", "RCPT"}
    BY <1>1, <1>2, <1>3, <1>7
  <2>4. \A i \in d .. Len(Tail(l)) - 2 : Tail(l)[i] \in Texts
    BY <1>1, <1>2, <1>3, <1>7
  <2>5. Dialogue(Tail(l))
    <3>1. (d - 1) - 1 = d - 2 /\ (d - 1) + 1 = d /\ Len(Tail(l)) >= 3
      BY <1>1, <1>2, <1>7
    <3> QED
      BY <1>2, <1>5, <2>2, <2>3, <2>4, <3>1 DEF Dialogue
  <2> QED
    BY <1>1, <2>1, <2>5
<1> QED
  BY <1>3, <1>6, <1>7

\* A sequence with five more at its end.
LEMMA FiveMore ==
  ASSUME NEW S, NEW s \in Seq(S), NEW t \in Seq(S), Len(t) = 5
  PROVE  /\ s \o t \in Seq(S) /\ Len(s \o t) = Len(s) + 5 /\ Len(s) \in Nat
         /\ \A i \in 1 .. Len(s) : (s \o t)[i] = s[i]
         /\ (s \o t)[Len(s) + 1] = t[1] /\ (s \o t)[Len(s) + 2] = t[2]
         /\ (s \o t)[Len(s) + 3] = t[3] /\ (s \o t)[Len(s) + 4] = t[4]
         /\ (s \o t)[Len(s) + 5] = t[5]
<1>1. Len(s) \in Nat
  BY LenProperties
<1>2. /\ s \o t \in Seq(S) /\ Len(s \o t) = Len(s) + 5
      /\ \A i \in 1 .. Len(s) + 5 : (s \o t)[i] =
           IF i <= Len(s) THEN s[i] ELSE t[i - Len(s)]
  <2>1. /\ s \o t \in Seq(S) /\ Len(s \o t) = Len(s) + Len(t)
        /\ \A i \in 1 .. Len(s) + Len(t) : (s \o t)[i] =
             IF i <= Len(s) THEN s[i] ELSE t[i - Len(s)]
    BY ConcatProperties
  <2> QED
    BY <2>1, Zenon
<1>3. \A i \in 1 .. 5 : Len(s) + i \in 1 .. Len(s) + 5
                       /\ ~(Len(s) + i <= Len(s)) /\ (Len(s) + i) - Len(s) = i
  BY <1>1
<1>4. \A i \in 1 .. 5 : (s \o t)[Len(s) + i] = t[i]
  BY <1>2, <1>3
<1>5. \A i \in 1 .. Len(s) : (s \o t)[i] = s[i]
  BY <1>1, <1>2
<1>6. 1 \in 1 .. 5 /\ 2 \in 1 .. 5 /\ 3 \in 1 .. 5 /\ 4 \in 1 .. 5 /\ 5 \in 1 .. 5
  OBVIOUS
<1> QED
  BY <1>1, <1>2, <1>4, <1>5, <1>6

\* The page begins with a dialogue; after a refusal, it quits first.
LEMMA PageBegins ==
  /\ Dialogue(OpenRoute \o Send) /\ OpenRoute \o Send \in Seq(Line)
  /\ AfterRefusal(Send) \in Seq(Line) /\ Quits(AfterRefusal(Send)) /\ Quits(<< >>)
<1> DEFINE l == OpenRoute \o Send
           n == Len(MailHeaders)
<1>1. /\ MailHeaders \in Seq(Line) /\ n \in Nat
      /\ \A i \in 1 .. n : MailHeaders[i] = "header"
  <2>1. {"header"} \subseteq Line
    BY DEF Line, Texts
  <2>2. MailHeaders \in Seq(Line)
    BY <2>1, MailAssumption, SeqMonotonic
  <2>3. n \in Nat
    BY MailAssumption, LenProperties
  <2>4. \A i \in 1 .. n : MailHeaders[i] \in {"header"}
    BY MailAssumption, ElementOfSeq
  <2> QED
    BY <2>2, <2>3, <2>4
<1>2. /\ OpenRoute \in Seq(Line) /\ Len(OpenRoute) = 4 + n
      /\ OpenRoute[1] = "HELO" /\ OpenRoute[2] = "MAIL" /\ OpenRoute[3] = "RCPT"
      /\ OpenRoute[4] = "DATA" /\ \A i \in 5 .. 4 + n : OpenRoute[i] = "header"
  <2>1. << "HELO", "MAIL", "RCPT", "DATA" >> \in Seq(Line)
    BY DEF Line, Commands
  <2> QED
    BY <1>1, <2>1 DEF OpenRoute
<1>3. /\ Send \in Seq(Line) /\ Len(Send) = 5
      /\ Send[1] \in Texts /\ Send[2] \in Texts /\ Send[3] \in Texts
      /\ Send[4] = "." /\ Send[5] = "QUIT"
  BY DEF Send, Line, Commands, Texts
<1>4. /\ l \in Seq(Line) /\ Len(l) = 9 + n
      /\ \A i \in 1 .. 4 + n : l[i] = OpenRoute[i]
      /\ l[5 + n] \in Texts /\ l[6 + n] \in Texts /\ l[7 + n] \in Texts
      /\ l[8 + n] = "." /\ l[9 + n] = "QUIT"
  <2>1. OpenRoute \in Seq(Line) /\ Send \in Seq(Line) /\ Len(Send) = 5
    BY <1>2, <1>3
  <2>2. /\ l \in Seq(Line) /\ Len(l) = Len(OpenRoute) + 5
        /\ \A i \in 1 .. Len(OpenRoute) : l[i] = OpenRoute[i]
        /\ l[Len(OpenRoute) + 1] = Send[1] /\ l[Len(OpenRoute) + 2] = Send[2]
        /\ l[Len(OpenRoute) + 3] = Send[3] /\ l[Len(OpenRoute) + 4] = Send[4]
        /\ l[Len(OpenRoute) + 5] = Send[5]
    BY <2>1, FiveMore
  <2> HIDE DEF l, n
  <2>3. /\ Len(OpenRoute) = 4 + n /\ (4 + n) + 1 = 5 + n /\ (4 + n) + 2 = 6 + n
        /\ (4 + n) + 3 = 7 + n /\ (4 + n) + 4 = 8 + n /\ (4 + n) + 5 = 9 + n
    BY <1>1, <1>2
  <2> QED
    BY <1>3, <2>2, <2>3
<1> HIDE DEF l, n
<1>5. Len(l) >= 3 /\ Len(l) - 1 = 8 + n /\ Len(l) - 2 = 7 + n /\ 4 \in 1 .. 7 + n
  BY <1>1, <1>4
<1>6. l[4] = "DATA" /\ \A i \in 1 .. 4 - 1 : l[i] \in {"HELO", "MAIL", "RCPT"}
  BY <1>1, <1>2, <1>4
<1>7. ASSUME NEW i \in 4 + 1 .. 7 + n
      PROVE  l[i] \in Texts
  <2>1. i \in 5 .. 4 + n \/ i = 5 + n \/ i = 6 + n \/ i = 7 + n
    BY <1>1
  <2>2. \A k \in 5 .. 4 + n : l[k] = "header"
    BY <1>1, <1>2, <1>4
  <2> QED
    BY <1>4, <2>1, <2>2 DEF Texts
<1>8. Dialogue(l)
  BY <1>4, <1>5, <1>6, <1>7 DEF Dialogue
<1>9. AfterRefusal(Send) \in Seq(Line) /\ Quits(AfterRefusal(Send))
  <2>1. << "QUIT" >> \in Seq(Line) /\ Send \in Seq(Line) /\ Len(Send) = 5
    BY <1>3 DEF Line, Commands
  <2>2. << "QUIT" >> \o Send \in Seq(Line)
        /\ Len(<< "QUIT" >> \o Send) = Len(<< "QUIT" >>) + 5
        /\ \A i \in 1 .. Len(<< "QUIT" >>) :
             (<< "QUIT" >> \o Send)[i] = << "QUIT" >>[i]
    BY <2>1, FiveMore
  <2>3. Len(<< "QUIT" >>) = 1 /\ << "QUIT" >>[1] = "QUIT"
    OBVIOUS
  <2> QED
    BY <2>2, <2>3 DEF AfterRefusal, Quits
<1> QED
  BY <1>4, <1>8, <1>9 DEF l, Quits

\* Before the server has said anything.
LEMMA MailInvInit == MailInit => MailInv
<1> SUFFICES ASSUME MailInit PROVE MailInv
  OBVIOUS
<1>1. Dialogue(lines) /\ lines \in Seq(Line)
  BY PageBegins DEF MailInit
<1>2. toPage \in Seq(Reply) /\ Len(toPage) = 1 /\ toPage # << >>
      /\ toServer = << >> /\ toServer \in Seq(Line)
  <2>1. toPage = << "220" >> \/ toPage = << "554" >>
    BY DEF MailInit
  <2>2. toServer = << >> /\ << >> \in Seq(Line)
    BY EmptySeq DEF MailInit
  <2>3. \A a \in Reply : << a >> \in Seq(Reply) /\ Len(<< a >>) = 1 /\ << a >> # << >>
    OBVIOUS
  <2>4. "220" \in Reply /\ "554" \in Reply
    BY DEF Reply
  <2> QED
    BY <2>1, <2>2, <2>3, <2>4
<1>3. page = "reads" /\ sent = "connect" /\ server = "command" /\ ~misread
  BY DEF MailInit
<1> QED
  BY <1>1, <1>2, <1>3
     DEF MailInv, UnderWay, WritesAsExpected, ReadsOneAnswer, Commands

\* A line of text goes after those that are under way.
LEMMA TextWritten ==
  ASSUME NEW s \in Seq(Line), \A i \in 1 .. Len(s) : s[i] \in Texts,
         NEW line \in Texts
  PROVE  /\ s \o Written(line) \in Seq(Line)
         /\ \A i \in 1 .. Len(s \o Written(line)) : (s \o Written(line))[i] \in Texts
<1>1. CASE line = ""
  <2>1. Written(line) = << >>
    BY <1>1 DEF Written
  <2>2. s \o << >> = s
    BY ConcatEmptySeq
  <2> QED
    BY <2>1, <2>2, Zenon
<1>2. CASE line # ""
  <2>1. Written(line) = << line >>
    BY <1>2 DEF Written, Texts
  <2>2. << line >> \in Seq(Line) /\ Len(<< line >>) = 1 /\ << line >>[1] = line
    BY DEF Line
  <2> DEFINE w == << line >>
             n == Len(s)
  <2>3. w \in Seq(Line) /\ Len(w) = 1 /\ w[1] = line
    BY <2>2
  <2> HIDE DEF w
  <2>4. /\ s \o w \in Seq(Line) /\ Len(s \o w) = Len(s) + Len(w)
        /\ \A i \in 1 .. Len(s) + Len(w) :
             (s \o w)[i] = IF i <= Len(s) THEN s[i] ELSE w[i - Len(s)]
    BY <2>3, ConcatProperties
  <2>5. n \in Nat
    BY LenProperties
  <2>6. /\ Len(s \o w) = n + 1
        /\ \A i \in 1 .. n + 1 : (s \o w)[i] = IF i <= n THEN s[i] ELSE w[i - n]
    BY <2>3, <2>4, Zenon
  <2>7. \A i \in 1 .. n : s[i] \in Texts
    OBVIOUS
  <2> HIDE DEF n
  <2>8. ASSUME NEW i \in 1 .. n + 1
        PROVE  (s \o w)[i] \in Texts
    <3>1. (i \in 1 .. n /\ i <= n) \/ (~(i <= n) /\ i - n = 1)
      BY <2>5
    <3>2. (s \o w)[i] = IF i <= n THEN s[i] ELSE w[i - n]
      BY <2>6
    <3> QED
      BY <2>3, <2>7, <3>1, <3>2
  <2> QED
    BY <2>1, <2>4, <2>6, <2>8 DEF w
<1> QED
  BY <1>1, <1>2

\* The period goes after the text, on a line of its own.
LEMMA PeriodWritten ==
  ASSUME NEW s \in Seq(Line), \A i \in 1 .. Len(s) : s[i] \in Texts
  PROVE  LET t == s \o Written(".")
         IN  /\ t \in Seq(Line) /\ t # << >> /\ t[Len(t)] = "."
             /\ \A i \in 1 .. Len(t) : t[i] \in Texts \/ (t[i] = "." /\ i = Len(t))
<1> DEFINE w == << "", "." >>
           n == Len(s)
           t == s \o Written(".")
<1>1. Written(".") = w
  BY DEF Written
<1>2. w \in Seq(Line) /\ Len(w) = 2 /\ w[1] \in Texts /\ w[2] = "."
  <2>1. "" \in Line /\ "." \in Line /\ "" \in Texts
    BY DEF Line, Texts
  <2>2. \A a, b \in Line : << a, b >> \in Seq(Line)
    OBVIOUS
  <2>3. Len(w) = 2 /\ w[1] = "" /\ w[2] = "."
    OBVIOUS
  <2> HIDE DEF Line
  <2>4. w \in Seq(Line)
    BY <2>1, <2>2
  <2> QED
    BY <2>1, <2>3, <2>4
<1> HIDE DEF w
<1>3. /\ s \o w \in Seq(Line) /\ Len(s \o w) = Len(s) + Len(w)
      /\ \A i \in 1 .. Len(s) + Len(w) :
           (s \o w)[i] = IF i <= Len(s) THEN s[i] ELSE w[i - Len(s)]
  BY <1>2, ConcatProperties
<1>4. n \in Nat
  BY LenProperties
<1>5. /\ t \in Seq(Line) /\ Len(t) = n + 2
      /\ \A i \in 1 .. n + 2 : t[i] = IF i <= n THEN s[i] ELSE w[i - n]
  BY <1>1, <1>2, <1>3, Zenon
<1>6. \A i \in 1 .. n : s[i] \in Texts
  OBVIOUS
<1> HIDE DEF n, t
<1>7. /\ \A i \in 1 .. n : t[i] \in Texts
      /\ t[n + 1] \in Texts /\ t[n + 2] = "."
  BY <1>2, <1>4, <1>5, <1>6
<1>8. \A i \in 1 .. n + 2 : i \in 1 .. n \/ i = n + 1 \/ i = n + 2
  BY <1>4
<1>9. \A i \in 1 .. n + 2 : t[i] \in Texts \/ (t[i] = "." /\ i = n + 2)
  BY <1>7, <1>8
<1>10. t # << >> /\ t[Len(t)] = "."
  BY <1>4, <1>5, <1>7
<1> QED
  BY <1>5, <1>9, <1>10 DEF t

\* A command is alone.
LEMMA CommandWritten ==
  ASSUME NEW c \in Commands
  PROVE  /\ << >> \o Written(c) = << c >> /\ << c >> \in Seq(Line)
         /\ << c >> # << >> /\ Len(<< c >>) = 1 /\ << c >>[1] = c
<1>1. Written(c) = << c >>
  BY DEF Written, Commands
<1>2. << c >> \in Seq(Line)
  BY DEF Line
<1>3. << >> \o << c >> = << c >>
  BY <1>2, ConcatEmptySeq
<1> QED
  BY <1>1, <1>2, <1>3

\* The page writes.
LEMMA WriteLineKeeps == MailInv /\ WriteLine => MailInv'
<1> SUFFICES ASSUME MailInv, WriteLine PROVE MailInv'
  OBVIOUS
<1>1. /\ page = "writes" /\ lines # << >> /\ lines' = Tail(lines)
      /\ lines \in Seq(Line) /\ ~misread
      /\ UNCHANGED << toPage, server, misread >>
  BY DEF WriteLine, serverVars, MailInv
<1>2. lines' \in Seq(Line) /\ ~misread'
  BY <1>1, TailOf
<1>3. CASE server = "closed"
  BY <1>1, <1>2, <1>3 DEF MailInv
<1>4. CASE server # "closed"
  <2>1. UnderWay /\ WritesAsExpected
    BY <1>4 DEF MailInv
  <2>2. /\ toServer' = toServer \o Written(Head(lines))
        /\ IF Answered(Head(lines)) THEN page' = "reads" /\ sent' = Head(lines)
           ELSE UNCHANGED << page, sent >>
    BY <1>4 DEF WriteLine
  <2>3. toServer \in Seq(Line) /\ toPage = << >> /\ toPage' = << >>
        /\ toPage' \in Seq(Reply) /\ server \in {"command", "text"}
    BY <1>1, <2>1 DEF UnderWay, WritesAsExpected
  <2>4. CASE server = "text"
    <3>1. Message(lines) /\ \A i \in 1 .. Len(toServer) : toServer[i] \in Texts
      BY <1>1, <2>1, <2>4 DEF WritesAsExpected
    <3>2. /\ Head(lines) \in Texts \cup {"."}
          /\ Head(lines) \in Texts => Message(lines')
          /\ Head(lines) = "." => Quits(lines')
      BY <1>1, <3>1, MessageGoesOn
    <3>3. CASE Head(lines) \in Texts
      <4>1. page' = "writes"
        BY <1>1, <2>2, <3>3 DEF Answered, Commands, Texts
      <4>2. /\ toServer' \in Seq(Line)
            /\ \A i \in 1 .. Len(toServer') : toServer'[i] \in Texts
        BY <2>2, <2>3, <3>1, <3>3, TextWritten
      <4> QED
        BY <1>1, <1>2, <2>3, <2>4, <3>2, <3>3, <4>1, <4>2
           DEF MailInv, UnderWay, WritesAsExpected, ReadsOneAnswer
    <3>4. CASE Head(lines) = "."
      <4>1. page' = "reads" /\ sent' = "."
        BY <2>2, <3>4 DEF Answered
      <4>2. /\ toServer' \in Seq(Line) /\ toServer' # << >>
            /\ toServer'[Len(toServer')] = "."
            /\ \A i \in 1 .. Len(toServer') :
                 toServer'[i] \in Texts \/ (toServer'[i] = "." /\ i = Len(toServer'))
        BY <2>2, <2>3, <3>1, <3>4, PeriodWritten
      <4>3. UnderWay' /\ WritesAsExpected'
        BY <1>1, <2>3, <2>4, <4>1, <4>2 DEF UnderWay, WritesAsExpected
      <4>4. ReadsOneAnswer'
        BY <1>1, <2>3, <2>4, <3>2, <3>4, <4>1, <4>2 DEF ReadsOneAnswer
      <4> QED
        BY <1>2, <4>3, <4>4 DEF MailInv
    <3> QED
      BY <3>2, <3>3, <3>4
  <2>5. CASE server = "command"
    <3>1. toServer = << >> /\ (Dialogue(lines) \/ Quits(lines))
      BY <1>1, <2>1, <2>5 DEF WritesAsExpected
    <3> DEFINE c == Head(lines)
    <3>2. /\ c \in Commands
          /\ c = "QUIT" \/ (c = "DATA" /\ Message(lines'))
             \/ (c \in {"HELO", "MAIL", "RCPT"} /\ Dialogue(lines'))
      <4>1. CASE Dialogue(lines)
        BY <1>1, <4>1, DialogueGoesOn DEF Commands
      <4>2. CASE Quits(lines)
        <5>1. c = "QUIT"
          BY <1>1, <4>2, TailOf DEF Quits
        <5> QED
          BY <5>1 DEF Commands
      <4> QED
        BY <3>1, <4>1, <4>2
    <3> HIDE DEF c
    <3>3. page' = "reads" /\ sent' = c
      BY <2>2, <3>2 DEF Answered, c
    <3>4. toServer' = << c >> /\ toServer' \in Seq(Line) /\ toServer' # << >>
          /\ Len(toServer') = 1 /\ toServer'[1] = c
      BY <2>2, <3>1, <3>2, CommandWritten DEF c
    <3>5. UnderWay' /\ WritesAsExpected'
      BY <1>1, <2>3, <2>5, <3>2, <3>3, <3>4 DEF UnderWay, WritesAsExpected
    <3>6. ReadsOneAnswer'
      BY <1>1, <2>3, <2>5, <3>2, <3>3, <3>4 DEF ReadsOneAnswer, Commands
    <3> QED
      BY <1>2, <3>5, <3>6 DEF MailInv
  <2> QED
    BY <2>3, <2>4, <2>5
<1> QED
  BY <1>3, <1>4

\* The page reads an answer, or the old one when the connection is closed.
LEMMA AnswerKept ==
  ASSUME MailInv, NEW line, page = "reads", Respond(line), UNCHANGED misread
  PROVE  lines' \in Seq(Line) /\ ~misread' /\ page' = "writes"
<1>1. lines' = lines \/ lines' = << >> \/ lines' = AfterRefusal(Send)
  BY DEF Respond
<1>2. lines \in Seq(Line) /\ << >> \in Seq(Line) /\ AfterRefusal(Send) \in Seq(Line)
  BY PageBegins, EmptySeq DEF MailInv
<1> QED
  BY <1>1, <1>2 DEF MailInv, Respond

\* The page knows from the answer what the server expects next.
LEMMA ReadReplyKeeps == MailInv /\ ReadReply => MailInv'
<1> SUFFICES ASSUME MailInv, ReadReply PROVE MailInv'
  OBVIOUS
<1>1. /\ page = "reads" /\ toPage # << >> /\ Respond(Head(toPage))
      /\ toPage' = Tail(toPage)
      /\ UNCHANGED << sent, toServer, server, misread >>
  BY DEF ReadReply, serverVars
<1>2. lines' \in Seq(Line) /\ ~misread' /\ page' = "writes"
  BY <1>1, AnswerKept
<1>3. CASE server = "closed"
  BY <1>1, <1>2, <1>3 DEF MailInv
<1>4. CASE server # "closed"
  <2>1. UnderWay /\ ReadsOneAnswer
    BY <1>4 DEF MailInv
  <2>2. /\ toServer = << >> /\ toPage \in Seq(Reply) /\ Len(toPage) = 1
        /\ sent # "QUIT" /\ server \in {"command", "text"}
        /\ server = "text" <=> (sent = "DATA" /\ toPage[1] = "354")
    BY <1>1, <2>1 DEF UnderWay, ReadsOneAnswer
  <2>3. toPage' = << >> /\ Head(toPage) = toPage[1]
    <3>1. /\ Tail(toPage) \in Seq(Reply) /\ Len(Tail(toPage)) = Len(toPage) - 1
          /\ Head(toPage) = toPage[1]
      BY <1>1, <2>2, TailOf
    <3>2. Len(Tail(toPage)) = 0
      BY <2>2, <3>1
    <3> QED
      BY <1>1, <3>1, <3>2, EmptySeq
  <2>4. UnderWay'
    BY <1>1, <2>1, <2>2, <2>3, EmptySeq DEF UnderWay
  <2>5. WritesAsExpected'
    <3>1. CASE server = "text"
      <4>1. sent = "DATA" /\ toPage[1] = "354"
        BY <2>2, <3>1
      <4>2. Message(lines) /\ lines' = lines
        BY <1>1, <2>1, <2>3, <4>1 DEF ReadsOneAnswer, Respond, Expected
      <4> QED
        BY <1>1, <2>2, <2>3, <3>1, <4>2 DEF WritesAsExpected
    <3>2. CASE server = "command"
      <4>1. ~(sent = "DATA" /\ toPage[1] = Expected("DATA"))
        BY <2>2, <3>2 DEF Expected
      <4>2. \/ lines' = lines /\ sent \notin {"DATA", "QUIT"}
            \/ lines' = << >> \/ lines' = AfterRefusal(Send)
        BY <1>1, <2>2, <2>3, <4>1 DEF Respond
      <4>3. sent \in {"connect", "HELO", "MAIL", "RCPT", "DATA", ".", "QUIT"}
        BY <1>1, <2>1 DEF ReadsOneAnswer, Commands
      <4>4. Dialogue(lines') \/ Quits(lines')
        BY <1>1, <2>1, <4>2, <4>3, PageBegins DEF ReadsOneAnswer
      <4> QED
        BY <1>1, <2>2, <2>3, <3>2, <4>4 DEF WritesAsExpected
    <3> QED
      BY <2>2, <3>1, <3>2
  <2> QED
    BY <1>2, <2>4, <2>5 DEF MailInv, ReadsOneAnswer
<1> QED
  BY <1>3, <1>4

\* The other steps of the page.
LEMMA PageStepKeeps == MailInv /\ PageStep => MailInv'
<1> SUFFICES ASSUME MailInv, PageStep PROVE MailInv'
  OBVIOUS
<1>1. CASE Thank
  BY <1>1 DEF Thank, MailInv, UnderWay, WritesAsExpected, ReadsOneAnswer,
              wireVars, serverVars
<1>2. CASE ReadStale
  <2>1. /\ page = "reads" /\ server = "closed" /\ Respond(buffer)
        /\ UNCHANGED << server, misread >>
    BY <1>2 DEF ReadStale, serverVars
  <2>2. lines' \in Seq(Line) /\ ~misread'
    BY <2>1, AnswerKept
  <2> QED
    BY <2>1, <2>2 DEF MailInv
<1>3. CASE Timeout
  BY <1>3 DEF Timeout, MailInv, UnderWay, WritesAsExpected, ReadsOneAnswer,
              wireVars, serverVars
<1> QED
  BY <1>1, <1>2, <1>3, WriteLineKeeps, ReadReplyKeeps DEF PageStep

\* The server reads a line.
LEMMA ServerReadsKeeps == MailInv /\ ServerReads => MailInv'
<1> SUFFICES ASSUME MailInv, ServerReads PROVE MailInv'
  OBVIOUS
<1> DEFINE line == Head(toServer)
<1>1. /\ server # "closed" /\ toServer # << >> /\ toServer' = Tail(toServer)
      /\ UNCHANGED << page, lines, sent >>
  BY DEF ServerReads
<1>2. UnderWay /\ WritesAsExpected /\ ReadsOneAnswer /\ ~misread /\ lines \in Seq(Line)
  BY <1>1 DEF MailInv
<1>3. toServer \in Seq(Line) /\ toPage \in Seq(Reply) /\ server \in {"command", "text"}
  BY <1>2 DEF UnderWay
<1>4. /\ toServer' \in Seq(Line) /\ Len(toServer') = Len(toServer) - 1
      /\ line = toServer[1] /\ Len(toServer) \in Nat \ {0}
      /\ \A i \in 1 .. Len(toServer) - 1 : toServer'[i] = toServer[i + 1]
  BY <1>1, <1>3, TailOf
<1>5. CASE server = "text" /\ line # "."
  <2>1. UNCHANGED << toPage, server, misread >>
    BY <1>5 DEF ServerReads
  <2>2. \A i \in 1 .. Len(toServer') :
          toServer'[i] \in Texts \/ (toServer'[i] = "." /\ i = Len(toServer'))
    <3>1. \A i \in 1 .. Len(toServer) :
            toServer[i] \in Texts \/ (toServer[i] = "." /\ i = Len(toServer))
      BY <1>2, <1>5 DEF UnderWay
    <3>2. ASSUME NEW i \in 1 .. Len(toServer) - 1
          PROVE  /\ i + 1 \in 1 .. Len(toServer) /\ toServer'[i] = toServer[i + 1]
                 /\ i + 1 = Len(toServer) => i = Len(toServer) - 1
      BY <1>4
    <3> QED
      BY <1>4, <3>1, <3>2
  <2>3. UnderWay'
    BY <1>3, <1>4, <1>5, <2>1, <2>2 DEF UnderWay
  <2>4. WritesAsExpected'
    <3>1. ASSUME page = "writes"
          PROVE  /\ toPage = << >> /\ Message(lines)
                 /\ \A i \in 1 .. Len(toServer') : toServer'[i] \in Texts
      <4>1. /\ toPage = << >> /\ Message(lines)
            /\ \A i \in 1 .. Len(toServer) : toServer[i] \in Texts
        BY <1>2, <1>5, <3>1 DEF WritesAsExpected
      <4>2. ASSUME NEW i \in 1 .. Len(toServer) - 1
            PROVE  i + 1 \in 1 .. Len(toServer) /\ toServer'[i] = toServer[i + 1]
        BY <1>4
      <4> QED
        BY <1>4, <4>1, <4>2
    <3> QED
      BY <1>1, <1>5, <2>1, <3>1 DEF WritesAsExpected
  <2>5. ReadsOneAnswer'
    <3>1. ASSUME page = "reads"
          PROVE  /\ toPage = << >> /\ sent = "."
                 /\ toServer' # << >> /\ toServer'[Len(toServer')] = "."
      <4>1. toPage = << >>
        BY <1>1, <1>2, <3>1 DEF ReadsOneAnswer
      <4>2. sent = "." /\ toServer[Len(toServer)] = "."
        BY <1>2, <1>5, <3>1, <4>1 DEF ReadsOneAnswer
      <4>3. Len(toServer) # 1
        BY <1>4, <1>5, <4>2
      <4>4. Len(toServer') \in 1 .. Len(toServer) - 1
            /\ Len(toServer') + 1 = Len(toServer) /\ Len(toServer') # 0
        BY <1>4, <4>3
      <4>5. toServer' # << >>
        BY <4>4
      <4> QED
        BY <1>4, <4>1, <4>2, <4>4, <4>5
    <3> QED
      BY <1>1, <1>2, <1>5, <2>1, <3>1 DEF ReadsOneAnswer
  <2> QED
    BY <1>1, <1>2, <2>1, <2>3, <2>4, <2>5 DEF MailInv
<1>6. CASE server = "command" \/ line = "."
  <2>1. /\ toServer' = << >> /\ line \in Commands \cup {"."}
        /\ server = "command" => line \in Commands
        /\ toServer[Len(toServer)] = line
    <3>1. Len(toServer) = 1 /\ (line = "." \/ line \in Commands)
          /\ (server = "command" => line \in Commands)
      <4>1. CASE server = "command"
        BY <1>1, <1>2, <1>4, <4>1 DEF UnderWay
      <4>2. CASE server # "command"
        <5>1. line = "." /\ server = "text"
          BY <1>3, <1>6, <4>2
        <5>2. 1 \in 1 .. Len(toServer) /\ "." \notin Texts
          BY <1>4 DEF Texts
        <5>3. 1 = Len(toServer)
          BY <1>2, <1>4, <5>1, <5>2 DEF UnderWay
        <5> QED
          BY <4>2, <5>1, <5>3
      <4> QED
        BY <4>1, <4>2
    <3>2. Len(toServer') = 0
      BY <1>4, <3>1
    <3> QED
      BY <1>4, <3>1, <3>2, EmptySeq
  <2>2. line \notin Texts
    BY <2>1 DEF Commands, Texts
  <2>3. /\ misread' = (misread \/ line \in Texts)
        /\ \/ /\ toPage' = Append(toPage, IF line = "QUIT" THEN "221"
                                          ELSE Expected(line))
              /\ server' = CASE line = "QUIT" -> "closed"
                             [] line = "DATA" -> "text"
                             [] OTHER         -> "command"
           \/ /\ line # "QUIT" /\ toPage' = Append(toPage, "550")
              /\ server' = "command"
    BY <1>3, <1>6 DEF ServerReads
  <2>4. page # "writes"
    <3> SUFFICES ASSUME page = "writes" PROVE FALSE
      OBVIOUS
    <3>1. server = "text" /\ \A i \in 1 .. Len(toServer) : toServer[i] \in Texts
      BY <1>1, <1>2, <1>3 DEF WritesAsExpected
    <3>2. line \in Texts
      BY <1>4, <3>1
    <3> QED
      BY <2>2, <3>2
  <2>5. ~misread'
    BY <1>2, <2>2, <2>3
  <2>6. CASE server' = "closed"
    BY <1>1, <1>2, <2>5, <2>6 DEF MailInv
  <2>7. CASE server' # "closed"
    <3>1. PICK r \in Reply :
            /\ toPage' = Append(toPage, r) /\ line # "QUIT"
            /\ server' \in {"command", "text"}
            /\ server' = "text" <=> (line = "DATA" /\ r = "354")
      <4>1. CASE /\ toPage' = Append(toPage, IF line = "QUIT" THEN "221"
                                             ELSE Expected(line))
                 /\ server' = CASE line = "QUIT" -> "closed"
                                [] line = "DATA" -> "text"
                                [] OTHER         -> "command"
        <5>1. line # "QUIT"
          BY <2>7, <4>1
        <5>2. CASE line = "DATA"
          <6>1. server' = "text" /\ toPage' = Append(toPage, "354")
            BY <4>1, <5>2 DEF Expected
          <6>2. "354" \in Reply
            BY DEF Reply
          <6> QED
            BY <5>2, <6>1, <6>2
        <5>3. CASE line # "DATA"
          <6>1. server' = "command" /\ toPage' = Append(toPage, Expected(line))
            BY <4>1, <5>1, <5>3
          <6>2. Expected(line) \in Reply
            BY DEF Expected, Reply
          <6> QED
            BY <5>1, <5>3, <6>1, <6>2
        <5> QED
          BY <5>2, <5>3
      <4>2. CASE /\ line # "QUIT" /\ toPage' = Append(toPage, "550")
                 /\ server' = "command"
        <5>1. "550" \in Reply /\ "550" # "354"
          BY DEF Reply
        <5> QED
          BY <4>2, <5>1
      <4> QED
        BY <2>3, <4>1, <4>2
    <3>2. toPage' \in Seq(Reply)
      BY <1>3, <3>1
    <3>3. UnderWay'
      BY <2>1, <3>1, <3>2, EmptySeq DEF UnderWay
    <3>4. ASSUME page = "reads"
          PROVE  Len(toPage') = 1 /\ toPage'[1] = r /\ sent = line
      <4>1. toPage = << >> /\ sent = line
        BY <1>1, <1>2, <2>1, <3>4 DEF ReadsOneAnswer
      <4> QED
        BY <3>1, <4>1
    <3>5. ReadsOneAnswer'
      BY <1>1, <1>2, <2>1, <3>1, <3>4 DEF ReadsOneAnswer
    <3>6. WritesAsExpected'
      BY <1>1, <2>4 DEF WritesAsExpected
    <3> QED
      BY <1>1, <1>2, <2>5, <3>3, <3>5, <3>6 DEF MailInv
  <2> QED
    BY <2>6, <2>7
<1> QED
  BY <1>3, <1>5, <1>6

\* Every step of the page and of the server keeps MailInv.
LEMMA MailInvNext == MailInv /\ [MailNext]_mailVars => MailInv'
<1> SUFFICES ASSUME MailInv, [MailNext]_mailVars PROVE MailInv'
  OBVIOUS
<1>1. CASE ServerCloses
  BY <1>1 DEF ServerCloses, MailInv
<1>2. CASE UNCHANGED mailVars
  BY <1>2 DEF mailVars, wireVars, serverVars, MailInv, UnderWay,
              WritesAsExpected, ReadsOneAnswer
<1> QED
  BY <1>1, <1>2, PageStepKeeps, ServerReadsKeeps DEF MailNext

(***************************************************************************)
(* oc_SMTP::send writes the message also after a refusal (oc_Mail.cpp:225) *)
(* and yet the server never takes a line of it for a command, whatever it  *)
(* answers and whenever it closes, for any headers.                        *)
(***************************************************************************)
THEOREM MessageIsNoCommand == MailSpec => []TextIsNoCommand
<1>1. MailInv => TextIsNoCommand
  BY DEF MailInv, TextIsNoCommand
<1> QED
  BY <1>1, MailInvInit, MailInvNext, PTL DEF MailSpec

\* What the page and the server keep is what MailTypeOK says, apart from what
\* is under way.
MailShapes ==
  /\ page \in {"reads", "writes", "thanks", "killed", "spins"}
  /\ route \in {"none", "open", "refused"}
  /\ sent \in Commands \cup {"connect", "."}
  /\ server \in {"command", "text", "closed"}
  /\ misread \in BOOLEAN /\ pipeKills \in BOOLEAN

\* The page and the server begin and stay in their shape.
LEMMA MailKeepsShapes ==
  /\ MailInit => MailShapes
  /\ MailShapes /\ MailInv /\ [MailNext]_mailVars => MailShapes'
<1>1. MailInit => MailShapes
  BY DEF MailInit, MailShapes
<1>2. ASSUME MailShapes, MailInv, [MailNext]_mailVars PROVE MailShapes'
  <2>1. CASE WriteLine
    <3>1. Answered(Head(lines)) => Head(lines) \in Commands \cup {"."}
      BY DEF Answered
    <3> QED
      BY <1>2, <2>1, <3>1 DEF WriteLine, MailShapes, serverVars
  <2>2. CASE Thank
    BY <1>2, <2>2 DEF Thank, MailShapes, serverVars, wireVars
  <2>3. ASSUME NEW l, Respond(l) PROVE page' = "writes" /\ route' \in {route, "refused", "open", "none"}
    BY <2>3 DEF Respond
  <2>4. CASE ReadReply
    BY <1>2, <2>3, <2>4 DEF ReadReply, MailShapes, serverVars
  <2>5. CASE ReadStale
    BY <1>2, <2>3, <2>5 DEF ReadStale, MailShapes, serverVars
  <2>6. CASE Timeout
    BY <1>2, <2>6 DEF Timeout, MailShapes, serverVars, wireVars
  <2>7. CASE ServerReads
    BY <1>2, <2>7 DEF ServerReads, MailShapes
  <2>8. CASE ServerCloses
    BY <1>2, <2>8 DEF ServerCloses, MailShapes, wireVars
  <2>9. CASE UNCHANGED mailVars
    BY <1>2, <2>9 DEF mailVars, MailShapes, serverVars
  <2> QED
    BY <1>2, <2>1, <2>2, <2>4, <2>5, <2>6, <2>7, <2>8, <2>9 DEF MailNext, PageStep
<1> QED
  BY <1>1, <1>2

\* A page that waits for a reply has one coming: a line that will be answered
\* or the answer is under way, and nothing else that it could read instead.
LEMMA OneAnswerComes ==
  ASSUME MailInv, page = "reads", server # "closed"
  PROVE  Cardinality({i \in DOMAIN toServer : toServer[i] \in Commands \cup {"."}})
           + Len(toPage) = 1
<1>1. /\ toServer \in Seq(Line) /\ toPage \in Seq(Reply) /\ server \in {"command", "text"}
      /\ server = "text" => \A i \in 1 .. Len(toServer) :
           toServer[i] \in Texts \/ (toServer[i] = "." /\ i = Len(toServer))
      /\ server = "command" =>
           toServer = << >> \/ (Len(toServer) = 1 /\ toServer[1] \in Commands)
  BY DEF MailInv, UnderWay
<1>2. /\ sent \in Commands \cup {"connect", "."}
      /\ toPage # << >> => toServer = << >> /\ Len(toPage) = 1
      /\ toPage = << >> => toServer # << >> /\ toServer[Len(toServer)] = sent
  BY DEF MailInv, ReadsOneAnswer
<1> DEFINE n == Len(toServer)
           A == {i \in DOMAIN toServer : toServer[i] \in Commands \cup {"."}}
<1>3. CASE toPage # << >>
  <2>1. A = {}
    BY <1>2, <1>3
  <2>2. Cardinality(A) = 0
    BY <2>1, FS_EmptySet
  <2> HIDE DEF A
  <2>3. Cardinality(A) + Len(toPage) = 1
    BY <1>2, <1>3, <2>2
  <2> QED
    BY <2>3 DEF A
<1>4. CASE toPage = << >>
  <2>1. n \in Nat /\ n >= 1 /\ DOMAIN toServer = 1 .. n /\ toServer[n] = sent
    BY <1>1, <1>2, <1>4
  <2>2. toServer[n] \in Commands \cup {"."}
    <3>1. toServer[n] \in Line
      <4>1. \A i \in 1 .. Len(toServer) : toServer[i] \in Line
        BY <1>1, ElementOfSeq
      <4> HIDE DEF n, Line
      <4> QED
        BY <2>1, <4>1 DEF n
    <3>2. "connect" \notin Line
      BY DEF Line, Commands, Texts
    <3> QED
      BY <1>2, <2>1, <3>1, <3>2
  <2>3. \A i \in 1 .. n : toServer[i] \in Commands \cup {"."} => i = n
    <3>1. CASE server = "text"
      <4>1. \A x \in Texts : x \notin Commands \cup {"."}
        BY DEF Texts, Commands
      <4> QED
        BY <1>1, <3>1, <4>1
    <3>2. CASE server = "command"
      BY <1>1, <1>2, <1>4, <3>2
    <3> QED
      BY <1>1, <3>1, <3>2
  <2>4. n \in 1 .. n
    <3> HIDE DEF n
    <3> QED
      BY <2>1
  <2>5. A = {n}
    <3>1. A = {i \in 1 .. n : toServer[i] \in Commands \cup {"."}}
      BY <2>1
    <3> HIDE DEF n, A
    <3> QED
      BY <2>2, <2>3, <2>4, <3>1
  <2>6. Cardinality(A) = 1
    BY <2>5, FS_Singleton
  <2>7. Len(toPage) = 0
    BY <1>4
  <2> HIDE DEF A
  <2>8. Cardinality(A) + Len(toPage) = 1
    BY <2>6, <2>7
  <2> QED
    BY <2>8 DEF A
<1> QED
  BY <1>3, <1>4

\* What MailTypeOK says, for any headers and any answers of the server; of
\* the fairness of MailSpec nothing is needed.
THEOREM MailTypesHold == MailInit /\ [][MailNext]_mailVars => []MailTypeOK
<1>1. MailInv /\ MailShapes => MailTypeOK
  <2> SUFFICES ASSUME MailInv, MailShapes PROVE MailTypeOK
    OBVIOUS
  <2>1. lines \in Seq(Commands \cup Texts \cup {"."})
    BY DEF MailInv, Line
  <2>2. page = "reads" /\ server # "closed" =>
          Cardinality({i \in DOMAIN toServer : toServer[i] \in Commands \cup {"."}})
            + Len(toPage) = 1
    BY OneAnswerComes
  <2> QED
    BY <2>1, <2>2 DEF MailShapes, MailTypeOK
<1> QED
  BY <1>1, MailInvInit, MailInvNext, MailKeepsShapes, PTL

-----------------------------------------------------------------------------
(* Menus.                                                                  *)

\* The orders of the entries S tell them apart.
Distinct(S) == \A a, b \in S : place[a].order = place[b].order => a = b

\* Only the entry that a request has just given an order may share it, until
\* the others have made way.
Unambiguous ==
  orderly =>
    /\ \A w, v \in Writers : todo[w].step # "idle" /\ todo[v].step # "idle" => w = v
    /\ (\A w \in Writers : todo[w].step \notin {"reread", "shift"}) => Distinct(entries)
    /\ \A w \in Writers :
         /\ todo[w].step \in {"neighbour", "update", "reread", "shift"} =>
              todo[w].id \in entries
         /\ todo[w].step # "idle" => todo[w].oid \in entries \cup {0}
         /\ todo[w].step = "other" => todo[w].oid # 0
         /\ todo[w].step \in {"reread", "shift"} => Distinct(entries \ {todo[w].id})
         /\ todo[w].step = "shift" => todo[w].order = place[todo[w].id].order

\* What a process has left to do.
Job == {j \in [step : Steps, move : Moves, id : 0 .. given, order : Int,
               level : 1 .. MaxLevel, old : Int, oid : 0 .. given,
               left : 0 .. Paragraphs] : j.step = "add" => j.left > 0}
Places == [Entries -> [order : Int, level : 1 .. MaxLevel]]

MenuTypes ==
  /\ kind \in {"menu", "page"} /\ orderly \in BOOLEAN
  /\ given \in 0 .. MaxEntries /\ entries \subseteq 1 .. given
  /\ place \in Places
  /\ todo \in [Writers -> Job] /\ writes \in Nat

MenuInv == MenuTypes /\ Unambiguous

\* Some entry of any there are comes last.
LEMMA SomeIsLargest ==
  ASSUME NEW f \in [Entries -> Int], NEW S \in SUBSET Entries, S # {}
  PROVE  \E m \in S : \A e \in S : f[e] <= f[m]
<1> DEFINE HasLargest(T) == \E m \in T : \A e \in T : f[e] <= f[m]
           Bad == {n \in Nat : \E T \in SUBSET Entries :
                     T \subseteq 1 .. n /\ T # {} /\ ~HasLargest(T)}
           less == OpToRel(<, Nat)
<1>0. MaxEntries \in Nat /\ Entries = 1 .. MaxEntries
  BY MenuAssumption DEF Entries
<1>1. less = {ss \in Nat \X Nat : ss[1] < ss[2]} /\ IsWellFoundedOn(less, Nat)
  BY NatLessThanWellFounded DEF OpToRel
<1> HIDE DEF less
<1>2. ASSUME Bad # {} PROVE FALSE
  <2>1. Bad \subseteq Nat
    OBVIOUS
  <2> HIDE DEF Bad
  <2>2. PICK n \in Bad : \A k \in Bad : ~(<< k, n >> \in less)
    BY <1>1, <1>2, <2>1, WFMin
  <2>3. n \in Nat /\ (n > 0 => n - 1 \notin Bad)
    <3>1. n \in Nat
      BY <2>1
    <3>2. ASSUME n > 0, n - 1 \in Bad PROVE FALSE
      <4>1. n - 1 \in Nat /\ n - 1 < n
        BY <3>1, <3>2
      <4>2. << n - 1, n >> \in Nat \X Nat
        BY <3>1, <4>1
      <4>3. << n - 1, n >> \in less
        BY <1>1, <4>1, <4>2
      <4> QED
        BY <2>2, <3>2, <4>3
    <3> QED
      BY <3>1, <3>2
  <2>4. PICK T \in SUBSET Entries : T \subseteq 1 .. n /\ T # {} /\ ~HasLargest(T)
    BY DEF Bad
  <2>5. n > 0
    <3>1. PICK e \in T : e \in 1 .. n
      BY <2>4
    <3> QED
      BY <2>3, <3>1
  <2> DEFINE R == T \ {n}
  <2>6. R \subseteq 1 .. (n - 1) /\ n - 1 \in Nat /\ R \in SUBSET Entries
    BY <2>3, <2>4, <2>5
  <2>7. R = {} \/ HasLargest(R)
    <3> HIDE DEF R, HasLargest
    <3> QED
      BY <2>3, <2>5, <2>6 DEF Bad
  <2>8. CASE R = {}
    <3>1. T = {n} /\ f[n] \in Int
      BY <1>0, <2>4, <2>8
    <3>2. HasLargest(T)
      BY <3>1
    <3> QED
      BY <2>4, <3>2
  <2>9. CASE HasLargest(R)
    <3>1. PICK m \in R : \A e \in R : f[e] <= f[m]
      BY <2>9
    <3>2. m \in T /\ f[m] \in Int /\ \A e \in T : e \in R \/ e = n
      BY <2>4
    <3>3. CASE n \in T /\ f[n] > f[m]
      <4>1. f[n] \in Int /\ \A e \in R : f[e] \in Int
        BY <2>4, <3>3
      <4>2. \A e \in T : f[e] <= f[n]
        BY <3>1, <3>2, <3>3, <4>1
      <4> QED
        BY <2>4, <3>3, <4>2
    <3>4. CASE ~(n \in T /\ f[n] > f[m])
      <4>1. \A e \in T : f[e] <= f[m]
        BY <2>4, <3>1, <3>2, <3>4
      <4> QED
        BY <2>4, <3>2, <4>1
    <3> QED
      BY <3>3, <3>4
  <2> QED
    BY <2>7, <2>8, <2>9
<1>3. S \subseteq 1 .. MaxEntries
  BY <1>0
<1> QED
  BY <1>0, <1>2, <1>3

\* select max(place_order).
LEMMA LargestIsLargest ==
  ASSUME NEW p \in Places, NEW S \in SUBSET Entries
  PROVE  Largest(S, p) \in Int /\ \A e \in S : p[e].order <= Largest(S, p)
<1>0. \A e \in Entries : p[e].order \in Int
  BY DEF Places
<1>1. CASE S = {}
  BY <1>1 DEF Largest
<1>2. CASE S # {}
  <2> DEFINE f == [e \in Entries |-> p[e].order]
             O == {p[e].order : e \in S}
  <2>1. f \in [Entries -> Int]
    BY <1>0
  <2>2. PICK m \in S : \A e \in S : f[e] <= f[m]
    <3> HIDE DEF f
    <3> QED
      BY <1>2, <2>1, SomeIsLargest
  <2>3. p[m].order \in O /\ \A y \in O : p[m].order >= y
    BY <1>0, <2>2
  <2> HIDE DEF O
  <2>4. Max(O) \in O /\ \A y \in O : Max(O) >= y
    BY <2>3 DEF Max
  <2>5. O \subseteq Int
    BY <1>0 DEF O
  <2>6. Largest(S, p) = Max(O)
    BY <1>2 DEF Largest, O
  <2>7. \A e \in S : p[e].order \in O
    BY DEF O
  <2> QED
    BY <2>4, <2>5, <2>6, <2>7
<1> QED
  BY <1>1, <1>2

\* What the types say of one process and one entry.
LEMMA TypesSay ==
  ASSUME MenuTypes
  PROVE  /\ \A w \in Writers :
              /\ todo[w] \in Job /\ todo[w].step \in Steps /\ todo[w].move \in Moves
              /\ todo[w].id \in 0 .. given /\ todo[w].oid \in 0 .. given
              /\ todo[w].order \in Int /\ todo[w].old \in Int
              /\ todo[w].level \in 1 .. MaxLevel /\ todo[w].left \in 0 .. Paragraphs
         /\ \A e \in Entries : place[e].order \in Int /\ place[e].level \in 1 .. MaxLevel
         /\ entries \subseteq Entries /\ given \in Nat /\ MaxEntries \in Nat
         /\ Entries = 1 .. MaxEntries
<1>1. \A w \in Writers : todo[w] \in Job
  BY DEF MenuTypes
<1>2. \A e \in Entries : place[e] \in [order : Int, level : 1 .. MaxLevel]
  BY DEF MenuTypes, Places
<1>3. MaxEntries \in Nat /\ given \in Nat /\ entries \subseteq Entries
  BY MenuAssumption DEF MenuTypes, Entries
<1> QED
  BY <1>1, <1>2, <1>3 DEF Job, Entries

\* Nothing to do is a job.
LEMMA IdleType == given \in Nat => Idle \in Job /\ Idle.oid = 0 /\ Idle.step = "idle"
<1>1. 0 \in 0 .. Paragraphs /\ 1 \in 1 .. MaxLevel
  BY MenuAssumption
<1> QED
  BY <1>1 DEF Idle, Job, Steps, Moves

\* Nobody has anything to do, and the entries are told apart.
LEMMA MenuInvInit == MenusInit => MenuInv
<1> SUFFICES ASSUME MenusInit PROVE MenuInv
  OBVIOUS
<1>0. MaxEntries \in Nat /\ MaxLevel \in Nat \ {0} /\ Paragraphs \in Nat
  BY MenuAssumption
<1>1. given \in 0 .. MaxEntries
  <2>1. given = Min({2, MaxEntries})
    BY DEF MenusInit
  <2>2. CASE MaxEntries <= 2
    <3>1. Min({2, MaxEntries}) = MaxEntries
      BY <1>0, <2>2 DEF Min
    <3> QED
      BY <1>0, <2>1, <3>1
  <2>3. CASE ~(MaxEntries <= 2)
    <3>1. Min({2, MaxEntries}) = 2
      BY <1>0, <2>3 DEF Min
    <3> QED
      BY <1>0, <2>1, <2>3, <3>1
  <2> QED
    BY <2>2, <2>3
<1>2. Idle \in Job
  BY <1>0, <1>1, IdleType
<1>3. place \in Places
  <2>1. \A e \in Entries : e \in Int /\ 1 \in 1 .. MaxLevel
    BY <1>0 DEF Entries
  <2> QED
    BY <2>1 DEF MenusInit, Places
<1>4. MenuTypes
  BY <1>1, <1>2, <1>3 DEF MenusInit, MenuTypes
<1>5. \A w \in Writers : todo[w].step = "idle"
  BY DEF MenusInit, Idle
<1>6. Distinct(entries)
  BY <1>0, <1>1 DEF MenusInit, Distinct, Entries
<1>7. Unambiguous
  BY <1>5, <1>6 DEF Unambiguous
<1> QED
  BY <1>4, <1>7 DEF MenuInv

\* A process goes on with another job, and the entries stay.
LEMMA GoesOn ==
  ASSUME MenuTypes, NEW w \in Writers, NEW job, Does(w, job), job \in Job',
         kind' = kind, orderly' = orderly, given' \in given .. MaxEntries,
         entries' \subseteq 1 .. given', place' \in Places, writes' \in Nat
  PROVE  /\ MenuTypes' /\ todo'[w] = job
         /\ \A v \in Writers \ {w} : todo'[v] = todo[v]
<1>1. given \in Nat /\ given' \in Nat /\ given <= given' /\ MaxEntries \in Nat
  BY MenuAssumption DEF MenuTypes
<1>2. \A j \in Job : j \in Job'
  <2>1. 0 .. given \subseteq 0 .. given'
    BY <1>1
  <2> HIDE DEF MenuTypes
  <2> QED
    BY <2>1 DEF Job
<1>3. todo' = [todo EXCEPT ![w] = job] /\ todo \in [Writers -> Job]
  BY DEF Does, MenuTypes
<1>4. todo' \in [Writers -> Job']
  BY <1>2, <1>3
<1>5. given' \in 0 .. MaxEntries
  BY <1>1
<1>6. MenuTypes'
  <2>1. Places' = Places
    BY DEF Places, Entries
  <2> QED
    BY <1>4, <1>5, <2>1 DEF MenuTypes
<1> QED
  BY <1>3, <1>6

\* The process that has something to do is the only one, if all is orderly.
LEMMA OnlyOne ==
  ASSUME MenuInv, orderly, NEW w \in Writers, todo[w].step # "idle"
  PROVE  /\ \A v \in Writers \ {w} : todo[v].step = "idle"
         /\ todo[w].step \notin {"reread", "shift"} => Distinct(entries)
BY DEF MenuInv, Unambiguous

(***************************************************************************)
(* What a process does is in order: nobody else is doing anything, and it  *)
(* leaves the entries as its next step has to find them.                   *)
(***************************************************************************)
InOrder(w) ==
  /\ \A v \in Writers \ {w} : todo[v].step = "idle"
  /\ todo[w].step \notin {"reread", "shift"} => Distinct(entries)
  /\ todo[w].step \in {"neighbour", "update", "reread", "shift"} =>
       todo[w].id \in entries
  /\ todo[w].step # "idle" => todo[w].oid \in entries \cup {0}
  /\ todo[w].step = "other" => todo[w].oid # 0
  /\ todo[w].step \in {"reread", "shift"} => Distinct(entries \ {todo[w].id})
  /\ todo[w].step = "shift" => todo[w].order = place[todo[w].id].order

\* One process in order, and nobody else at work.
LEMMA InOrderIsEnough ==
  ASSUME NEW w \in Writers, orderly' => InOrder(w)'
  PROVE  Unambiguous'
<1> SUFFICES ASSUME orderly' PROVE Unambiguous'
  BY DEF Unambiguous
<1>1. InOrder(w)'
  OBVIOUS
<1>2. \A v \in Writers : v # w => todo'[v].step = "idle"
  BY <1>1 DEF InOrder
<1>3. (\A v \in Writers : todo'[v].step \notin {"reread", "shift"}) =>
        Distinct(entries)'
  BY <1>1 DEF InOrder
<1>4. ASSUME NEW v \in Writers
      PROVE  /\ todo'[v].step \in {"neighbour", "update", "reread", "shift"} =>
                  todo'[v].id \in entries'
             /\ todo'[v].step # "idle" => todo'[v].oid \in entries' \cup {0}
             /\ todo'[v].step = "other" => todo'[v].oid # 0
             /\ todo'[v].step \in {"reread", "shift"} =>
                  Distinct(entries \ {todo[v].id})'
             /\ todo'[v].step = "shift" =>
                  todo'[v].order = place'[todo'[v].id].order
  <2>1. CASE v = w
    BY <1>1, <2>1 DEF InOrder
  <2>2. CASE v # w
    BY <1>2, <2>2
  <2> QED
    BY <2>1, <2>2
<1> QED
  BY <1>2, <1>3, <1>4 DEF Unambiguous

\* A request that begins when nobody is doing anything, or not in order.
LEMMA BeginsQuiet ==
  ASSUME MenuInv, NEW w \in Writers, NEW what, NEW e, Begin(w, what, e)
  PROVE  /\ todo[w].step = "idle" /\ writes' \in Nat
         /\ orderly => Quiet /\ Distinct(entries)
<1>1. todo[w].step = "idle" /\ writes' = writes + 1 /\ (orderly => Quiet)
  BY DEF Begin
<1>2. orderly => Distinct(entries)
  BY <1>1 DEF MenuInv, Unambiguous, Quiet
<1> QED
  BY <1>1, <1>2 DEF MenuInv, MenuTypes

\* The order that ivalidate gives is a number; the one it makes up comes last.
LEMMA ValidatedType ==
  ASSUME MenuTypes, NEW order \in Int, NEW named \in BOOLEAN
  PROVE  /\ Validated(order, named) \in Int
         /\ order = 0 /\ named =>
              \A a \in entries : place[a].order < Validated(order, named)
<1>1. place \in Places /\ entries \in SUBSET Entries
      /\ \A a \in Entries : place[a].order \in Int
  BY TypesSay DEF MenuTypes
<1> DEFINE m == Largest(entries, place)
<1>2. m \in Int /\ \A a \in entries : place[a].order <= m
  BY <1>1, LargestIsLargest
<1> HIDE DEF m
<1>3. Validated(order, named) = IF order = 0 /\ (kind = "menu" \/ named)
                                THEN m + 1 ELSE order
  BY DEF Validated, m
<1> QED
  BY <1>1, <1>2, <1>3

\* A new entry.
LEMMA Added ==
  ASSUME MenuTypes, given < MaxEntries, NEW p \in [order : Int, level : 1 .. MaxLevel],
         given' = given + 1, entries' = entries \cup {given'},
         place' = [place EXCEPT ![given'] = p]
  PROVE  /\ given' \in given .. MaxEntries /\ entries' \subseteq 1 .. given'
         /\ place' \in Places /\ entries' \ {given'} = entries
         /\ given' \in Entries /\ given' \notin entries
         /\ place'[given'] = p /\ \A a \in entries : place'[a] = place[a]
<1>1. given \in 0 .. MaxEntries /\ MaxEntries \in Nat /\ entries \subseteq 1 .. given
      /\ place \in Places /\ Entries = 1 .. MaxEntries
  BY TypesSay DEF MenuTypes
<1>2. given' \in 1 .. MaxEntries /\ given' \in given .. MaxEntries
      /\ given' \notin 1 .. given /\ 1 .. given \subseteq 1 .. given'
  BY <1>1
<1>3. place' \in Places /\ place'[given'] = p /\ \A a \in entries : place'[a] = place[a]
  BY <1>1, <1>2 DEF Places
<1> QED
  BY <1>1, <1>2, <1>3

\* A new entry comes last.
LEMMA InsertKeeps ==
  ASSUME MenuInv, NEW w \in Writers, Insert(w)
  PROVE  MenuInv'
<1>1. PICK order \in Orders \cup {0}, named \in BOOLEAN :
        /\ orderly => order = 0 /\ named
        /\ place' = [place EXCEPT ![given + 1] =
                       [order |-> Validated(order, named), level |-> 1]]
  BY DEF Insert
<1>2. /\ Begin(w, "insert", 0) /\ given < MaxEntries /\ given' = given + 1
      /\ entries' = entries \cup {given'} /\ UNCHANGED << kind, orderly, todo >>
  BY DEF Insert
<1>3. MenuTypes /\ order \in Int /\ 1 \in 1 .. MaxLevel
  BY MenuAssumption DEF MenuInv
<1> DEFINE v == Validated(order, named)
           p == [order |-> v, level |-> 1]
<1>4. v \in Int /\ (orderly => \A a \in entries : place[a].order < v)
  BY <1>1, <1>3, ValidatedType
<1> HIDE DEF v
<1>5. p \in [order : Int, level : 1 .. MaxLevel] /\ p.order = v
  BY <1>3, <1>4
<1>6. place' = [place EXCEPT ![given'] = p]
  BY <1>1, <1>2 DEF v
<1> HIDE DEF p
<1>7. /\ given' \in given .. MaxEntries /\ entries' \subseteq 1 .. given'
      /\ place' \in Places /\ place'[given'] = p
      /\ \A a \in entries : place'[a] = place[a]
  BY <1>2, <1>3, <1>5, <1>6, Added
<1>8. todo[w].step = "idle" /\ writes' \in Nat
      /\ (orderly => Quiet /\ Distinct(entries))
  BY <1>2, BeginsQuiet
<1>9. MenuTypes'
  <2>1. todo[w] \in Job' /\ Does(w, todo[w])
    <3>1. todo[w] \in Job /\ 0 .. given \subseteq 0 .. given'
      BY <1>2, <1>3, TypesSay
    <3>2. todo[w] \in Job'
      BY <3>1 DEF Job
    <3> QED
      BY <1>2, <1>3, <3>2 DEF Does, MenuTypes
  <2> QED
    BY <1>2, <1>3, <1>7, <1>8, <2>1, GoesOn
<1>10. orderly => Distinct(entries)'
  <2> SUFFICES ASSUME orderly, NEW a \in entries', NEW b \in entries', a # b
               PROVE  place'[a].order # place'[b].order
    BY DEF Distinct
  <2>1. \A c \in entries : place'[c] = place[c] /\ place[c].order \in Int
                          /\ place[c].order < v
    BY <1>3, <1>4, <1>7, TypesSay
  <2>2. a \in entries /\ b \in entries => place[a].order # place[b].order
    BY <1>8 DEF Distinct
  <2>3. place'[given'].order = v
    BY <1>5, <1>7
  <2> QED
    BY <1>2, <1>4, <2>1, <2>2, <2>3
<1>11. orderly' => InOrder(w)'
  BY <1>2, <1>8, <1>10 DEF InOrder, Quiet
<1> QED
  BY <1>9, <1>11, InOrderIsEnough DEF MenuInv

\* Requests that only begin, with their first job.
LEMMA BeginsWithJob ==
  ASSUME MenuInv, NEW w \in Writers, NEW what, NEW e, Begin(w, what, e),
         NEW job \in Job, Does(w, job),
         UNCHANGED << kind, orderly, entries, place, given >>,
         job.step \in {"neighbour", "update", "add"},
         job.step # "add" => job.id \in entries, job.oid = 0
  PROVE  MenuInv'
<1>1. todo[w].step = "idle" /\ writes' \in Nat
      /\ (orderly => Quiet /\ Distinct(entries))
  BY BeginsQuiet
<1>2. MenuTypes /\ given \in given .. MaxEntries /\ Job' = Job
  BY DEF MenuInv, MenuTypes, Job
<1>3. MenuTypes' /\ todo'[w] = job /\ \A v \in Writers \ {w} : todo'[v] = todo[v]
  BY <1>1, <1>2, GoesOn DEF MenuTypes
<1>4. orderly => Distinct(entries)'
  BY <1>1 DEF Distinct
<1>5. orderly' => InOrder(w)'
  BY <1>1, <1>3, <1>4 DEF InOrder, Quiet
<1> QED
  BY <1>3, <1>5, InOrderIsEnough DEF MenuInv

\* A submitted form with another order.
LEMMA ChangeOrderKeeps ==
  ASSUME MenuInv, NEW w \in Writers, NEW e \in Entries, ChangeOrder(w, e)
  PROVE  MenuInv'
<1>1. PICK order \in Orders :
        Does(w, [Idle EXCEPT !.step = "update", !.id = e, !.order = order])
  BY DEF ChangeOrder
<1> DEFINE job == [Idle EXCEPT !.step = "update", !.id = e, !.order = order]
<1>2. e \in entries /\ entries \subseteq 1 .. given /\ given \in Nat /\ order \in Int
      /\ MaxLevel \in Nat \ {0} /\ Paragraphs \in Nat
  BY MenuAssumption, TypesSay DEF ChangeOrder, MenuInv, MenuTypes
<1>3. job \in Job /\ job.step = "update" /\ job.id = e /\ job.oid = 0
  <2>1. Idle \in Job /\ Idle.oid = 0
    BY <1>2, IdleType
  <2>2. "update" \in Steps /\ "none" \in Moves /\ e \in 0 .. given
        /\ 0 \in 0 .. given /\ 1 \in 1 .. MaxLevel /\ 0 \in 0 .. Paragraphs
    BY <1>2 DEF Steps, Moves
  <2> QED
    BY <1>2, <2>1, <2>2 DEF Job
<1> HIDE DEF job
<1>4. Does(w, job) /\ Begin(w, "change", e)
      /\ UNCHANGED << kind, orderly, entries, place, given >>
  BY <1>1 DEF ChangeOrder, job
<1> QED
  BY <1>2, <1>3, <1>4, BeginsWithJob

\* move up, down or to a position begins.
LEMMA MoveKeeps ==
  ASSUME MenuInv, NEW w \in Writers, NEW e \in Entries, Move(w, e)
  PROVE  MenuInv'
<1>1. PICK m \in Moves \ {"none"}, pos \in Orders :
        /\ Begin(w, m, e)
        /\ Does(w, [Idle EXCEPT !.step = "neighbour", !.move = m, !.id = e,
                     !.order = IF m = "vabs" THEN pos ELSE place[e].order,
                     !.old = place[e].order])
  BY DEF Move
<1> DEFINE order == IF m = "vabs" THEN pos ELSE place[e].order
           old == place[e].order
           job == [Idle EXCEPT !.step = "neighbour", !.move = m, !.id = e,
                    !.order = order, !.old = old]
<1>2. e \in entries /\ entries \subseteq 1 .. given /\ given \in Nat
      /\ MaxLevel \in Nat \ {0} /\ Paragraphs \in Nat
  BY MenuAssumption, TypesSay DEF Move, MenuInv, MenuTypes
<1>3. order \in Int /\ old \in Int
  BY MenuAssumption, TypesSay DEF MenuInv
<1>4. Does(w, job)
  BY <1>1
<1> HIDE DEF order, old
<1>5. job \in Job /\ job.step = "neighbour" /\ job.id = e /\ job.oid = 0
  <2>1. Idle \in Job /\ Idle.oid = 0
    BY <1>2, IdleType
  <2>2. "neighbour" \in Steps /\ m \in Moves /\ e \in 0 .. given
        /\ 0 \in 0 .. given /\ 1 \in 1 .. MaxLevel /\ 0 \in 0 .. Paragraphs
    BY <1>2 DEF Steps
  <2> QED
    BY <1>3, <2>1, <2>2 DEF Job
<1> HIDE DEF job
<1>6. UNCHANGED << kind, orderly, entries, place, given >>
  BY DEF Move
<1> QED
  BY <1>1, <1>2, <1>4, <1>5, <1>6, BeginsWithJob

\* "Add Page Paragraph Items" begins.
LEMMA AddPageItemsKeeps ==
  ASSUME MenuInv, NEW w \in Writers, NEW e \in Entries, AddPageItems(w, e)
  PROVE  MenuInv'
<1> DEFINE old == place[e].order
           level == place[e].level + 1
           job == [Idle EXCEPT !.step = "add", !.old = old, !.level = level,
                     !.left = Paragraphs]
<1>1. Does(w, job) /\ Begin(w, "items", e) /\ place[e].level < MaxLevel
      /\ Paragraphs > 0
      /\ UNCHANGED << kind, orderly, entries, place, given >>
  BY DEF AddPageItems
<1>2. old \in Int /\ level \in 1 .. MaxLevel /\ given \in Nat
      /\ MaxLevel \in Nat \ {0} /\ Paragraphs \in Nat
  BY <1>1, MenuAssumption, TypesSay DEF MenuInv
<1> HIDE DEF old, level
<1>3. job \in Job /\ job.step = "add" /\ job.oid = 0
  <2>1. Idle \in Job /\ Idle.oid = 0
    BY <1>2, IdleType
  <2>2. "add" \in Steps /\ "none" \in Moves /\ 0 \in 0 .. given
        /\ Paragraphs \in 0 .. Paragraphs /\ Paragraphs > 0
    BY <1>1, <1>2 DEF Steps, Moves
  <2> QED
    BY <1>2, <2>1, <2>2 DEF Job
<1> HIDE DEF job
<1> QED
  BY <1>1, <1>3, BeginsWithJob

\* Requests of one statement that add nothing.
LEMMA ShortKeeps ==
  ASSUME MenuInv, NEW w \in Writers, NEW e \in Entries,
         Delete(w, e) \/ MoveAside(w, e)
  PROVE  MenuInv'
<1>1. PICK what : Begin(w, what, e)
  BY DEF Delete, MoveAside
<1>2. todo[w].step = "idle" /\ writes' \in Nat
      /\ (orderly => Quiet /\ Distinct(entries))
  BY <1>1, BeginsQuiet
<1>3. MenuTypes /\ UNCHANGED << kind, orderly, given, todo >>
  BY DEF MenuInv, Delete, MoveAside
<1>4. /\ entries' \subseteq entries /\ place' \in Places
      /\ \A a \in Entries : place'[a].order = place[a].order
  <2>1. CASE Delete(w, e)
    BY <1>3, <2>1 DEF Delete, MenuTypes
  <2>2. CASE MoveAside(w, e)
    <3>1. PICK level \in Beside(place[e].level) :
            level <= MaxLevel /\ place' = [place EXCEPT ![e].level = level]
      BY <2>2 DEF MoveAside
    <3>2. place[e].level \in 1 .. MaxLevel /\ MaxLevel \in Nat
          /\ \A a \in Entries : place[a] \in [order : Int, level : 1 .. MaxLevel]
      BY <1>3, TypesSay, MenuAssumption DEF MenuTypes, Places
    <3>3. level \in 1 .. MaxLevel
      BY <3>1, <3>2 DEF Beside
    <3>4. place' = [place EXCEPT ![e] = [place[e] EXCEPT !.level = level]]
      BY <1>3, <3>1 DEF MenuTypes, Places
    <3>5. [place[e] EXCEPT !.level = level] \in [order : Int, level : 1 .. MaxLevel]
          /\ [place[e] EXCEPT !.level = level].order = place[e].order
      BY <3>2, <3>3
    <3> QED
      BY <1>3, <2>2, <3>4, <3>5 DEF MoveAside, MenuTypes, Places
  <2> QED
    BY <2>1, <2>2
<1>5. MenuTypes'
  <2>1. Job' = Job /\ Places' = Places
    BY <1>3 DEF Job, Places, Entries
  <2> QED
    BY <1>2, <1>3, <1>4, <2>1 DEF MenuTypes
<1>6. orderly => Distinct(entries)'
  BY <1>2, <1>3, <1>4, TypesSay DEF Distinct
<1>7. orderly' => InOrder(w)'
  BY <1>2, <1>3, <1>6 DEF InOrder, Quiet
<1> QED
  BY <1>5, <1>7, InOrderIsEnough DEF MenuInv

-----------------------------------------------------------------------------
(* The statements of usupplemental and the steps before it.                *)

\* The others make way: who was told apart still is, in the same order, and
\* nobody shares the place of id.
LEMMA ShiftedApart ==
  ASSUME MenuTypes, NEW id, NEW order \in Int
  PROVE  LET p == Shifted(id, order)
         IN  /\ p \in Places
             /\ id \in Entries => p[id] = place[id]
             /\ \A a \in entries \ {id} : p[a].order # order
             /\ \A a, b \in entries \ {id} :
                  /\ p[a].order = p[b].order => place[a].order = place[b].order
                  /\ place[a].order < place[b].order => p[a].order < p[b].order
             /\ \A a \in entries \ {id} :
                  p[a].order = IF place[a].order >= order THEN place[a].order + 1
                               ELSE place[a].order
<1> DEFINE p == Shifted(id, order)
           Up(e) == [place[e] EXCEPT !.order = @ + 1]
<1>1. \A e \in Entries : place[e] \in [order : Int, level : 1 .. MaxLevel]
  BY DEF MenuTypes, Places
<1>2. \A e \in Entries : Up(e) \in [order : Int, level : 1 .. MaxLevel]
                         /\ Up(e).order = place[e].order + 1
  BY <1>1
<1> HIDE DEF Up
<1>3. \A e \in Entries : p[e] = IF e \in entries \ {id} /\ place[e].order >= order
                                THEN Up(e) ELSE place[e]
  BY DEF Shifted, Up
<1>4. p \in Places
  <2>1. DOMAIN p = Entries /\ p = [e \in Entries |-> p[e]]
    BY DEF Shifted
  <2>2. \A e \in Entries : p[e] \in [order : Int, level : 1 .. MaxLevel]
    BY <1>1, <1>2, <1>3
  <2> HIDE DEF p
  <2> QED
    BY <2>1, <2>2 DEF Places
<1> HIDE DEF p
<1>5. entries \subseteq Entries
  BY TypesSay
<1>6. \A a \in entries \ {id} :
        p[a].order = IF place[a].order >= order THEN place[a].order + 1
                     ELSE place[a].order
  BY <1>2, <1>3, <1>5
<1>7. \A a \in entries \ {id} : place[a].order \in Int
  BY <1>1, <1>5
<1>8. id \in Entries => p[id] = place[id]
  BY <1>3
<1> QED
  BY <1>4, <1>6, <1>7, <1>8 DEF p

\* What the next step of an orderly process finds.
LEMMA StepKeeps ==
  ASSUME MenuInv, NEW w \in Writers, todo[w].step # "idle",
         NEW job, Does(w, job), job \in Job',
         kind' = kind, orderly' = orderly, writes' = writes,
         given' \in given .. MaxEntries, entries' \subseteq 1 .. given',
         place' \in Places,
         orderly =>
           /\ job.step \notin {"reread", "shift"} => Distinct(entries)'
           /\ job.step \in {"neighbour", "update", "reread", "shift"} =>
                job.id \in entries'
           /\ job.step # "idle" => job.oid \in entries' \cup {0}
           /\ job.step = "other" => job.oid # 0
           /\ job.step \in {"reread", "shift"} =>
                \A a, b \in entries' \ {job.id} :
                  place'[a].order = place'[b].order => a = b
           /\ job.step = "shift" => job.order = place'[job.id].order
  PROVE  MenuInv'
<1>1. MenuTypes /\ writes \in Nat
  BY DEF MenuInv, MenuTypes
<1>2. MenuTypes' /\ todo'[w] = job /\ \A v \in Writers \ {w} : todo'[v] = todo[v]
  BY <1>1, GoesOn
<1>3. orderly => \A v \in Writers \ {w} : todo[v].step = "idle"
  BY OnlyOne
<1>4. orderly' => InOrder(w)'
  BY <1>2, <1>3 DEF InOrder, Distinct
<1> QED
  BY <1>2, <1>4, InOrderIsEnough DEF MenuInv

\* The job of a process with some of its parts changed.
LEMMA JobParts ==
  ASSUME NEW j \in Job
  PROVE  j = [step |-> j.step, move |-> j.move, id |-> j.id, order |-> j.order,
              level |-> j.level, old |-> j.old, oid |-> j.oid, left |-> j.left]
BY DEF Job

\* What is known of an orderly process.
LEMMA OrderlySays ==
  ASSUME MenuInv, NEW w \in Writers, todo[w].step # "idle", orderly
  PROVE  InOrder(w)
BY DEF MenuInv, Unambiguous, InOrder

\* move has found the neighbour, or none.
LEMMA NeighbourKeeps ==
  ASSUME MenuInv, NEW w \in Writers, Neighbour(w)
  PROVE  MenuInv'
<1> DEFINE j == todo[w]
<1>1. MenuTypes /\ j \in Job /\ j.step = "neighbour" /\ j.order \in Int
      /\ UNCHANGED << kind, orderly, entries, place, given, writes >>
  BY TypesSay DEF MenuInv, Neighbour
<1>2. PICK order \in Int, oid \in entries \cup {j.oid} :
        Does(w, [j EXCEPT !.step = "update", !.oid = oid, !.order = order])
  <2>1. CASE Neighbours(j) = {}
    <3> DEFINE order == CASE j.move = "up"  -> j.order - 1
                          [] j.move = "btm" -> j.order + 1
                          [] OTHER -> j.order
    <3>1. order \in Int
      BY <1>1
    <3>2. Does(w, [j EXCEPT !.step = "update", !.order = order])
      BY <2>1 DEF Neighbour
    <3> HIDE DEF order
    <3>3. [j EXCEPT !.step = "update", !.order = order]
            = [j EXCEPT !.step = "update", !.oid = j.oid, !.order = order]
      BY <1>1, JobParts
    <3> HIDE DEF j
    <3> QED
      BY <3>1, <3>2, <3>3
  <2>2. CASE Neighbours(j) # {}
    <3>1. PICK o \in Neighbours(j) :
            Does(w, [j EXCEPT !.step = "update", !.oid = o,
                              !.order = place[o].order])
      BY <2>2 DEF Neighbour
    <3>2. o \in entries
      BY DEF Neighbours
    <3>3. place[o].order \in Int
      BY <1>1, <3>2, TypesSay
    <3> QED
      BY <3>1, <3>2, <3>3
  <2> QED
    BY <2>1, <2>2
<1> DEFINE job == [j EXCEPT !.step = "update", !.oid = oid, !.order = order]
<1>3. /\ entries \subseteq 1 .. given /\ given \in 0 .. MaxEntries
      /\ j.oid \in 0 .. given /\ place \in Places
  BY <1>1, TypesSay DEF MenuTypes
<1>4. oid \in 0 .. given
  BY <1>3
<1>5. job \in Job /\ job.step = "update" /\ job.id = j.id /\ job.oid = oid
  BY <1>1, <1>4 DEF Job, Steps
<1>6. Job' = Job
  BY <1>1 DEF Job
<1>7. orderly => InOrder(w)
  BY <1>1, OrderlySays
<1> HIDE DEF job
<1>8. Does(w, job)
  BY <1>2 DEF job
<1>9. given' \in given .. MaxEntries /\ entries' \subseteq 1 .. given'
      /\ place' \in Places
  BY <1>1, <1>3
<1>10. orderly => /\ Distinct(entries)'
                  /\ job.id \in entries' /\ job.oid \in entries' \cup {0}
  BY <1>1, <1>5, <1>7 DEF InOrder, Distinct
<1> QED
  BY <1>1, <1>5, <1>6, <1>8, <1>9, <1>10, StepKeeps

\* move goes on with the neighbour.
LEMMA OtherKeeps ==
  ASSUME MenuInv, NEW w \in Writers, Other(w)
  PROVE  MenuInv'
<1> DEFINE j == todo[w]
           job == [j EXCEPT !.step = "update", !.id = j.oid, !.order = j.old,
                            !.oid = 0]
<1>1. MenuTypes /\ j \in Job /\ j.step = "other" /\ j.old \in Int
      /\ Does(w, job) /\ j.oid \in 0 .. given
      /\ UNCHANGED << kind, orderly, entries, place, given, writes >>
  BY TypesSay DEF MenuInv, Other
<1>2. job \in Job /\ job.step = "update" /\ job.id = j.oid /\ job.oid = 0
  <2>1. "update" \in Steps /\ 0 \in 0 .. given
    BY <1>1 DEF Steps, MenuTypes
  <2> QED
    BY <1>1, <2>1 DEF Job
<1>3. Job' = Job
  BY <1>1 DEF Job
<1>4. given' \in given .. MaxEntries /\ entries' \subseteq 1 .. given'
      /\ place' \in Places
  BY <1>1 DEF MenuTypes
<1>5. orderly => InOrder(w)
  BY <1>1, OrderlySays
<1> HIDE DEF job
<1>6. orderly => Distinct(entries)' /\ job.id \in entries'
  BY <1>1, <1>2, <1>5 DEF InOrder, Distinct
<1> QED
  BY <1>1, <1>2, <1>3, <1>4, <1>6, StepKeeps

\* The entry itself may share its new place from here on.
LEMMA UpdateKeeps ==
  ASSUME MenuInv, NEW w \in Writers, Update(w)
  PROVE  MenuInv'
<1> DEFINE j == todo[w]
           job == [j EXCEPT !.step = "reread"]
<1>1. MenuTypes /\ j \in Job /\ j.step = "update" /\ j.order \in Int
      /\ Does(w, job)
      /\ UNCHANGED << kind, orderly, entries, given, writes >>
  BY TypesSay DEF MenuInv, Update
<1>2. job \in Job /\ job.step = "reread" /\ job.id = j.id /\ job.oid = j.oid
  BY <1>1 DEF Job, Steps
<1>3. Job' = Job
  BY <1>1 DEF Job
<1>4. place' \in Places /\ \A a \in entries \ {j.id} : place'[a] = place[a]
  <2>1. CASE j.id \in entries
    <3>1. j.id \in Entries /\ entries \subseteq Entries /\ place \in Places
      BY <1>1, <2>1, TypesSay DEF MenuTypes
    <3>2. place[j.id] \in [order : Int, level : 1 .. MaxLevel]
      BY <3>1 DEF Places
    <3>3. [place[j.id] EXCEPT !.order = j.order]
            \in [order : Int, level : 1 .. MaxLevel]
      BY <1>1, <3>2
    <3>4. place' = [place EXCEPT ![j.id] = [place[j.id] EXCEPT !.order = j.order]]
      BY <2>1, <3>1 DEF Update, Places
    <3> QED
      BY <3>1, <3>3, <3>4 DEF Places
  <2>2. CASE j.id \notin entries
    BY <1>1, <2>2 DEF Update, MenuTypes
  <2> QED
    BY <2>1, <2>2
<1>5. given' \in given .. MaxEntries /\ entries' \subseteq 1 .. given'
  BY <1>1 DEF MenuTypes
<1>6. orderly => InOrder(w)
  BY <1>1, OrderlySays
<1> HIDE DEF job
<1>7. orderly => /\ job.id \in entries' /\ job.oid \in entries' \cup {0}
                 /\ \A a, b \in entries' \ {job.id} :
                      place'[a].order = place'[b].order => a = b
  BY <1>1, <1>2, <1>4, <1>6 DEF InOrder, Distinct
<1> QED
  BY <1>1, <1>2, <1>3, <1>4, <1>5, <1>7, StepKeeps

\* The order that is read again is that of the row.
LEMMA RereadKeeps ==
  ASSUME MenuInv, NEW w \in Writers, Reread(w)
  PROVE  MenuInv'
<1> DEFINE j == todo[w]
           order == IF j.id \in entries THEN place[j.id].order ELSE j.order
           job == [j EXCEPT !.step = "shift", !.order = order]
<1>1. MenuTypes /\ j \in Job /\ j.step = "reread" /\ j.order \in Int
      /\ Does(w, job)
      /\ UNCHANGED << kind, orderly, entries, place, given, writes >>
  BY TypesSay DEF MenuInv, Reread
<1>2. order \in Int /\ (j.id \in entries => order = place[j.id].order)
  BY <1>1, TypesSay
<1> HIDE DEF order
<1>3. job \in Job /\ job.step = "shift" /\ job.id = j.id /\ job.oid = j.oid
      /\ job.order = order
  BY <1>1, <1>2 DEF Job, Steps
<1>4. Job' = Job
  BY <1>1 DEF Job
<1>5. given' \in given .. MaxEntries /\ entries' \subseteq 1 .. given'
      /\ place' \in Places
  BY <1>1 DEF MenuTypes
<1>6. orderly => InOrder(w)
  BY <1>1, OrderlySays
<1> HIDE DEF job
<1>7. orderly => /\ job.id \in entries' /\ job.oid \in entries' \cup {0}
                 /\ \A a, b \in entries' \ {job.id} :
                      place'[a].order = place'[b].order => a = b
                 /\ job.order = place'[job.id].order
  BY <1>1, <1>2, <1>3, <1>6 DEF InOrder, Distinct
<1> QED
  BY <1>1, <1>3, <1>4, <1>5, <1>7, StepKeeps

\* The others have made way: all are told apart again.
LEMMA ShiftKeeps ==
  ASSUME MenuInv, NEW w \in Writers, Shift(w)
  PROVE  MenuInv'
<1> DEFINE j == todo[w]
           job == IF j.left > 0 THEN [j EXCEPT !.step = "add"]
                  ELSE IF j.oid # 0 THEN [j EXCEPT !.step = "other"]
                  ELSE Idle
<1>1. MenuTypes /\ j \in Job /\ j.step = "shift" /\ j.order \in Int
      /\ Does(w, job) /\ place \in Places /\ given \in Nat
      /\ UNCHANGED << kind, orderly, entries, given, writes >>
  BY TypesSay DEF MenuInv, MenuTypes, Shift
<1>2. /\ job \in Job /\ job.step \in {"add", "other", "idle"}
      /\ job.oid \in {j.oid, 0} /\ (job.step = "other" => job.oid # 0)
  <2>1. /\ j.left > 0 => [j EXCEPT !.step = "add"] \in Job
        /\ [j EXCEPT !.step = "other"] \in Job
    BY <1>1 DEF Job, Steps
  <2>2. Idle \in Job /\ Idle.oid = 0 /\ Idle.step = "idle"
    BY <1>1, IdleType
  <2>3. [j EXCEPT !.step = "add"].step = "add" /\ [j EXCEPT !.step = "add"].oid = j.oid
        /\ [j EXCEPT !.step = "other"].step = "other"
        /\ [j EXCEPT !.step = "other"].oid = j.oid
    BY <1>1 DEF Job
  <2> QED
    BY <2>1, <2>2, <2>3
<1>3. Job' = Job
  BY <1>1 DEF Job
<1> HIDE DEF job
<1>4. orderly => InOrder(w)
  BY <1>1, OrderlySays
<1>5. place' \in Places /\ (orderly => Distinct(entries)')
  <2>1. CASE ~Needed(j.id, j.order)
    <3>1. place' = place /\ \A e \in entries \ {j.id} : place[e].order # j.order
      BY <2>1 DEF Shift, Needed
    <3>2. orderly => Distinct(entries)
      BY <1>1, <1>4, <3>1 DEF InOrder, Distinct
    <3> QED
      BY <1>1, <3>1, <3>2 DEF Distinct
  <2>2. CASE Needed(j.id, j.order)
    <3>1. place' = Shifted(j.id, j.order)
      BY <2>2 DEF Shift
    <3> DEFINE p == Shifted(j.id, j.order)
    <3>2. /\ p \in Places /\ (j.id \in Entries => p[j.id] = place[j.id])
          /\ \A a \in entries \ {j.id} : p[a].order # j.order
          /\ \A a, b \in entries \ {j.id} :
               p[a].order = p[b].order => place[a].order = place[b].order
      BY <1>1, ShiftedApart
    <3>3. p = place'
      BY <3>1
    <3> HIDE DEF p
    <3>4. orderly => Distinct(entries)'
      BY SMTT(20), <1>1, <1>4, <3>2, <3>3, TypesSay DEF InOrder, Distinct
    <3> QED
      BY <3>2, <3>3, <3>4
  <2> QED
    BY <2>1, <2>2
<1>6. given' \in given .. MaxEntries /\ entries' \subseteq 1 .. given'
  BY <1>1 DEF MenuTypes
<1>7. orderly => job.oid \in entries' \cup {0}
  BY <1>1, <1>2, <1>4 DEF InOrder
<1> QED
  BY <1>1, <1>2, <1>3, <1>5, <1>6, <1>7, StepKeeps

\* A new item may share its place until its usupplemental.
LEMMA AddItemKeeps ==
  ASSUME MenuInv, NEW w \in Writers, AddItem(w)
  PROVE  MenuInv'
<1> DEFINE j == todo[w]
           order == Validated(j.old + 1, TRUE)
           p == [order |-> order, level |-> j.level]
           job == [j EXCEPT !.step = "shift", !.id = given', !.order = order,
                            !.old = j.old + 1, !.left = j.left - 1]
<1>1. MenuTypes /\ j \in Job /\ j.step = "add" /\ given < MaxEntries
      /\ j.old \in Int /\ j.level \in 1 .. MaxLevel /\ j.left \in 0 .. Paragraphs
      /\ given' = given + 1 /\ entries' = entries \cup {given'}
      /\ UNCHANGED << kind, orderly, writes >>
  BY TypesSay DEF MenuInv, AddItem
<1>2. place' = [place EXCEPT ![given'] = p] /\ Does(w, job)
  BY DEF AddItem
<1>3. order \in Int
  <2>1. j.old + 1 \in Int
    BY <1>1
  <2> QED
    BY <1>1, <2>1, ValidatedType
<1> HIDE DEF order
<1>4. p \in [order : Int, level : 1 .. MaxLevel] /\ p.order = order
  BY <1>1, <1>3
<1> HIDE DEF p
<1>5. /\ given' \in given .. MaxEntries /\ entries' \subseteq 1 .. given'
      /\ place' \in Places /\ entries' \ {given'} = entries
      /\ given' \notin entries /\ place'[given'] = p
      /\ \A a \in entries : place'[a] = place[a]
  BY <1>1, <1>2, <1>4, Added
<1>6. j.left > 0
  BY <1>1 DEF Job
<1>7. /\ job \in Job' /\ job.step = "shift" /\ job.id = given'
      /\ job.order = order /\ job.oid = j.oid
  <2>1. j \in Job'
    <3>1. 0 .. given \subseteq 0 .. given'
      BY <1>1 DEF MenuTypes
    <3> QED
      BY <1>1, <3>1 DEF Job
  <2>2. "shift" \in Steps /\ given' \in 0 .. given' /\ j.old + 1 \in Int
        /\ j.left - 1 \in 0 .. Paragraphs
    BY <1>1, <1>6, MenuAssumption DEF Steps, MenuTypes
  <2> QED
    BY <1>3, <2>1, <2>2 DEF Job
<1> HIDE DEF job
<1>8. orderly => InOrder(w)
  BY <1>1, OrderlySays
<1>9. orderly => /\ job.id \in entries' /\ job.oid \in entries' \cup {0}
                 /\ \A a, b \in entries' \ {job.id} :
                      place'[a].order = place'[b].order => a = b
                 /\ job.order = place'[job.id].order
  BY <1>1, <1>4, <1>5, <1>7, <1>8 DEF InOrder, Distinct
<1> QED
  BY <1>1, <1>2, <1>5, <1>7, <1>9, StepKeeps

\* An orderly process ends early only between two items.
LEMMA DiesKeeps ==
  ASSUME MenuInv, NEW w \in Writers, Dies(w)
  PROVE  MenuInv'
<1>1. MenuTypes /\ todo[w].step # "idle" /\ Does(w, Idle)
      /\ (orderly => todo[w].step = "add")
      /\ UNCHANGED << kind, orderly, entries, place, given, writes >>
  BY DEF MenuInv, Dies
<1>2. Idle \in Job /\ Idle.oid = 0 /\ Idle.step = "idle" /\ Job' = Job
  BY <1>1, IdleType DEF MenuTypes, Job
<1>3. given' \in given .. MaxEntries /\ entries' \subseteq 1 .. given'
      /\ place' \in Places
  BY <1>1 DEF MenuTypes
<1>4. orderly => Distinct(entries)'
  BY <1>1, OrderlySays DEF InOrder, Distinct
<1> QED
  BY <1>1, <1>2, <1>3, <1>4, StepKeeps

\* Whatever step is taken.
LEMMA MenuInvNext == MenuInv /\ [MenusNext]_menuVars => MenuInv'
<1> SUFFICES ASSUME MenuInv, [MenusNext]_menuVars PROVE MenuInv'
  OBVIOUS
<1>1. CASE UNCHANGED menuVars
  <2>1. UNCHANGED << kind, orderly, entries, place, given, todo, writes >>
    BY <1>1 DEF menuVars
  <2>2. MenuTypes'
    <3>1. Job' = Job /\ Places' = Places
      BY <2>1 DEF Job, Places, Entries
    <3> QED
      BY <2>1, <3>1 DEF MenuInv, MenuTypes
  <2>3. Unambiguous'
    BY <2>1 DEF MenuInv, Unambiguous, Distinct
  <2> QED
    BY <2>2, <2>3 DEF MenuInv
<1>2. CASE MenusNext
  <2> PICK w \in Writers :
        \/ Insert(w) \/ Neighbour(w) \/ Other(w) \/ Update(w) \/ Reread(w)
        \/ Shift(w) \/ AddItem(w) \/ Dies(w)
        \/ \E e \in Entries : \/ ChangeOrder(w, e) \/ Delete(w, e) \/ Move(w, e)
                              \/ MoveAside(w, e) \/ AddPageItems(w, e)
    BY <1>2 DEF MenusNext
  <2>1. CASE \E e \in Entries : \/ ChangeOrder(w, e) \/ Delete(w, e) \/ Move(w, e)
                                \/ MoveAside(w, e) \/ AddPageItems(w, e)
    BY <2>1, ChangeOrderKeeps, ShortKeeps, MoveKeeps, AddPageItemsKeeps
  <2> QED
    BY <2>1, InsertKeeps, NeighbourKeeps, OtherKeeps, UpdateKeeps, RereadKeeps,
       ShiftKeeps, AddItemKeeps, DiesKeeps
<1> QED
  BY <1>1, <1>2

\* Whatever the requests, overlapping or killed, the entries have orders and
\* levels, and each process has only to do what the program can have left to
\* do (menu_item.hpp, paragraph.hpp).
THEOREM MenuTypesHold == MenusSpec => []MenuTypeOK
<1>1. MenuInv => MenuTypeOK
  <2> SUFFICES ASSUME MenuInv PROVE MenuTypeOK
    OBVIOUS
  <2> QED
    BY TypesSay DEF MenuInv, MenuTypes, MenuTypeOK
<1> QED
  BY <1>1, MenuInvInit, MenuInvNext, PTL DEF MenusSpec

\* However many entries and paragraphs, and whatever orders are typed: after
\* any sequence of requests that do not overlap, no two entries share a place
\* (usupplemental: "make sure that there is no positioning ambiguity").
THEOREM PlacesAreDistinct == MenusSpec => []NoAmbiguity
<1>1. MenuInv => NoAmbiguity
  BY DEF MenuInv, Unambiguous, Distinct, NoAmbiguity, Quiet
<1> QED
  BY <1>1, MenuInvInit, MenuInvNext, PTL DEF MenusSpec

\* The orders of the entries that a step is not about.
LEMMA OthersOrder ==
  ASSUME MenuInv, [MenusNext]_menuVars,
         NEW a \in entries \cap entries', NEW b \in entries \cap entries',
         place[a].order < place[b].order,
         {a, b} \cap (Subjects \cup Subjects' \cup {asked'.entry}) = {}
  PROVE  place'[a].order < place'[b].order
<1>0. MenuTypes /\ entries \subseteq Entries /\ place \in Places /\ given \in Nat
      /\ a \in 1 .. given /\ b \in 1 .. given
  BY TypesSay DEF MenuInv, MenuTypes
<1>1. \A w \in Writers : todo[w].id \notin {a, b}
  BY DEF Subjects
<1>2. CASE place' = place
  BY <1>2
<1>3. ASSUME NEW w \in Writers, Insert(w) \/ AddItem(w)
      PROVE  place'[a].order < place'[b].order
  <2>1. PICK p : place' = [place EXCEPT ![given + 1] = p]
    <3>1. CASE Insert(w)
      BY <3>1 DEF Insert
    <3>2. CASE AddItem(w)
      BY <3>2 DEF AddItem
    <3> QED
      BY <1>3, <3>1, <3>2
  <2>2. a # given + 1 /\ b # given + 1 /\ a \in Entries /\ b \in Entries
    BY <1>0
  <2>3. place'[a] = place[a] /\ place'[b] = place[b]
    BY <1>0, <2>1, <2>2 DEF Places
  <2> QED
    BY <2>3
<1>4. ASSUME NEW w \in Writers, Update(w)
      PROVE  place'[a].order < place'[b].order
  <2>1. CASE todo[w].id \in entries
    <3>1. place' = [place EXCEPT ![todo[w].id].order = todo[w].order]
      BY <1>4, <2>1 DEF Update
    <3>2. place'[a] = place[a] /\ place'[b] = place[b]
      BY <1>0, <1>1, <3>1 DEF Places
    <3> QED
      BY <3>2
  <2>2. CASE todo[w].id \notin entries
    BY <1>4, <2>2 DEF Update
  <2> QED
    BY <2>1, <2>2
<1>5. ASSUME NEW w \in Writers, Shift(w)
      PROVE  place'[a].order < place'[b].order
  <2> DEFINE j == todo[w]
  <2>1. CASE ~Needed(j.id, j.order)
    BY <1>5, <2>1 DEF Shift
  <2>2. CASE Needed(j.id, j.order)
    <3>1. place' = Shifted(j.id, j.order) /\ j.order \in Int
      BY <1>0, <1>5, <2>2, TypesSay DEF Shift
    <3>2. a \in entries \ {j.id} /\ b \in entries \ {j.id}
      BY <1>1
    <3> DEFINE p == Shifted(j.id, j.order)
    <3>3. \A c, d \in entries \ {j.id} :
            place[c].order < place[d].order => p[c].order < p[d].order
      BY <1>0, <3>1, ShiftedApart
    <3>4. p = place'
      BY <3>1
    <3> HIDE DEF p
    <3> QED
      BY <3>2, <3>3, <3>4
  <2> QED
    BY <2>1, <2>2
<1>6. ASSUME NEW w \in Writers, NEW e \in Entries, MoveAside(w, e)
      PROVE  place'[a].order < place'[b].order
  <2>1. PICK level \in Beside(place[e].level) :
          place' = [place EXCEPT ![e].level = level]
    BY <1>6 DEF MoveAside
  <2>2. \A c \in Entries : place'[c].order = place[c].order
    <3>1. \A c \in Entries : place[c] \in [order : Int, level : 1 .. MaxLevel]
      BY <1>0 DEF Places
    <3> QED
      BY <1>0, <2>1, <3>1 DEF Places
  <2> QED
    BY <1>0, <2>2
<1>7. CASE UNCHANGED menuVars
  BY <1>2, <1>7 DEF menuVars
<1>8. CASE MenusNext
  <2> PICK w \in Writers :
        \/ Insert(w) \/ Neighbour(w) \/ Other(w) \/ Update(w) \/ Reread(w)
        \/ Shift(w) \/ AddItem(w) \/ Dies(w)
        \/ \E e \in Entries : \/ ChangeOrder(w, e) \/ Delete(w, e) \/ Move(w, e)
                              \/ MoveAside(w, e) \/ AddPageItems(w, e)
    BY <1>8 DEF MenusNext
  <2>1. CASE Neighbour(w) \/ Other(w) \/ Reread(w) \/ Dies(w)
    BY <1>2, <2>1 DEF Neighbour, Other, Reread, Dies
  <2>2. CASE \E e \in Entries : \/ ChangeOrder(w, e) \/ Delete(w, e) \/ Move(w, e)
                                \/ AddPageItems(w, e)
    BY <1>2, <2>2 DEF ChangeOrder, Delete, Move, AddPageItems
  <2> QED
    BY <1>3, <1>4, <1>5, <1>6, <2>1, <2>2
<1> QED
  BY <1>7, <1>8

\* A step never puts in another order two entries that no request under way
\* is about, even when requests overlap and processes are killed between the
\* statements of usupplemental, move and "Add Page Paragraph Items".
THEOREM OthersKeepTheirOrder == MenusSpec => UntouchedKeepOrder
<1>1. MenuInv /\ [MenusNext]_menuVars =>
        [\A a, b \in entries \cap entries' :
           /\ place[a].order < place[b].order
           /\ {a, b} \cap (Subjects \cup Subjects' \cup {asked'.entry}) = {}
           => place'[a].order < place'[b].order]_menuVars
  BY OthersOrder
<1> QED
  BY <1>1, MenuInvInit, MenuInvNext, PTL DEF MenusSpec, UntouchedKeepOrder

-----------------------------------------------------------------------------
(* An item moves up or down.                                               *)

\* How many of S come before an entry, and itself: its number in S.
LEMMA EveryoneHasAPosition ==
  ASSUME NEW p \in Places, NEW S \in SUBSET Entries
  PROVE  /\ Cardinality(S) \in Nat
         /\ \A a \in S : Position(a, S, p) \in 1 .. Cardinality(S)
         /\ \A a, b \in S : Before(a, b, p) => Position(a, S, p) < Position(b, S, p)
<1> DEFINE UpTo(e) == {a \in S : a = e \/ Before(a, e, p)}
<1>0. MaxEntries \in Nat /\ Entries = 1 .. MaxEntries
      /\ \A e \in Entries : p[e].order \in Int
  BY MenuAssumption DEF Entries, Places
<1>1. IsFiniteSet(S) /\ Cardinality(S) \in Nat
  <2>1. IsFiniteSet(Entries)
    BY <1>0, FS_Interval
  <2> QED
    BY <2>1, FS_Subset, FS_CardinalityType
<1>2. \A e : UpTo(e) \in SUBSET S /\ Position(e, S, p) = Cardinality(UpTo(e))
  BY DEF Position
<1>3. \A a, b \in S : Before(a, b, p) => UpTo(a) \subseteq UpTo(b) /\ b \notin UpTo(a)
  <2> SUFFICES ASSUME NEW a \in S, NEW b \in S, Before(a, b, p)
               PROVE  /\ \A c \in S : c = a \/ Before(c, a, p) => Before(c, b, p)
                      /\ b # a /\ ~Before(b, a, p)
    OBVIOUS
  <2>1. \A c \in S : c \in Int /\ p[c].order \in Int
    BY <1>0
  <2> QED
    BY <2>1 DEF Before
<1>4. \A e \in S : e \in UpTo(e)
  OBVIOUS
<1> HIDE DEF UpTo
<1>5. \A e \in S : IsFiniteSet(UpTo(e)) /\ Cardinality(UpTo(e)) \in Nat
                   /\ Cardinality(UpTo(e)) <= Cardinality(S)
                   /\ Cardinality(UpTo(e)) # 0
  BY <1>1, <1>2, <1>4, FS_Subset, FS_CardinalityType, FS_EmptySet
<1>6. ASSUME NEW a \in S, NEW b \in S, Before(a, b, p)
      PROVE  Cardinality(UpTo(a)) < Cardinality(UpTo(b))
  <2>1. UpTo(a) \in SUBSET UpTo(b) /\ UpTo(a) # UpTo(b)
    BY <1>3, <1>4, <1>6
  <2>2. Cardinality(UpTo(a)) <= Cardinality(UpTo(b))
        /\ Cardinality(UpTo(b)) # Cardinality(UpTo(a))
    BY <1>5, <2>1, FS_Subset
  <2> QED
    BY <1>5, <2>2
<1>7. \A e \in S : Cardinality(UpTo(e)) \in 1 .. Cardinality(S)
  BY <1>1, <1>5
<1> QED
  BY <1>1, <1>2, <1>6, <1>7

\* Of two entries, one comes before the other.
LEMMA OneIsBefore ==
  ASSUME NEW p \in Places, NEW a \in Entries, NEW b \in Entries, a # b
  PROVE  Before(a, b, p) \/ Before(b, a, p)
<1>1. p[a].order \in Int /\ p[b].order \in Int /\ a \in Int /\ b \in Int
  BY DEF Entries, Places
<1> QED
  BY <1>1 DEF Before

\* What "order by place_order" lists has each entry at its position.
LEMMA ListedByPosition ==
  ASSUME NEW p \in Places, NEW S \in SUBSET Entries
  PROVE  /\ Listed(S, p) \in Seq(S) /\ Len(Listed(S, p)) = Cardinality(S)
         /\ \A i \in 1 .. Cardinality(S) : Position(Listed(S, p)[i], S, p) = i
         /\ \A e \in S : Listed(S, p)[Position(e, S, p)] = e
<1> DEFINE n == Cardinality(S)
           f == [e \in S |-> Position(e, S, p)]
           L == Listed(S, p)
<1>1. n \in Nat /\ \A a \in S : Position(a, S, p) \in 1 .. n
  BY EveryoneHasAPosition
<1>2. \A a, b \in S : Position(a, S, p) = Position(b, S, p) => a = b
  <2> SUFFICES ASSUME NEW a \in S, NEW b \in S, a # b
               PROVE  Position(a, S, p) # Position(b, S, p)
    OBVIOUS
  <2>1. Before(a, b, p) \/ Before(b, a, p)
    BY OneIsBefore
  <2>2. Position(a, S, p) < Position(b, S, p) \/ Position(b, S, p) < Position(a, S, p)
    BY <2>1, EveryoneHasAPosition
  <2>3. Position(a, S, p) \in Nat /\ Position(b, S, p) \in Nat
    BY <1>1
  <2> QED
    BY <2>2, <2>3
<1>3. f \in Injection(S, 1 .. n)
  BY <1>1, <1>2 DEF Injection, IsInjective
<1>4. f \in Surjection(S, 1 .. n)
  <2>1. IsFiniteSet(1 .. n) /\ Cardinality(1 .. n) = n
    BY <1>1, FS_Interval
  <2> HIDE DEF f
  <2> QED
    BY <1>3, <2>1, FS_Injection
<1>5. \A i \in 1 .. n : \E e \in S : Position(e, S, p) = i
  BY <1>4 DEF Surjection
<1>6. L = [i \in 1 .. n |-> CHOOSE e \in S : Position(e, S, p) = i]
  BY DEF Listed
<1>7. \A i \in 1 .. n : L[i] \in S /\ Position(L[i], S, p) = i
  <2> HIDE DEF L, n
  <2> QED
    BY <1>5, <1>6
<1>8. L \in Seq(S) /\ Len(L) = n
  <2> HIDE DEF L, n
  <2>1. L \in [1 .. n -> S]
    BY <1>6, <1>7
  <2> QED
    BY <1>1, <2>1
<1>9. \A e \in S : L[Position(e, S, p)] = e
  <2> HIDE DEF L, n
  <2> QED
    BY <1>1, <1>2, <1>7
<1> QED
  BY <1>7, <1>8, <1>9

\* The orders alone.
OrdersOf(p) == [e \in Entries |-> p[e].order]

\* s has the entries S, from the least order to the greatest.
InLine(s, S, f) ==
  /\ s \in Seq(S)
  /\ \A e \in S : \E i \in 1 .. Len(s) : s[i] = e
  /\ \A i, k \in 1 .. Len(s) : i < k => f[s[i]] < f[s[k]]

\* Entries that are told apart are listed from the least to the greatest.
LEMMA ListedIsInLine ==
  ASSUME NEW p \in Places, NEW S \in SUBSET Entries,
         \A a, b \in S : p[a].order = p[b].order => a = b
  PROVE  InLine(Listed(S, p), S, OrdersOf(p))
<1> DEFINE L == Listed(S, p)
<1>1. /\ L \in Seq(S) /\ Len(L) = Cardinality(S)
      /\ \A i \in 1 .. Len(L) : Position(L[i], S, p) = i
      /\ \A e \in S : L[Position(e, S, p)] = e
      /\ \A e \in S : Position(e, S, p) \in 1 .. Len(L)
      /\ \A a, b \in S : Before(a, b, p) => Position(a, S, p) < Position(b, S, p)
  BY ListedByPosition, EveryoneHasAPosition
<1> HIDE DEF L
<1>2. ASSUME NEW i \in 1 .. Len(L), NEW k \in 1 .. Len(L), i < k
      PROVE  OrdersOf(p)[L[i]] < OrdersOf(p)[L[k]]
  <2>1. /\ L[i] \in S /\ L[k] \in S
        /\ Position(L[i], S, p) = i /\ Position(L[k], S, p) = k
    BY <1>1
  <2>2. i \in Nat /\ k \in Nat /\ L[i] # L[k] /\ ~(k < i)
    BY <1>2, <2>1
  <2>3. Before(L[i], L[k], p)
    BY <1>1, <2>1, <2>2, OneIsBefore
  <2> QED
    BY <2>1, <2>2, <2>3 DEF Before, OrdersOf
<1> QED
  BY <1>1, <1>2 DEF InLine, L

\* And no other list of them is.
LEMMA InLineIsListed ==
  ASSUME NEW p \in Places, NEW S \in SUBSET Entries,
         NEW s, InLine(s, S, OrdersOf(p))
  PROVE  s = Listed(S, p)
<1> DEFINE n == Len(s)
<1>0. \A e \in Entries : p[e].order \in Int /\ OrdersOf(p)[e] = p[e].order
  BY DEF Entries, Places, OrdersOf
<1>1. /\ s \in Seq(S) /\ n \in Nat /\ s = [i \in 1 .. n |-> s[i]]
      /\ \A i \in 1 .. n : s[i] \in S
      /\ \A e \in S : \E i \in 1 .. n : s[i] = e
      /\ \A i, k \in 1 .. n : i < k => p[s[i]].order < p[s[k]].order
  BY SMTT(30), <1>0 DEF InLine
<1> HIDE DEF n
<1>2. \A i, k \in 1 .. n : s[i] = s[k] => i = k
  <2> SUFFICES ASSUME NEW i \in 1 .. n, NEW k \in 1 .. n, i < k
               PROVE  s[i] # s[k]
    BY <1>1
  <2>1. p[s[i]].order < p[s[k]].order /\ p[s[i]].order \in Int
    BY <1>0, <1>1
  <2> QED
    BY <2>1
<1>3. ASSUME NEW i \in 1 .. n PROVE Position(s[i], S, p) = i
  <2> DEFINE U == {a \in S : a = s[i] \/ Before(a, s[i], p)}
             g == [k \in 1 .. i |-> s[k]]
  <2>1. ASSUME NEW a \in U PROVE \E k \in 1 .. i : s[k] = a
    <3>1. PICK k \in 1 .. n : s[k] = a
      BY <1>1
    <3>2. CASE k > i
      <4>1. p[s[i]].order < p[s[k]].order /\ s[k] # s[i]
            /\ p[s[i]].order \in Int /\ p[s[k]].order \in Int
        BY <1>0, <1>1, <1>2, <3>2
      <4> QED
        BY <3>1, <4>1 DEF Before
    <3> QED
      BY <1>1, <3>1, <3>2
  <2>2. ASSUME NEW k \in 1 .. i PROVE s[k] \in U
    <3>1. k \in 1 .. n /\ (k < i => p[s[k]].order < p[s[i]].order)
      BY <1>1
    <3> QED
      BY <1>1, <3>1 DEF Before
  <2>3. g \in Surjection(1 .. i, U)
    <3> HIDE DEF U
    <3>1. g \in [1 .. i -> U]
      BY <2>2
    <3> QED
      BY <2>1, <3>1 DEF Surjection
  <2>4. g \in Injection(1 .. i, U)
    <3> HIDE DEF U
    <3>1. g \in [1 .. i -> U]
      BY <2>2
    <3>2. 1 .. i \subseteq 1 .. n
      BY <1>1
    <3> QED
      BY <1>2, <3>1, <3>2 DEF Injection, IsInjective
  <2>5. ExistsBijection(1 .. i, U)
    <3> HIDE DEF U, g
    <3> QED
      BY <2>3, <2>4 DEF ExistsBijection, Bijection
  <2>6. Cardinality(U) = i
    <3> HIDE DEF U
    <3> QED
      BY <1>1, <2>5, FS_CountingElements
  <2> QED
    BY <2>6 DEF Position
<1>4. n = Cardinality(S)
  <2>1. s \in [1 .. n -> S]
    BY <1>1
  <2>2. s \in Surjection(1 .. n, S) /\ s \in Injection(1 .. n, S)
    BY <1>1, <1>2, <2>1 DEF Surjection, Injection, IsInjective
  <2> QED
    BY <1>1, <2>2, FS_CountingElements DEF ExistsBijection, Bijection
<1>5. ASSUME NEW i \in 1 .. n
      PROVE  s[i] = CHOOSE e \in S : Position(e, S, p) = i
  <2>1. \A e \in S : Position(e, S, p) = i => e = s[i]
    <3> SUFFICES ASSUME NEW e \in S, Position(e, S, p) = i PROVE e = s[i]
      OBVIOUS
    <3>1. PICK k \in 1 .. n : s[k] = e
      BY <1>1
    <3> QED
      BY <1>3, <3>1
  <2> QED
    BY <1>1, <1>3, <2>1
<1> QED
  BY <1>1, <1>4, <1>5 DEF Listed

\* No entry is twice in such a list, and its order tells where it is.
LEMMA OnceInLine ==
  ASSUME NEW S \in SUBSET Entries, NEW f \in [Entries -> Int], NEW s, InLine(s, S, f)
  PROVE  /\ Len(s) \in Nat
         /\ \A i \in 1 .. Len(s) : s[i] \in S /\ s[i] \in Entries /\ f[s[i]] \in Int
         /\ \A i, k \in 1 .. Len(s) : s[i] = s[k] => i = k
         /\ \A i, k \in 1 .. Len(s) : f[s[i]] < f[s[k]] => i < k
<1>1. /\ s \in Seq(S) /\ Len(s) \in Nat
      /\ \A i \in 1 .. Len(s) : s[i] \in S /\ s[i] \in Entries /\ f[s[i]] \in Int
      /\ \A i, k \in 1 .. Len(s) : i < k => f[s[i]] < f[s[k]]
  <2>1. s \in Seq(S) /\ \A i, k \in 1 .. Len(s) : i < k => f[s[i]] < f[s[k]]
    BY DEF InLine
  <2>2. Len(s) \in Nat /\ \A i \in 1 .. Len(s) : s[i] \in S
    BY <2>1
  <2>3. \A e \in S : e \in Entries /\ f[e] \in Int
    OBVIOUS
  <2> QED
    BY <2>1, <2>2, <2>3
<1>2. ASSUME NEW i \in 1 .. Len(s), NEW k \in 1 .. Len(s), ~(i < k)
      PROVE  ~(f[s[i]] < f[s[k]]) /\ (i # k => s[i] # s[k])
  <2>1. i = k \/ k < i
    BY <1>1, <1>2
  <2>2. k < i => f[s[k]] < f[s[i]]
    BY <1>1
  <2>3. f[s[i]] \in Int /\ f[s[k]] \in Int
    BY <1>1
  <2> QED
    BY <2>1, <2>2, <2>3
<1>3. ASSUME NEW i \in 1 .. Len(s), NEW k \in 1 .. Len(s), s[i] = s[k]
      PROVE  i = k
  <2>1. ~(i < k) /\ ~(k < i)
    BY <1>1, <1>3
  <2> QED
    BY <1>1, <2>1
<1> QED
  BY <1>1, <1>2, <1>3

\* What keeps the orders apart as they are keeps the list.
LEMMA StaysInLine ==
  ASSUME NEW S, NEW f, NEW g, NEW s, InLine(s, S, f),
         \A a, b \in S : f[a] < f[b] => g[a] < g[b]
  PROVE  InLine(s, S, g)
<1>1. /\ s \in Seq(S)
      /\ \A i \in 1 .. Len(s) : s[i] \in S
      /\ \A i, k \in 1 .. Len(s) : i < k => f[s[i]] < f[s[k]]
      /\ \A e \in S : \E i \in 1 .. Len(s) : s[i] = e
  BY DEF InLine
<1> QED
  BY <1>1 DEF InLine

\* Two entries next to each other in the list change places: the first one
\* takes the order of the other, which goes where the first one was, and what
\* comes after both may go further.
LEMMA ExchangedInLine ==
  ASSUME NEW S \in SUBSET Entries, NEW f \in [Entries -> Int], NEW s, InLine(s, S, f),
         NEW g \in [Entries -> Int],
         NEW i \in 1 .. Len(s), NEW k \in 1 .. Len(s), k = i - 1 \/ k = i + 1,
         g[s[i]] = f[s[k]], g[s[k]] = f[s[i]],
         \A x \in S \ {s[i], s[k]} : g[x] = IF f[x] >= f[s[k]] THEN f[x] + 1 ELSE f[x]
  PROVE  InLine(Exchanged(s, s[i], s[k]), S, g)
<1> DEFINE n == Len(s)
           T == Exchanged(s, s[i], s[k])
<1>1. /\ s \in Seq(S) /\ n \in Nat
      /\ \A a \in 1 .. n : s[a] \in S /\ f[s[a]] \in Int
      /\ \A a, b \in 1 .. n : s[a] = s[b] => a = b
      /\ \A a, b \in 1 .. n : a < b => f[s[a]] < f[s[b]]
      /\ \A e \in S : \E a \in 1 .. n : s[a] = e
  <2>1. /\ n \in Nat
        /\ \A a \in 1 .. n : s[a] \in S /\ s[a] \in Entries /\ f[s[a]] \in Int
        /\ \A a, b \in 1 .. n : s[a] = s[b] => a = b
        /\ \A a, b \in 1 .. n : f[s[a]] < f[s[b]] => a < b
    BY OnceInLine
  <2> QED
    BY <2>1 DEF InLine
<1>2. /\ T \in Seq(S) /\ Len(T) = n
      /\ \A a \in 1 .. n : T[a] = IF a = i THEN s[k] ELSE IF a = k THEN s[i] ELSE s[a]
  <2>1. DOMAIN s = 1 .. n
    BY <1>1
  <2> HIDE DEF n
  <2>2. T = [a \in 1 .. n |-> IF s[a] = s[i] THEN s[k]
                              ELSE IF s[a] = s[k] THEN s[i] ELSE s[a]]
    <3>1. \A a \in 1 .. n :
            (CASE s[a] = s[i] -> s[k] [] s[a] = s[k] -> s[i] [] OTHER -> s[a])
              = IF s[a] = s[i] THEN s[k] ELSE IF s[a] = s[k] THEN s[i] ELSE s[a]
      <4>1. i # k
        BY <1>1 DEF n
      <4>2. s[i] # s[k]
        BY <1>1, <4>1 DEF n
      <4> QED
        BY <4>2
    <3> QED
      BY <2>1, <3>1 DEF Exchanged
  <2>3. T = [a \in 1 .. n |-> IF a = i THEN s[k] ELSE IF a = k THEN s[i] ELSE s[a]]
    <3>1. \A a \in 1 .. n : (s[a] = s[i] <=> a = i) /\ (s[a] = s[k] <=> a = k)
      BY <1>1 DEF n
    <3> QED
      BY <2>2, <3>1
  <2> HIDE DEF T
  <2>4. T \in [1 .. n -> S]
    BY <1>1, <2>3 DEF n
  <2> QED
    BY SMTT(30), <1>1, <2>3, <2>4
<1> HIDE DEF T
<1>3. \A e \in S : \E a \in 1 .. n : T[a] = e
  <2> SUFFICES ASSUME NEW e \in S PROVE \E a \in 1 .. n : T[a] = e
    OBVIOUS
  <2>1. PICK a \in 1 .. n : s[a] = e
    BY <1>1
  <2>2. CASE a = i
    <3>1. T[k] = s[i]
      BY <1>1, <1>2
    <3> QED
      BY <2>1, <2>2, <3>1
  <2>3. CASE a = k
    <3>1. T[i] = s[k]
      BY <1>1, <1>2
    <3> QED
      BY <2>1, <2>3, <3>1
  <2>4. CASE a # i /\ a # k
    BY <1>1, <1>2, <2>1, <2>4
  <2> QED
    BY <2>2, <2>3, <2>4
<1>4. \A a \in 1 .. n :
        g[T[a]] = IF a \in {i, k} \/ f[s[a]] < f[s[k]] THEN f[s[a]] ELSE f[s[a]] + 1
  <2> SUFFICES ASSUME NEW a \in 1 .. n
               PROVE  g[T[a]] = IF a \in {i, k} \/ f[s[a]] < f[s[k]]
                                THEN f[s[a]] ELSE f[s[a]] + 1
    OBVIOUS
  <2>1. CASE a \in {i, k}
    BY <1>1, <1>2, <2>1
  <2>2. CASE a \notin {i, k}
    <3>1. T[a] = s[a] /\ s[a] \in S \ {s[i], s[k]}
      BY <1>1, <1>2, <2>2
    <3>2. f[s[a]] \in Int /\ f[s[k]] \in Int
      BY <1>1
    <3> QED
      BY <2>2, <3>1, <3>2
  <2> QED
    BY <2>1, <2>2
<1>5. ASSUME NEW a \in 1 .. n, NEW b \in 1 .. n, a < b
      PROVE  g[T[a]] < g[T[b]]
  <2>0. \A c, d \in 1 .. n : f[s[c]] < f[s[d]] => c < d
    BY OnceInLine
  <2>1. /\ f[s[a]] \in Int /\ f[s[b]] \in Int /\ f[s[i]] \in Int /\ f[s[k]] \in Int
        /\ f[s[a]] < f[s[b]]
        /\ a < k <=> f[s[a]] < f[s[k]]
        /\ a < i <=> f[s[a]] < f[s[i]]
        /\ b < k <=> f[s[b]] < f[s[k]]
        /\ b < i <=> f[s[b]] < f[s[i]]
    BY <1>1, <1>5, <2>0
  <2>2. /\ g[T[a]] = IF a \in {i, k} \/ a < k THEN f[s[a]] ELSE f[s[a]] + 1
        /\ g[T[b]] = IF b \in {i, k} \/ b < k THEN f[s[b]] ELSE f[s[b]] + 1
    BY <1>4, <2>1
  <2>3. a \in Nat /\ b \in Nat /\ i \in Nat /\ k \in Nat
    BY <1>1
  <2>4. a \in {i, k} \/ a < k \/ g[T[b]] = f[s[b]] + 1
    BY <1>5, <2>2, <2>3
  <2> QED
    BY <2>1, <2>2, <2>4
<1> QED
  BY <1>2, <1>3, <1>5 DEF InLine, T

\* The place of an entry in the list of a request, the place that it moves to,
\* and the list with both exchanged, as MoveSwaps says.
PlaceIn(a) == CHOOSE k \in 1 .. Len(a.list) : a.list[k] = a.entry
GoesTo(a) == IF a.what = "up" THEN Max({1, PlaceIn(a) - 1})
                              ELSE Min({Len(a.list), PlaceIn(a) + 1})
Swapped(a) == Exchanged(a.list, a.entry, a.list[GoesTo(a)])

\* An entry moves by one, but not out of the list.
LEMMA MovesByOne ==
  ASSUME NEW S \in SUBSET Entries, NEW f \in [Entries -> Int], NEW a,
         InLine(a.list, S, f), a.entry \in S
  PROVE  /\ PlaceIn(a) \in 1 .. Len(a.list) /\ a.list[PlaceIn(a)] = a.entry
         /\ GoesTo(a) \in 1 .. Len(a.list)
         /\ a.what = "up" => GoesTo(a) = IF PlaceIn(a) = 1 THEN 1 ELSE PlaceIn(a) - 1
         /\ a.what # "up" => GoesTo(a) = IF PlaceIn(a) = Len(a.list) THEN Len(a.list)
                                         ELSE PlaceIn(a) + 1
<1> DEFINE n == Len(a.list)
           i == PlaceIn(a)
<1>1. n \in Nat /\ i \in 1 .. n /\ a.list[i] = a.entry
  <2>1. n \in Nat
    BY OnceInLine
  <2>2. \E k \in 1 .. n : a.list[k] = a.entry
    BY DEF InLine
  <2> QED
    BY <2>1, <2>2 DEF PlaceIn
<1> HIDE DEF i, n
<1>2. Max({1, i - 1}) = IF i = 1 THEN 1 ELSE i - 1
  <2>1. CASE i = 1
    BY <1>1, <2>1 DEF Max
  <2>2. CASE i # 1
    <3>1. i - 1 \in Int /\ i - 1 >= 1
      BY <1>1, <2>2
    <3>2. \A x \in {1, i - 1} : (\A y \in {1, i - 1} : x >= y) <=> x = i - 1
      BY <3>1
    <3>3. i - 1 \in {1, i - 1}
      OBVIOUS
    <3> QED
      BY <2>2, <3>2, <3>3 DEF Max
  <2> QED
    BY <2>1, <2>2
<1>3. Min({n, i + 1}) = IF i = n THEN n ELSE i + 1
  <2>1. CASE i = n
    <3>1. \A x \in {n, i + 1} : (\A y \in {n, i + 1} : x <= y) <=> x = n
      BY <1>1, <2>1
    <3>2. n \in {n, i + 1}
      OBVIOUS
    <3> QED
      BY <2>1, <3>1, <3>2 DEF Min
  <2>2. CASE i # n
    <3>1. \A x \in {n, i + 1} : (\A y \in {n, i + 1} : x <= y) <=> x = i + 1
      BY <1>1, <2>2
    <3>2. i + 1 \in {n, i + 1}
      OBVIOUS
    <3> QED
      BY <2>2, <3>1, <3>2 DEF Min
  <2> QED
    BY <2>1, <2>2
<1>4. GoesTo(a) = IF a.what = "up" THEN Max({1, i - 1}) ELSE Min({n, i + 1})
  BY DEF GoesTo, i, n
<1> QED
  BY <1>1, <1>2, <1>3, <1>4 DEF i, n

\* Of the entries with a lower order, the last one is next to the entry.
LEMMA LastAboveIsNext ==
  ASSUME MenuTypes, NEW s, InLine(s, entries, OrdersOf(place)),
         NEW i \in 1 .. Len(s)
  PROVE  LET above == {e \in entries : place[e].order < place[s[i]].order}
             last == {e \in above : place[e].order = Largest(above, place)}
         IN  /\ last = {} => i = 1
             /\ \A o \in last : i > 1 /\ o = s[i - 1]
<1> DEFINE above == {e \in entries : place[e].order < place[s[i]].order}
           O == {place[e].order : e \in above}
           f == OrdersOf(place)
<1>1. /\ entries \in SUBSET Entries /\ place \in Places
      /\ \A e \in entries : place[e].order \in Int /\ f[e] = place[e].order
      /\ f \in [Entries -> Int]
  BY TypesSay DEF MenuTypes, OrdersOf
<1>0. InLine(s, entries, f)
  OBVIOUS
<1>2. /\ Len(s) \in Nat
      /\ \A k \in 1 .. Len(s) : s[k] \in entries
      /\ \A k, l \in 1 .. Len(s) : s[k] = s[l] => k = l
      /\ \A k, l \in 1 .. Len(s) : f[s[k]] < f[s[l]] => k < l
  <2> HIDE DEF f
  <2>1. entries \in SUBSET Entries /\ f \in [Entries -> Int]
    BY <1>1
  <2>2. /\ Len(s) \in Nat
        /\ \A k \in 1 .. Len(s) : s[k] \in entries /\ s[k] \in Entries /\ f[s[k]] \in Int
        /\ \A k, l \in 1 .. Len(s) : s[k] = s[l] => k = l
        /\ \A k, l \in 1 .. Len(s) : f[s[k]] < f[s[l]] => k < l
    BY <1>0, <2>1, OnceInLine
  <2> QED
    BY <2>2
<1>3. /\ \A k, l \in 1 .. Len(s) : k < l => f[s[k]] < f[s[l]]
      /\ \A e \in entries : \E k \in 1 .. Len(s) : s[k] = e
  BY DEF InLine
<1> HIDE DEF f
<1>4. ASSUME i > 1
      PROVE  /\ s[i - 1] \in above /\ i - 1 \in 1 .. Len(s)
             /\ \A e \in above : place[e].order <= place[s[i - 1]].order
  <2>1. i - 1 \in 1 .. Len(s) /\ i - 1 < i
    BY <1>2, <1>4
  <2>2. s[i - 1] \in above
    BY <1>1, <1>2, <1>3, <2>1
  <2>3. ASSUME NEW e \in above PROVE place[e].order <= place[s[i - 1]].order
    <3>1. PICK k \in 1 .. Len(s) : s[k] = e
      BY <1>3
    <3>2. k < i
      BY <1>1, <1>2, <3>1
    <3>3. k = i - 1 \/ k < i - 1
      BY <1>2, <3>2
    <3>4. k < i - 1 => f[s[k]] < f[s[i - 1]]
      BY <1>3, <2>1
    <3> QED
      BY <1>1, <1>2, <2>1, <3>1, <3>3, <3>4
  <2> QED
    BY <2>1, <2>2, <2>3
<1>5. ASSUME i > 1 PROVE Largest(above, place) = place[s[i - 1]].order
  <2> DEFINE m == place[s[i - 1]].order
  <2>1. m \in O /\ (\A y \in O : m >= y) /\ O \subseteq Int
    BY <1>1, <1>4, <1>5
  <2> HIDE DEF m, O
  <2>2. \A x \in O : (\A y \in O : x >= y) => x = m
    BY <2>1
  <2>3. Max(O) = m
    BY <2>1, <2>2 DEF Max
  <2>4. above # {}
    BY <1>4, <1>5
  <2> QED
    BY <2>3, <2>4 DEF Largest, O, m
<1>6. ASSUME NEW o \in above, place[o].order = Largest(above, place)
      PROVE  i > 1 /\ o = s[i - 1]
  <2>1. PICK k \in 1 .. Len(s) : s[k] = o
    BY <1>3
  <2>2. k < i
    BY <1>1, <1>2, <2>1
  <2>3. i > 1
    BY <1>2, <2>2
  <2>4. i - 1 \in 1 .. Len(s) /\ f[s[k]] = f[s[i - 1]]
    BY <1>1, <1>2, <1>4, <1>5, <1>6, <2>1, <2>3
  <2>5. ~(k < i - 1)
    BY <1>1, <1>2, <1>3, <2>4
  <2> QED
    BY <1>2, <2>1, <2>2, <2>3, <2>5
<1>7. i # 1 => i > 1
  BY <1>2
<1>8. i # 1 => \E e \in above : place[e].order = Largest(above, place)
  BY <1>4, <1>5, <1>7
<1> QED
  BY <1>6, <1>8

\* Of the entries with a higher order, the first one is next to the entry.
LEMMA FirstBelowIsNext ==
  ASSUME MenuTypes, NEW s, InLine(s, entries, OrdersOf(place)),
         NEW i \in 1 .. Len(s)
  PROVE  LET below == {e \in entries : place[e].order > place[s[i]].order}
             first == {e \in below : \A b \in below : place[e].order <= place[b].order}
         IN  /\ first = {} => i = Len(s)
             /\ \A o \in first : i < Len(s) /\ o = s[i + 1]
<1> DEFINE below == {e \in entries : place[e].order > place[s[i]].order}
           f == OrdersOf(place)
<1>1. /\ entries \in SUBSET Entries /\ place \in Places
      /\ \A e \in entries : place[e].order \in Int /\ f[e] = place[e].order
      /\ f \in [Entries -> Int]
  BY TypesSay DEF MenuTypes, OrdersOf
<1>0. InLine(s, entries, f)
  OBVIOUS
<1>2. /\ Len(s) \in Nat
      /\ \A k \in 1 .. Len(s) : s[k] \in entries
      /\ \A k, l \in 1 .. Len(s) : s[k] = s[l] => k = l
      /\ \A k, l \in 1 .. Len(s) : f[s[k]] < f[s[l]] => k < l
  <2> HIDE DEF f
  <2>1. entries \in SUBSET Entries /\ f \in [Entries -> Int]
    BY <1>1
  <2>2. /\ Len(s) \in Nat
        /\ \A k \in 1 .. Len(s) : s[k] \in entries /\ s[k] \in Entries /\ f[s[k]] \in Int
        /\ \A k, l \in 1 .. Len(s) : s[k] = s[l] => k = l
        /\ \A k, l \in 1 .. Len(s) : f[s[k]] < f[s[l]] => k < l
    BY <1>0, <2>1, OnceInLine
  <2> QED
    BY <2>2
<1>3. /\ \A k, l \in 1 .. Len(s) : k < l => f[s[k]] < f[s[l]]
      /\ \A e \in entries : \E k \in 1 .. Len(s) : s[k] = e
  BY DEF InLine
<1> HIDE DEF f
<1>4. ASSUME i < Len(s)
      PROVE  /\ s[i + 1] \in below /\ i + 1 \in 1 .. Len(s)
             /\ \A e \in below : place[s[i + 1]].order <= place[e].order
  <2>1. i + 1 \in 1 .. Len(s) /\ i < i + 1
    BY <1>2, <1>4
  <2>2. s[i + 1] \in below
    BY <1>1, <1>2, <1>3, <2>1
  <2>3. ASSUME NEW e \in below PROVE place[s[i + 1]].order <= place[e].order
    <3>1. PICK k \in 1 .. Len(s) : s[k] = e
      BY <1>3
    <3>2. i < k
      BY <1>1, <1>2, <3>1
    <3>3. k = i + 1 \/ i + 1 < k
      BY <1>2, <3>2
    <3>4. i + 1 < k => f[s[i + 1]] < f[s[k]]
      BY <1>3, <2>1
    <3> QED
      BY <1>1, <1>2, <2>1, <3>1, <3>3, <3>4
  <2> QED
    BY <2>1, <2>2, <2>3
<1>5. ASSUME NEW o \in below, \A b \in below : place[o].order <= place[b].order
      PROVE  i < Len(s) /\ o = s[i + 1]
  <2>1. PICK k \in 1 .. Len(s) : s[k] = o
    BY <1>3
  <2>2. i < k
    BY <1>1, <1>2, <2>1
  <2>3. i < Len(s)
    BY <1>2, <2>2
  <2>4. i + 1 \in 1 .. Len(s) /\ f[s[k]] <= f[s[i + 1]] /\ f[s[k]] \in Int
        /\ f[s[i + 1]] \in Int
    BY <1>1, <1>2, <1>4, <1>5, <2>1, <2>3
  <2>5. ~(i + 1 < k)
    BY <1>3, <2>4
  <2> QED
    BY <1>2, <2>1, <2>2, <2>3, <2>5
<1>6. i # Len(s) => i < Len(s)
  BY <1>2
<1>7. i # Len(s) => \E e \in below : \A b \in below : place[e].order <= place[b].order
  BY <1>4, <1>6
<1> QED
  BY <1>5, <1>7

\* Exchanging an entry with itself changes nothing.
LEMMA ExchangedWithItself ==
  ASSUME NEW S, NEW s \in Seq(S), NEW e
  PROVE  Exchanged(s, e, e) = s
<1>1. s = [i \in DOMAIN s |-> s[i]]
  OBVIOUS
<1>2. \A i \in DOMAIN s :
        (CASE s[i] = e -> e [] s[i] = e -> e [] OTHER -> s[i]) = s[i]
  OBVIOUS
<1>3. Exchanged(s, e, e) = [i \in DOMAIN s |-> s[i]]
  BY <1>2 DEF Exchanged
<1> QED
  BY <1>1, <1>3

\* Who is first may come even earlier, who is last even later.
LEMMA EndsStay ==
  ASSUME NEW S \in SUBSET Entries, NEW f \in [Entries -> Int], NEW s, InLine(s, S, f),
         NEW i \in 1 .. Len(s), NEW order \in Int,
         \/ i = 1 /\ order < f[s[i]]
         \/ i = Len(s) /\ order > f[s[i]]
  PROVE  InLine(s, S, [f EXCEPT ![s[i]] = order])
<1> DEFINE g == [f EXCEPT ![s[i]] = order]
<1>1. /\ Len(s) \in Nat
      /\ \A k \in 1 .. Len(s) : s[k] \in S /\ s[k] \in Entries /\ f[s[k]] \in Int
      /\ \A k, l \in 1 .. Len(s) : s[k] = s[l] => k = l
      /\ \A k, l \in 1 .. Len(s) : f[s[k]] < f[s[l]] => k < l
  BY OnceInLine
<1>2. /\ \A k, l \in 1 .. Len(s) : k < l => f[s[k]] < f[s[l]]
      /\ \A e \in S : \E k \in 1 .. Len(s) : s[k] = e
  BY DEF InLine
<1>3. \A e \in Entries : g[e] = IF e = s[i] THEN order ELSE f[e]
  OBVIOUS
<1> HIDE DEF g
<1>4. ASSUME NEW a \in S, NEW b \in S, f[a] < f[b]
      PROVE  g[a] < g[b]
  <2>1. PICK k \in 1 .. Len(s) : s[k] = a
    BY <1>2
  <2>2. PICK l \in 1 .. Len(s) : s[l] = b
    BY <1>2
  <2>3. k < l
    BY <1>1, <1>4, <2>1, <2>2
  <2>4. f[a] \in Int /\ f[b] \in Int /\ a \in Entries /\ b \in Entries
    OBVIOUS
  <2>5. (a = s[i] => order < f[s[i]]) /\ (b = s[i] => order > f[s[i]])
    BY <1>1, <2>1, <2>2, <2>3
  <2>6. a # b
    BY <1>4, <2>4
  <2> QED
    BY <1>3, <1>4, <2>4, <2>5, <2>6
<1> QED
  BY <1>4, StaysInLine DEF g

(***************************************************************************)
(* What a move has still to do with the entries E and their orders f, if a *)
(* is what was asked for.  Before the first db_action the list is the one  *)
(* of the request; until the statement of its usupplemental it would be,   *)
(* had the entry kept its order; then the two are exchanged as soon as the *)
(* other one gets the old order.  Where there is no other one, and in the  *)
(* second db_action, what is left to do only leads to the new list.        *)
(***************************************************************************)
OnItsWay(j, E, f, a) ==
  LET other == a.list[GoesTo(a)]
  IN  /\ j.left = 0 /\ j.move = a.what /\ a.entry \in E
      /\ j.step \in {"neighbour", "update", "reread", "shift", "other"}
      /\ j.step = "neighbour" =>
           /\ InLine(a.list, E, f)
           /\ j.id = a.entry /\ j.oid = 0
           /\ j.old = f[a.entry] /\ j.order = f[a.entry]
      /\ j.step = "update" /\ j.oid = 0 =>
           InLine(Swapped(a), E, [f EXCEPT ![j.id] = j.order])
      /\ j.step = "update" /\ j.oid # 0 =>
           /\ InLine(a.list, E, f)
           /\ j.id = a.entry /\ j.oid = other /\ other # a.entry
           /\ j.old = f[a.entry] /\ j.order = f[other]
      /\ j.step \in {"reread", "shift"} /\ j.oid = 0 => InLine(Swapped(a), E, f)
      /\ j.step \in {"reread", "shift"} /\ j.oid # 0 =>
           /\ InLine(a.list, E, [f EXCEPT ![a.entry] = j.old])
           /\ j.id = a.entry /\ j.oid = other /\ other # a.entry
           /\ f[a.entry] = f[other]
      /\ j.step = "other" =>
           /\ InLine(Swapped(a), E, [f EXCEPT ![other] = j.old])
           /\ j.oid = other

\* An item that is moved up or down is on its way, or where it was to go.
MoveInv ==
  orderly /\ asked.what \in {"up", "btm"} =>
    /\ Quiet => InLine(Swapped(asked), entries, OrdersOf(place))
    /\ \A w \in Writers : todo[w].step # "idle" =>
         OnItsWay(todo[w], entries, OrdersOf(place), asked)

\* The orders are numbers.
LEMMA OrdersAreNumbers ==
  ASSUME MenuTypes
  PROVE  /\ OrdersOf(place) \in [Entries -> Int]
         /\ entries \in SUBSET Entries /\ place \in Places
         /\ \A e \in entries : e # 0 /\ OrdersOf(place)[e] = place[e].order
BY TypesSay DEF MenuTypes, OrdersOf

\* A process that is on its way goes on.
LEMMA MoveGoesOn ==
  ASSUME MenuInv, orderly, NEW w \in Writers, todo[w].step # "idle",
         NEW job, Does(w, job), asked' = asked,
         job.step = "idle" => InLine(Swapped(asked), entries', OrdersOf(place'))
                              /\ asked.entry \in entries',
         job.step # "idle" => OnItsWay(job, entries', OrdersOf(place'), asked)
  PROVE  MoveInv'
<1>1. /\ todo'[w] = job
      /\ \A v \in Writers \ {w} : todo'[v].step = "idle"
  <2>1. todo \in [Writers -> Job] /\ todo' = [todo EXCEPT ![w] = job]
    BY DEF MenuInv, MenuTypes, Does
  <2>2. \A v \in Writers \ {w} : todo[v].step = "idle"
    BY OnlyOne
  <2> QED
    BY <2>1, <2>2
<1>2. Quiet' => job.step = "idle"
  BY <1>1 DEF Quiet
<1>3. \A v \in Writers : todo'[v].step # "idle" => v = w
  BY <1>1
<1> QED
  BY <1>1, <1>2, <1>3 DEF MoveInv

\* The neighbour is the entry that the move exchanges with; without one, the
\* entry stays where it is.
LEMMA NeighbourMoves ==
  ASSUME MenuInv, MoveInv, orderly, asked.what \in {"up", "btm"},
         NEW w \in Writers, Neighbour(w)
  PROVE  MoveInv'
<1> DEFINE j == todo[w]
           f == OrdersOf(place)
           e == asked.entry
           s == asked.list
           i == PlaceIn(asked)
           k == GoesTo(asked)
<1>1. /\ MenuTypes /\ j \in Job /\ j.step = "neighbour" /\ j.step # "idle"
      /\ j.old \in Int /\ j.order \in Int
      /\ UNCHANGED << entries, place, asked >>
  BY TypesSay DEF MenuInv, Neighbour
<1>2. OnItsWay(j, entries, f, asked)
  BY <1>1 DEF MoveInv
<1>3. /\ InLine(s, entries, f) /\ e \in entries
      /\ j.left = 0 /\ j.move = asked.what /\ j.id = e /\ j.oid = 0
      /\ j.old = f[e] /\ j.order = f[e]
  BY <1>1, <1>2 DEF OnItsWay
<1>4. /\ f \in [Entries -> Int] /\ entries \in SUBSET Entries /\ place \in Places
      /\ \A x \in entries : x # 0 /\ f[x] = place[x].order
  BY <1>1, OrdersAreNumbers
<1> HIDE DEF f
<1>5. /\ i \in 1 .. Len(s) /\ s[i] = e /\ k \in 1 .. Len(s)
      /\ asked.what = "up" => k = IF i = 1 THEN 1 ELSE i - 1
      /\ asked.what # "up" => k = IF i = Len(s) THEN Len(s) ELSE i + 1
  <2>1. InLine(asked.list, entries, f) /\ asked.entry \in entries
    BY <1>3
  <2>2. /\ PlaceIn(asked) \in 1 .. Len(asked.list)
        /\ asked.list[PlaceIn(asked)] = asked.entry
        /\ GoesTo(asked) \in 1 .. Len(asked.list)
        /\ asked.what = "up" => GoesTo(asked) = IF PlaceIn(asked) = 1 THEN 1
                                                ELSE PlaceIn(asked) - 1
        /\ asked.what # "up" =>
             GoesTo(asked) = IF PlaceIn(asked) = Len(asked.list)
                             THEN Len(asked.list) ELSE PlaceIn(asked) + 1
    BY <1>4, <2>1, MovesByOne
  <2> QED
    BY <2>2
<1>6. /\ Len(s) \in Nat /\ s \in Seq(entries)
      /\ \A a, b \in 1 .. Len(s) : s[a] = s[b] => a = b
      /\ \A a \in 1 .. Len(s) : s[a] \in entries
  BY <1>3, <1>4, OnceInLine DEF InLine
<1>7. /\ Neighbours(j) = {} => i = k /\ ((j.move = "up" /\ i = 1) \/ (j.move = "btm" /\ i = Len(s)))
      /\ \A o \in Neighbours(j) : o = s[k] /\ i # k
  <2>1. CASE asked.what = "up"
    <3> DEFINE above == {x \in entries : place[x].order < place[s[i]].order}
               last == {x \in above : place[x].order = Largest(above, place)}
    <3>1. j.old = place[s[i]].order
      BY <1>3, <1>4, <1>5
    <3>2. Neighbours(j) = last
      BY <1>3, <2>1, <3>1 DEF Neighbours
    <3>3. (last = {} => i = 1) /\ \A o \in last : i > 1 /\ o = s[i - 1]
      <4>1. InLine(s, entries, OrdersOf(place)) /\ i \in 1 .. Len(s)
        BY <1>3, <1>5 DEF f
      <4> HIDE DEF i, s
      <4> QED
        BY <1>1, <4>1, LastAboveIsNext
    <3> HIDE DEF last
    <3> QED
      BY <1>3, <1>5, <1>6, <2>1, <3>2, <3>3
  <2>2. CASE asked.what = "btm"
    <3> DEFINE below == {x \in entries : place[x].order > place[s[i]].order}
               first == {x \in below : \A b \in below : place[x].order <= place[b].order}
    <3>1. j.old = place[s[i]].order
      BY <1>3, <1>4, <1>5
    <3>2. Neighbours(j) = first
      BY <1>3, <2>2, <3>1 DEF Neighbours
    <3>3. (first = {} => i = Len(s)) /\ \A o \in first : i < Len(s) /\ o = s[i + 1]
      <4>1. InLine(s, entries, OrdersOf(place)) /\ i \in 1 .. Len(s)
        BY <1>3, <1>5 DEF f
      <4> HIDE DEF i, s
      <4> QED
        BY <1>1, <4>1, FirstBelowIsNext
    <3> HIDE DEF first
    <3> QED
      BY <1>3, <1>5, <1>6, <2>2, <3>2, <3>3
  <2> QED
    BY <2>1, <2>2
<1> HIDE DEF i, k, s, e
<1>8. CASE Neighbours(j) = {}
  <2> DEFINE order == CASE j.move = "up"  -> j.order - 1
                        [] j.move = "btm" -> j.order + 1
                        [] OTHER -> j.order
             job == [j EXCEPT !.step = "update", !.order = order]
  <2>1. Does(w, job)
    BY <1>8 DEF Neighbour
  <2>2. order \in Int /\ ((i = 1 /\ order < f[e]) \/ (i = Len(s) /\ order > f[e]))
    <3>1. CASE j.move = "up"
      <4>1. order = j.order - 1
        BY <3>1
      <4> HIDE DEF order
      <4> QED
        BY <1>1, <1>3, <1>7, <1>8, <3>1, <4>1
    <3>2. CASE j.move = "btm"
      <4>1. order = j.order + 1
        BY <3>2
      <4> HIDE DEF order
      <4> QED
        BY <1>1, <1>3, <1>7, <1>8, <3>2, <4>1
    <3> QED
      BY <1>3, <3>1, <3>2
  <2> HIDE DEF order
  <2>3. InLine(s, entries, [f EXCEPT ![e] = order])
    <3>1. (i = 1 /\ order < f[s[i]]) \/ (i = Len(s) /\ order > f[s[i]])
      BY <1>5, <2>2
    <3>2. InLine(s, entries, [f EXCEPT ![s[i]] = order])
      BY <1>3, <1>4, <1>5, <2>2, <3>1, EndsStay
    <3> QED
      BY <1>5, <3>2
  <2>4. Swapped(asked) = s
    BY <1>5, <1>6, <1>7, <1>8, ExchangedWithItself DEF Swapped, e, s, k
  <2>5. /\ job.step = "update" /\ job.oid = 0 /\ job.id = e /\ job.order = order
        /\ job.left = 0 /\ job.move = asked.what
    BY <1>1, <1>3 DEF Job
  <2> HIDE DEF job
  <2>6. OnItsWay(job, entries, f, asked)
    BY <1>3, <2>3, <2>4, <2>5 DEF OnItsWay, e
  <2> QED
    BY <1>1, <2>1, <2>5, <2>6, MoveGoesOn DEF f
<1>9. CASE Neighbours(j) # {}
  <2> PICK o \in Neighbours(j) :
        Does(w, [j EXCEPT !.step = "update", !.oid = o, !.order = place[o].order])
    BY <1>9 DEF Neighbour
  <2> DEFINE order == place[o].order
             job == [j EXCEPT !.step = "update", !.oid = o, !.order = order]
  <2>1. o = s[k] /\ o # e /\ o # 0 /\ order = f[o]
    BY <1>4, <1>5, <1>6, <1>7
  <2>2. Does(w, job)
    OBVIOUS
  <2> HIDE DEF order
  <2>3. /\ job.step = "update" /\ job.oid = o /\ job.id = e /\ job.order = order
        /\ job.left = 0 /\ job.move = asked.what /\ job.old = f[e]
    BY <1>1, <1>3 DEF Job
  <2> HIDE DEF job
  <2>4. OnItsWay(job, entries, f, asked)
    BY <1>3, <2>1, <2>3 DEF OnItsWay, e, s, k
  <2> QED
    BY <1>1, <2>2, <2>3, <2>4, MoveGoesOn DEF f
<1> QED
  BY <1>8, <1>9

\* The neighbour only has to get the old order.
LEMMA OtherMoves ==
  ASSUME MenuInv, MoveInv, orderly, asked.what \in {"up", "btm"},
         NEW w \in Writers, Other(w)
  PROVE  MoveInv'
<1> DEFINE j == todo[w]
           f == OrdersOf(place)
           job == [j EXCEPT !.step = "update", !.id = j.oid, !.order = j.old,
                            !.oid = 0]
<1>1. /\ j \in Job /\ j.step = "other" /\ j.step # "idle" /\ Does(w, job)
      /\ UNCHANGED << entries, place, asked >>
  BY TypesSay DEF MenuInv, Other
<1>2. OnItsWay(j, entries, f, asked)
  BY <1>1 DEF MoveInv
<1>3. /\ job.step = "update" /\ job.oid = 0 /\ job.id = j.oid /\ job.order = j.old
      /\ job.left = j.left /\ job.move = j.move
  BY <1>1 DEF Job
<1> HIDE DEF job, f
<1>4. OnItsWay(job, entries, f, asked)
  BY <1>1, <1>2, <1>3 DEF OnItsWay
<1> QED
  BY <1>1, <1>3, <1>4, MoveGoesOn DEF f

\* The statement of the first db_action gives the entry the order of the other
\* one, that of the second makes the new list.
LEMMA UpdateMoves ==
  ASSUME MenuInv, MoveInv, orderly, asked.what \in {"up", "btm"},
         NEW w \in Writers, Update(w)
  PROVE  MoveInv'
<1> DEFINE j == todo[w]
           f == OrdersOf(place)
           g == OrdersOf(place')
           e == asked.entry
           o == asked.list[GoesTo(asked)]
           job == [j EXCEPT !.step = "reread"]
<1>1. /\ MenuTypes /\ j \in Job /\ j.step = "update" /\ j.step # "idle"
      /\ Does(w, job) /\ j.id \in entries /\ j.order \in Int
      /\ UNCHANGED << entries, asked >>
      /\ place' = [place EXCEPT ![j.id].order = j.order]
  <2>1. MenuTypes /\ j \in Job /\ j.step = "update" /\ j.step # "idle"
        /\ j.order \in Int
    BY TypesSay DEF MenuInv, Update
  <2>2. j.id \in entries
    BY <2>1, OrderlySays DEF InOrder
  <2> QED
    BY <2>1, <2>2 DEF Update
<1>2. OnItsWay(j, entries, f, asked)
  BY <1>1 DEF MoveInv
<1>3. /\ f \in [Entries -> Int] /\ entries \in SUBSET Entries /\ place \in Places
      /\ \A x \in entries : x # 0 /\ f[x] = place[x].order
  BY <1>1, OrdersAreNumbers
<1>4. g = [f EXCEPT ![j.id] = j.order]
  <2>1. \A x \in Entries : place[x] \in [order : Int, level : 1 .. MaxLevel]
    BY <1>3 DEF Places
  <2>2. \A x \in Entries :
          place'[x] = IF x = j.id THEN [place[x] EXCEPT !.order = j.order] ELSE place[x]
    BY <1>1, <1>3 DEF Places
  <2>3. \A x \in Entries : place'[x].order = IF x = j.id THEN j.order ELSE place[x].order
    BY <2>1, <2>2
  <2>4. g = [x \in Entries |-> IF x = j.id THEN j.order ELSE f[x]]
    BY <2>3 DEF OrdersOf
  <2> HIDE DEF f, g
  <2> QED
    BY <1>1, <1>3, <2>4
<1>5. /\ job.step = "reread" /\ job.oid = j.oid /\ job.id = j.id /\ job.old = j.old
      /\ job.left = j.left /\ job.move = j.move
  BY <1>1 DEF Job
<1> HIDE DEF job, f, g
<1>6. CASE j.oid = 0
  <2>1. InLine(Swapped(asked), entries, g)
    BY <1>1, <1>2, <1>4, <1>6 DEF OnItsWay
  <2> QED
    <3>1. OnItsWay(job, entries, g, asked)
      BY <1>2, <1>5, <1>6, <2>1 DEF OnItsWay
    <3> QED
      BY <1>1, <1>5, <3>1, MoveGoesOn DEF g
<1>7. CASE j.oid # 0
  <2>1. /\ InLine(asked.list, entries, f)
        /\ j.id = e /\ j.oid = o /\ o # e /\ j.old = f[e] /\ j.order = f[o]
    BY <1>1, <1>2, <1>7 DEF OnItsWay
  <2> HIDE DEF e, o
  <2>2. g[e] = f[o] /\ g[o] = f[o]
    BY <1>1, <1>3, <1>4, <2>1
  <2>3. [g EXCEPT ![e] = f[e]] = f
    BY <1>1, <1>3, <1>4, <2>1
  <2>4. OnItsWay(job, entries, g, asked)
    BY ZenonT(20), <1>2, <1>5, <1>7, <2>1, <2>2, <2>3 DEF OnItsWay, e, o
  <2> QED
    BY <1>1, <1>5, <2>4, MoveGoesOn DEF g
<1> QED
  BY <1>6, <1>7

\* Reading the entry again changes no row.
LEMMA RereadMoves ==
  ASSUME MenuInv, MoveInv, orderly, asked.what \in {"up", "btm"},
         NEW w \in Writers, Reread(w)
  PROVE  MoveInv'
<1> DEFINE j == todo[w]
           f == OrdersOf(place)
           order == IF j.id \in entries THEN place[j.id].order ELSE j.order
           job == [j EXCEPT !.step = "shift", !.order = order]
<1>1. /\ j \in Job /\ j.step = "reread" /\ j.step # "idle" /\ Does(w, job)
      /\ UNCHANGED << entries, place, asked >>
  BY TypesSay DEF MenuInv, Reread
<1>2. OnItsWay(j, entries, f, asked)
  BY <1>1 DEF MoveInv
<1> HIDE DEF order
<1>3. /\ job.step = "shift" /\ job.oid = j.oid /\ job.id = j.id /\ job.old = j.old
      /\ job.left = j.left /\ job.move = j.move
  BY <1>1 DEF Job
<1> HIDE DEF job, f
<1>4. OnItsWay(job, entries, f, asked)
  BY <1>1, <1>2, <1>3 DEF OnItsWay
<1> QED
  BY <1>1, <1>3, <1>4, MoveGoesOn DEF f

\* The statement of usupplemental: in the first db_action the other one goes
\* behind the entry, with all that follow; in the second, or without another
\* one, the list stays.
LEMMA ShiftMoves ==
  ASSUME MenuInv, MoveInv, orderly, asked.what \in {"up", "btm"},
         NEW w \in Writers, Shift(w)
  PROVE  MoveInv'
<1> DEFINE j == todo[w]
           f == OrdersOf(place)
           g == OrdersOf(place')
           e == asked.entry
           o == asked.list[GoesTo(asked)]
           job == IF j.left > 0 THEN [j EXCEPT !.step = "add"]
                  ELSE IF j.oid # 0 THEN [j EXCEPT !.step = "other"]
                  ELSE Idle
<1>1. /\ MenuTypes /\ j \in Job /\ j.step = "shift" /\ j.step # "idle"
      /\ j.order \in Int /\ j.old \in Int /\ Does(w, job)
      /\ UNCHANGED << entries, asked >>
  BY TypesSay DEF MenuInv, Shift
<1>2. OnItsWay(j, entries, f, asked)
  BY <1>1 DEF MoveInv
<1>3. /\ f \in [Entries -> Int] /\ entries \in SUBSET Entries /\ place \in Places
      /\ \A x \in entries : x # 0 /\ f[x] = place[x].order
  BY <1>1, OrdersAreNumbers
<1>4. j.id \in entries /\ j.order = f[j.id] /\ j.left = 0 /\ e \in entries
      /\ \A x \in entries \ {j.id} : j.oid = 0 => f[x] # f[j.id]
  <2>1. InOrder(w)
    BY <1>1, OrderlySays
  <2>2. j.id \in entries /\ j.order = f[j.id] /\ j.left = 0 /\ e \in entries
    BY <1>1, <1>2, <1>3, <2>1 DEF InOrder, OnItsWay
  <2>3. ASSUME j.oid = 0, NEW x \in entries \ {j.id} PROVE f[x] # f[j.id]
    <3>1. InLine(Swapped(asked), entries, f)
      BY <1>1, <1>2, <2>3 DEF OnItsWay
    <3> DEFINE T == Swapped(asked)
    <3> HIDE DEF T, f
    <3>2. PICK a \in 1 .. Len(T) : T[a] = x
      BY <3>1 DEF InLine, T
    <3>3. PICK b \in 1 .. Len(T) : T[b] = j.id
      BY <2>2, <3>1 DEF InLine, T
    <3>4. Len(T) \in Nat
      BY <1>3, <3>1, OnceInLine DEF T
    <3>5. (a < b => f[x] < f[j.id]) /\ (b < a => f[j.id] < f[x]) /\ a # b
      BY <3>1, <3>2, <3>3 DEF InLine, T
    <3>6. f[x] \in Int /\ f[j.id] \in Int
      BY <1>3, <2>2
    <3> QED
      BY <3>4, <3>5, <3>6
  <2> QED
    BY <2>2, <2>3
<1>5. /\ g \in [Entries -> Int] /\ g[j.id] = f[j.id]
      /\ Needed(j.id, j.order) =>
           \A x \in entries \ {j.id} :
             g[x] = IF f[x] >= j.order THEN f[x] + 1 ELSE f[x]
      /\ ~Needed(j.id, j.order) => g = f
  <2>1. CASE ~Needed(j.id, j.order)
    <3>1. place' = place
      BY <2>1 DEF Shift
    <3> QED
      BY <1>3, <2>1, <3>1
  <2>2. CASE Needed(j.id, j.order)
    <3>1. place' = Shifted(j.id, j.order)
      BY <2>2 DEF Shift
    <3> DEFINE p == Shifted(j.id, j.order)
    <3>2. /\ p \in Places /\ (j.id \in Entries => p[j.id] = place[j.id])
          /\ \A a \in entries \ {j.id} :
               p[a].order = IF place[a].order >= j.order THEN place[a].order + 1
                            ELSE place[a].order
      BY <1>1, ShiftedApart
    <3>3. p = place'
      BY <3>1
    <3> HIDE DEF p
    <3>4. \A x \in Entries : g[x] = p[x].order
      BY <3>3 DEF OrdersOf
    <3>5. g \in [Entries -> Int]
      BY <3>2, <3>3 DEF OrdersOf, Places
    <3> HIDE DEF f, g
    <3>6. g[j.id] = f[j.id]
      BY <1>3, <1>4, <3>2, <3>4
    <3>7. \A x \in entries \ {j.id} : g[x] = IF f[x] >= j.order THEN f[x] + 1 ELSE f[x]
      BY <1>3, <3>2, <3>4
    <3> QED
      BY <2>2, <3>5, <3>6, <3>7
  <2> QED
    BY <2>1, <2>2
<1>6. /\ j.oid = 0 => job.step = "idle"
      /\ j.oid # 0 => /\ job.step = "other" /\ job.oid = j.oid /\ job.old = j.old
                      /\ job.left = j.left /\ job.move = j.move
  BY <1>1, <1>4 DEF Job, Idle
<1> HIDE DEF job, f, g
<1>7. CASE j.oid = 0
  <2>1. InLine(Swapped(asked), entries, f)
    BY <1>1, <1>2, <1>7 DEF OnItsWay
  <2>2. ASSUME NEW a \in entries, NEW b \in entries, f[a] < f[b] PROVE g[a] < g[b]
    <3>1. /\ f[a] \in Int /\ f[b] \in Int /\ g[a] \in Int /\ g[b] \in Int
          /\ f[j.id] \in Int /\ a \in Entries /\ b \in Entries
          /\ (a # j.id => f[a] # j.order) /\ (b # j.id => f[b] # j.order)
      BY <1>3, <1>4, <1>5, <1>7
    <3>2. CASE ~Needed(j.id, j.order)
      BY <1>5, <2>2, <3>2
    <3>3. CASE Needed(j.id, j.order)
      <4>1. /\ g[a] = IF a # j.id /\ f[a] >= j.order THEN f[a] + 1 ELSE f[a]
            /\ g[b] = IF b # j.id /\ f[b] >= j.order THEN f[b] + 1 ELSE f[b]
        BY <1>5, <3>3
      <4> QED
        BY <1>4, <2>2, <3>1, <4>1
    <3> QED
      BY <3>2, <3>3
  <2>3. InLine(Swapped(asked), entries, g)
    BY <2>1, <2>2, StaysInLine
  <2> QED
    BY <1>1, <1>4, <1>6, <1>7, <2>3, MoveGoesOn DEF g
<1>8. CASE j.oid # 0
  <2> DEFINE f0 == [f EXCEPT ![e] = j.old]
             g0 == [g EXCEPT ![o] = j.old]
             s == asked.list
             i == PlaceIn(asked)
             k == GoesTo(asked)
  <2>1. /\ InLine(s, entries, f0)
        /\ j.id = e /\ j.oid = o /\ o # e /\ f[e] = f[o]
    BY <1>1, <1>2, <1>8 DEF OnItsWay
  <2>2. f0 \in [Entries -> Int] /\ g0 \in [Entries -> Int]
    BY <1>1, <1>3, <1>5
  <2>3. /\ i \in 1 .. Len(s) /\ s[i] = e /\ k \in 1 .. Len(s) /\ s[k] = o
        /\ asked.what = "up" => k = IF i = 1 THEN 1 ELSE i - 1
        /\ asked.what # "up" => k = IF i = Len(s) THEN Len(s) ELSE i + 1
    <3> HIDE DEF f0
    <3>1. entries \in SUBSET Entries /\ asked.entry \in entries
          /\ InLine(asked.list, entries, f0)
      BY <1>3, <1>4, <2>1
    <3>2. /\ PlaceIn(asked) \in 1 .. Len(asked.list)
          /\ asked.list[PlaceIn(asked)] = asked.entry
          /\ GoesTo(asked) \in 1 .. Len(asked.list)
          /\ asked.what = "up" => GoesTo(asked) = IF PlaceIn(asked) = 1 THEN 1
                                                  ELSE PlaceIn(asked) - 1
          /\ asked.what # "up" =>
               GoesTo(asked) = IF PlaceIn(asked) = Len(asked.list)
                               THEN Len(asked.list) ELSE PlaceIn(asked) + 1
      BY <2>2, <3>1, MovesByOne
    <3> QED
      BY <3>2
  <2>4. o \in entries /\ Swapped(asked) = Exchanged(s, s[i], s[k])
    <3>1. s \in Seq(entries)
      BY <2>1 DEF InLine
    <3> QED
      BY <2>3, <3>1 DEF Swapped
  <2> HIDE DEF e, o, i, k, s
  <2>5. k = i - 1 \/ k = i + 1
    BY <2>1, <2>3
  <2>6. Needed(j.id, j.order)
    BY <1>3, <1>4, <2>1, <2>4 DEF Needed
  <2>7. /\ f0[e] = j.old /\ f0[o] = f[o] /\ g0[o] = j.old /\ g0[e] = f[o]
        /\ \A x \in entries \ {e, o} : f0[x] = f[x] /\ g0[x] = g[x]
    BY <1>3, <1>4, <1>5, <2>1, <2>4
  <2>8. \A x \in entries \ {e, o} : g0[x] = IF f0[x] >= f0[o] THEN f0[x] + 1 ELSE f0[x]
    BY <1>4, <1>5, <2>1, <2>6, <2>7
  <2> HIDE DEF f0, g0
  <2>9. InLine(Exchanged(s, s[i], s[k]), entries, g0)
    <3>1. g0[s[i]] = f0[s[k]] /\ g0[s[k]] = f0[s[i]]
      BY <2>3, <2>7
    <3>2. \A x \in entries \ {s[i], s[k]} :
            g0[x] = IF f0[x] >= f0[s[k]] THEN f0[x] + 1 ELSE f0[x]
      BY <2>3, <2>8
    <3> QED
      BY <1>3, <2>1, <2>2, <2>3, <2>5, <3>1, <3>2, ExchangedInLine
  <2>10. OnItsWay(job, entries, g, asked)
    BY <1>2, <1>6, <1>8, <2>1, <2>4, <2>9 DEF OnItsWay, g0, e, o, k, s
  <2> QED
    BY <1>1, <1>6, <1>8, <2>10, MoveGoesOn DEF g
<1> QED
  BY <1>7, <1>8

\* A move begins with the list as it is.
LEMMA MoveBegins ==
  ASSUME MenuInv, NEW w \in Writers, NEW e \in Entries, Move(w, e)
  PROVE  MoveInv'
<1> SUFFICES ASSUME orderly', asked'.what \in {"up", "btm"} PROVE MoveInv'
  BY DEF MoveInv
<1>1. PICK m \in Moves \ {"none"}, pos \in Orders :
        /\ Begin(w, m, e)
        /\ Does(w, [Idle EXCEPT !.step = "neighbour", !.move = m, !.id = e,
                     !.order = IF m = "vabs" THEN pos ELSE place[e].order,
                     !.old = place[e].order])
  BY DEF Move
<1>2. /\ orderly /\ e \in entries /\ UNCHANGED << entries, place >>
      /\ MenuTypes /\ todo \in [Writers -> Job]
      /\ Quiet /\ Distinct(entries)
  <2>1. orderly
    BY DEF Move
  <2>2. Quiet /\ Distinct(entries)
    BY <1>1, <2>1, BeginsQuiet
  <2> QED
    BY <2>1, <2>2 DEF Move, MenuInv, MenuTypes
<1>3. asked' = [what |-> m, entry |-> e, list |-> Listed(entries, place)]
  BY <1>1, <1>2 DEF Begin
<1> DEFINE f == OrdersOf(place)
           order == IF m = "vabs" THEN pos ELSE place[e].order
           job == [Idle EXCEPT !.step = "neighbour", !.move = m, !.id = e,
                     !.order = order, !.old = place[e].order]
<1>4. /\ entries \in SUBSET Entries /\ place \in Places
      /\ \A x \in entries : f[x] = place[x].order
  BY <1>2, OrdersAreNumbers
<1>5. InLine(Listed(entries, place), entries, f)
  <2> HIDE DEF f
  <2> QED
    BY <1>2, <1>4, ListedIsInLine DEF Distinct, f
<1>6. m \in {"up", "btm"} /\ order = place[e].order
  BY <1>3
<1>7. Does(w, job)
  BY <1>1
<1> HIDE DEF order, f
<1>8. /\ job.step = "neighbour" /\ job.move = m /\ job.id = e /\ job.order = order
      /\ job.old = place[e].order /\ job.oid = 0 /\ job.left = 0
  BY DEF Idle
<1> HIDE DEF job
<1>9. OnItsWay(job, entries, f, asked')
  BY <1>2, <1>3, <1>4, <1>5, <1>6, <1>8 DEF OnItsWay
<1>10. /\ todo'[w] = job
       /\ \A v \in Writers \ {w} : todo'[v].step = "idle"
  BY <1>2, <1>7 DEF Does, Quiet
<1>11. ~Quiet'
  BY <1>8, <1>10 DEF Quiet
<1>12. \A v \in Writers : todo'[v].step # "idle" => v = w
  BY <1>10
<1> QED
  BY <1>2, <1>9, <1>10, <1>11, <1>12 DEF MoveInv, f

\* In an orderly menu every step keeps its move on its way.
LEMMA MoveInvNext == MenuInv /\ MoveInv /\ [MenusNext]_menuVars => MoveInv'
<1> SUFFICES ASSUME MenuInv, MoveInv, [MenusNext]_menuVars PROVE MoveInv'
  OBVIOUS
<1>1. CASE UNCHANGED menuVars
  BY <1>1 DEF menuVars, MoveInv, Quiet
<1>2. CASE MenusNext
  <2> PICK w \in Writers :
        \/ Insert(w) \/ Neighbour(w) \/ Other(w) \/ Update(w) \/ Reread(w)
        \/ Shift(w) \/ AddItem(w) \/ Dies(w)
        \/ \E e \in Entries : \/ ChangeOrder(w, e) \/ Delete(w, e) \/ Move(w, e)
                              \/ MoveAside(w, e) \/ AddPageItems(w, e)
    BY <1>2 DEF MenusNext
  <2>1. CASE \E e \in Entries : Move(w, e)
    BY <2>1, MoveBegins
  <2>2. CASE Insert(w) \/ \E e \in Entries : \/ ChangeOrder(w, e) \/ Delete(w, e)
                                             \/ MoveAside(w, e) \/ AddPageItems(w, e)
    <3>1. ASSUME NEW what, NEW e, Begin(w, what, e), what \notin {"up", "btm"}
          PROVE  asked'.what \notin {"up", "btm"}
      BY <3>1 DEF Begin
    <3>2. asked'.what \notin {"up", "btm"}
      BY <2>2, <3>1 DEF Insert, ChangeOrder, Delete, MoveAside, AddPageItems
    <3> QED
      BY <3>2 DEF MoveInv
  <2>3. CASE Neighbour(w) \/ Other(w) \/ Update(w) \/ Reread(w) \/ Shift(w)
             \/ AddItem(w) \/ Dies(w)
    <3>1. orderly' = orderly /\ asked' = asked
      BY <2>3 DEF Neighbour, Other, Update, Reread, Shift, AddItem, Dies
    <3>2. CASE ~(orderly /\ asked.what \in {"up", "btm"})
      BY <3>1, <3>2 DEF MoveInv
    <3>3. CASE orderly /\ asked.what \in {"up", "btm"}
      <4>1. ~(AddItem(w) \/ Dies(w))
        <5> SUFFICES ASSUME AddItem(w) \/ Dies(w) PROVE FALSE
          OBVIOUS
        <5>1. todo[w].step = "add"
          BY <3>3 DEF AddItem, Dies
        <5>2. OnItsWay(todo[w], entries, OrdersOf(place), asked)
          BY <3>3, <5>1 DEF MoveInv
        <5> QED
          BY <5>1, <5>2 DEF OnItsWay
      <4> QED
        BY <2>3, <3>3, <4>1, NeighbourMoves, OtherMoves, UpdateMoves, RereadMoves,
           ShiftMoves
    <3> QED
      BY <3>2, <3>3
  <2> QED
    BY <2>1, <2>2, <2>3
<1> QED
  BY <1>1, <1>2

\* However many items a menu or paragraphs a page has, and whatever was added,
\* changed and removed before: "up" and "btm" exchange an item with the one
\* next to it and leave the others in their order, although move calls
\* db_action twice and each call moves all that follows.
THEOREM MovedItemsSwap == MenusSpec => []MoveSwaps
<1>1. MenusInit => MoveInv
  BY DEF MenusInit, MoveInv
<1>2. MenuInv /\ MoveInv => MoveSwaps
  <2> SUFFICES ASSUME MenuInv, MoveInv, orderly /\ Quiet /\ asked.what \in {"up", "btm"}
               PROVE  Listed(entries, place) = Swapped(asked)
    BY DEF MoveSwaps, Swapped, GoesTo, PlaceIn
  <2>1. InLine(Swapped(asked), entries, OrdersOf(place))
    BY DEF MoveInv
  <2>2. entries \in SUBSET Entries /\ place \in Places
    BY OrdersAreNumbers DEF MenuInv
  <2> QED
    BY <2>1, <2>2, InLineIsListed
<1> QED
  BY <1>1, <1>2, MenuInvInit, MenuInvNext, MoveInvNext, PTL DEF MenusSpec

-----------------------------------------------------------------------------
(* What a page shows of a menu.                                            *)

(***************************************************************************)
(* Induction over the numbers up to n, for a set of numbers in place of a  *)
(* predicate: a number that is missing has a least one before it.          *)
(***************************************************************************)
LEMMA UpTo ==
  ASSUME NEW n \in Nat, NEW S, 0 \in S,
         \A k \in 0 .. n - 1 : k \in S => k + 1 \in S
  PROVE  \A k \in 0 .. n : k \in S
<1> DEFINE Bad  == {k \in Nat : k <= n /\ k \notin S}
           less == OpToRel(<, Nat)
<1>1. less = {ss \in Nat \X Nat : ss[1] < ss[2]} /\ IsWellFoundedOn(less, Nat)
  BY NatLessThanWellFounded DEF OpToRel
<1> HIDE DEF less
<1>2. ASSUME Bad # {} PROVE FALSE
  <2>1. Bad \subseteq Nat
    OBVIOUS
  <2> HIDE DEF Bad
  <2>2. PICK k \in Bad : \A j \in Bad : ~(<< j, k >> \in less)
    BY <1>1, <1>2, <2>1, WFMin
  <2>3. k \in Nat /\ k <= n /\ k \notin S /\ k # 0
    BY <2>2 DEF Bad
  <2>4. k - 1 \in Nat /\ k - 1 < k /\ k - 1 \in 0 .. n - 1 /\ (k - 1) + 1 = k
    BY <2>3
  <2>5. << k - 1, k >> \in less
    BY <1>1, <2>3, <2>4
  <2>6. k - 1 \in S
    BY <2>2, <2>4, <2>5 DEF Bad
  <2> QED
    BY <2>3, <2>4, <2>6
<1> QED
  BY <1>2

\* Of some numbers up to n, one is the greatest.
LEMMA GreatestUpTo ==
  ASSUME NEW n \in Nat, NEW T \in SUBSET (0 .. n), 0 \in T
  PROVE  Max(T) \in T /\ \A x \in T : x <= Max(T)
<1> DEFINE S == {k \in 0 .. n : \E m \in T : m <= k /\ \A x \in T : x <= k => x <= m}
<1>1. 0 \in S
  OBVIOUS
<1>2. ASSUME NEW k \in 0 .. n - 1, k \in S PROVE k + 1 \in S
  <2>1. PICK m \in T : m <= k /\ \A x \in T : x <= k => x <= m
    BY <1>2
  <2>2. CASE k + 1 \in T
    BY <2>2
  <2>3. CASE k + 1 \notin T
    <3>1. \A x \in T : x <= k + 1 => x <= k
      BY <2>3
    <3> QED
      BY <2>1, <3>1
  <2> QED
    BY <2>2, <2>3
<1>3. n \in S
  <2>1. \A k \in 0 .. n : k \in S
    <3> HIDE DEF S
    <3> QED
      BY <1>1, <1>2, UpTo
  <2> QED
    BY <2>1
<1>4. PICK m \in T : \A x \in T : m >= x
  BY <1>3
<1> QED
  BY <1>4 DEF Max

(***************************************************************************)
(* The levels l of a list of n items, of which none is more than one below *)
(* the item before it: a menu is a tree written line by line.              *)
(***************************************************************************)
Tree(l, n) ==
  /\ n \in Nat /\ l \in [1 .. n -> Nat \ {0}]
  /\ \A i \in 1 .. n : l[i] <= IF i = 1 THEN 1 ELSE l[i - 1] + 1

\* Item i is s or what s is below.
Above(l, i, s) == i = s \/ (i < s /\ \A k \in i + 1 .. s : l[k] > l[i])

\* A level is not left out on the way down.
LEMMA NoLevelLeftOut ==
  ASSUME NEW l, NEW n, Tree(l, n), NEW level \in Nat,
         NEW a \in 1 .. n, NEW b \in 1 .. n, a < b,
         l[a] < level, level < l[b]
  PROVE  \E c \in a + 1 .. b : l[c] = level
<1> SUFFICES ASSUME \A c \in a + 1 .. b : l[c] # level PROVE FALSE
  OBVIOUS
<1>1. /\ n \in Nat /\ \A i \in 1 .. n : l[i] \in Nat
      /\ \A i \in 2 .. n : l[i] <= l[i - 1] + 1
  BY SMTT(15) DEF Tree
<1> DEFINE S == {m \in 0 .. b - a : l[a + m] < level}
<1>2. b - a \in Nat /\ 0 \in S
  BY <1>1
<1>3. ASSUME NEW m \in 0 .. (b - a) - 1, m \in S PROVE m + 1 \in S
  <2>1. /\ a + (m + 1) \in 2 .. n /\ a + (m + 1) \in a + 1 .. b
        /\ (a + (m + 1)) - 1 = a + m /\ a + m \in 1 .. n /\ m + 1 \in 0 .. b - a
    BY <1>1
  <2>2. l[a + (m + 1)] <= l[a + m] + 1 /\ l[a + m] < level
        /\ l[a + (m + 1)] # level /\ l[a + (m + 1)] \in Nat /\ l[a + m] \in Nat
    BY <1>1, <1>3, <2>1
  <2>3. l[a + (m + 1)] < level
    BY <2>2
  <2> QED
    BY <2>1, <2>3
<1>4. b - a \in S
  <2>1. \A m \in 0 .. b - a : m \in S
    <3> HIDE DEF S
    <3> QED
      BY <1>2, <1>3, UpTo
  <2> QED
    BY <1>2, <2>1
<1>5. a + (b - a) = b /\ l[b] \in Nat
  BY <1>1
<1> QED
  BY <1>4, <1>5

\* m is the next item that s is or is below, and nothing on the way to s is
\* above it.
NextAbove(l, m, s, n) ==
  m \in n + 1 .. s /\ Above(l, m, s) /\ \A k \in n + 1 .. s : l[k] >= l[m]

\* There is one until s is reached.
LEMMA SomeNextAbove ==
  ASSUME NEW l, NEW n, Tree(l, n), NEW s \in 1 .. n, NEW i \in 0 .. s - 1
  PROVE  \E m \in 1 .. n : NextAbove(l, m, s, i)
<1>1. n \in Nat /\ s \in Nat /\ \A k \in 1 .. n : l[k] \in Nat
  BY DEF Tree
<1> DEFINE S == {d \in 0 .. s - 1 : \E m \in 1 .. n : NextAbove(l, m, s, (s - 1) - d)}
<1>2. 0 \in S
  <2>1. NextAbove(l, s, s, (s - 1) - 0)
    BY <1>1 DEF NextAbove, Above
  <2> QED
    BY <1>1, <2>1
<1>3. ASSUME NEW d \in 0 .. (s - 1) - 1, d \in S PROVE d + 1 \in S
  <2> DEFINE h == (s - 1) - d
  <2>0. h \in 1 .. s - 1 /\ (s - 1) - (d + 1) = h - 1 /\ d + 1 \in 0 .. s - 1
        /\ h \in 1 .. n
    BY <1>1
  <2>1. PICK m \in 1 .. n : NextAbove(l, m, s, h)
    BY <1>3
  <2> HIDE DEF h
  <2>2. m \in h + 1 .. s /\ Above(l, m, s) /\ \A k \in h + 1 .. s : l[k] >= l[m]
    BY <2>1 DEF NextAbove
  <2>3. \A k \in (h - 1) + 1 .. s : k = h \/ k \in h + 1 .. s
    BY <1>1, <2>0
  <2>4. \A k \in h .. s : l[k] \in Nat
    BY <1>1, <2>0
  <2>5. CASE l[h] < l[m]
    <3>1. \A k \in h + 1 .. s : l[k] > l[h]
      BY <1>1, <2>0, <2>2, <2>4, <2>5
    <3>2. Above(l, h, s)
      BY <2>0, <3>1 DEF Above
    <3>3. \A k \in (h - 1) + 1 .. s : l[k] >= l[h]
      BY <2>0, <2>3, <2>4, <3>1
    <3>4. NextAbove(l, h, s, h - 1)
      BY <1>1, <2>0, <3>2, <3>3 DEF NextAbove
    <3> QED
      BY <2>0, <3>4
  <2>6. CASE ~(l[h] < l[m])
    <3>1. \A k \in (h - 1) + 1 .. s : l[k] >= l[m]
      BY <1>1, <2>0, <2>2, <2>3, <2>6
    <3>2. NextAbove(l, m, s, h - 1)
      BY <1>1, <2>0, <2>2, <3>1 DEF NextAbove
    <3> QED
      BY <2>0, <3>2
  <2> QED
    BY <2>5, <2>6
<1>4. \A d \in 0 .. s - 1 : d \in S
  <2>1. s - 1 \in Nat
    BY <1>1
  <2> HIDE DEF S
  <2> QED
    BY <1>2, <1>3, <2>1, UpTo
<1>5. (s - 1) - i \in 0 .. s - 1 /\ (s - 1) - ((s - 1) - i) = i
  BY <1>1
<1> QED
  BY <1>4, <1>5

(***************************************************************************)
(* The list s of a menu, as a tree: its entries from the least order to    *)
(* the greatest, and their levels l.                                       *)
(***************************************************************************)
MenuTree(s, l) ==
  /\ InLine(s, entries, OrdersOf(place))
  /\ l = [i \in 1 .. Len(s) |-> place[s[i]].level]
  /\ Tree(l, Len(s))

\* What that says of its items.
LEMMA ItemsOfTree ==
  ASSUME MenuTypes, NEW s, NEW l, MenuTree(s, l)
  PROVE  /\ Len(s) \in Nat /\ entries \in SUBSET Entries /\ place \in Places
         /\ \A i \in 1 .. Len(s) :
              /\ s[i] \in entries /\ place[s[i]].order \in Int
              /\ l[i] = place[s[i]].level /\ l[i] \in Nat \ {0}
         /\ \A e \in entries : \E i \in 1 .. Len(s) : s[i] = e
         /\ \A i, k \in 1 .. Len(s) : i < k => place[s[i]].order < place[s[k]].order
         /\ \A i, k \in 1 .. Len(s) : place[s[i]].order <= place[s[k]].order => i <= k
         /\ \A i, k \in 1 .. Len(s) : s[i] = s[k] => i = k
<1> DEFINE f == OrdersOf(place)
<1>1. /\ f \in [Entries -> Int] /\ entries \in SUBSET Entries /\ place \in Places
      /\ \A e \in entries : f[e] = place[e].order
  BY OrdersAreNumbers
<1>2. InLine(s, entries, f) /\ Tree(l, Len(s))
      /\ l = [i \in 1 .. Len(s) |-> place[s[i]].level]
  BY DEF MenuTree
<1> HIDE DEF f
<1>3. /\ Len(s) \in Nat
      /\ \A i \in 1 .. Len(s) : s[i] \in entries /\ s[i] \in Entries /\ f[s[i]] \in Int
      /\ \A i, k \in 1 .. Len(s) : s[i] = s[k] => i = k
      /\ \A i, k \in 1 .. Len(s) : f[s[i]] < f[s[k]] => i < k
  BY <1>1, <1>2, OnceInLine
<1>4. /\ \A e \in entries : \E i \in 1 .. Len(s) : s[i] = e
      /\ \A i, k \in 1 .. Len(s) : i < k => f[s[i]] < f[s[k]]
  BY <1>2 DEF InLine
<1>5. \A i \in 1 .. Len(s) : l[i] = place[s[i]].level /\ l[i] \in Nat \ {0}
  BY <1>2 DEF Tree
<1>6. \A i \in 1 .. Len(s) : f[s[i]] = place[s[i]].order /\ place[s[i]].order \in Int
  BY <1>1, <1>3
<1>7. \A i, k \in 1 .. Len(s) : i < k => place[s[i]].order < place[s[k]].order
  BY <1>4, <1>6
<1>8. ASSUME NEW i \in 1 .. Len(s), NEW k \in 1 .. Len(s),
             place[s[i]].order <= place[s[k]].order
      PROVE  i <= k
  <2> SUFFICES ASSUME k < i PROVE FALSE
    BY <1>3
  <2> QED
    BY <1>6, <1>7, <1>8
<1> QED
  BY <1>1, <1>3, <1>4, <1>5, <1>6, <1>7, <1>8

\* The walk has what the selected item is below, and the item itself.
LEMMA WalkIsAbove ==
  ASSUME MenuTypes, NEW s, NEW l, MenuTree(s, l),
         NEW sel \in 1 .. Len(s), NEW i \in 1 .. sel
  PROVE  s[i] \in Walk(s[sel]) <=> Above(l, i, sel)
<1> DEFINE A == {a \in entries : /\ place[a].level = place[s[i]].level
                                 /\ place[a].order <= place[s[sel]].order}
           O == {place[a].order : a \in A}
           N == Len(s)
<1>1. /\ N \in Nat /\ entries \in SUBSET Entries /\ place \in Places
      /\ \A k \in 1 .. N :
           /\ s[k] \in entries /\ place[s[k]].order \in Int
           /\ l[k] = place[s[k]].level /\ l[k] \in Nat \ {0}
      /\ \A e \in entries : \E k \in 1 .. N : s[k] = e
      /\ \A k, m \in 1 .. N : k < m => place[s[k]].order < place[s[m]].order
      /\ \A k, m \in 1 .. N : place[s[k]].order <= place[s[m]].order => k <= m
  BY ItemsOfTree
<1>2. i \in 1 .. N /\ i <= sel /\ sel \in 1 .. N
  BY <1>1
<1>3. /\ A \in SUBSET Entries
      /\ \A a \in A : \E k \in 1 .. sel : s[k] = a /\ l[k] = l[i]
      /\ \A k \in 1 .. sel : l[k] = l[i] => s[k] \in A
  <2>1. ASSUME NEW a \in A PROVE \E k \in 1 .. sel : s[k] = a /\ l[k] = l[i]
    <3>1. PICK k \in 1 .. N : s[k] = a
      BY <1>1
    <3>2. k <= sel
      BY <1>1, <1>2, <3>1
    <3>3. k \in 1 .. sel
      BY <1>1, <3>2
    <3> QED
      BY <1>1, <1>2, <3>1, <3>3
  <2>2. ASSUME NEW k \in 1 .. sel, l[k] = l[i] PROVE s[k] \in A
    <3>1. k \in 1 .. N /\ (k < sel \/ k = sel)
      BY <1>1, <1>2
    <3>2. place[s[k]].order <= place[s[sel]].order
      BY <1>1, <1>2, <3>1
    <3> QED
      BY <1>1, <1>2, <2>2, <3>1, <3>2
  <2> QED
    BY <1>1, <2>1, <2>2
<1>4. s[i] \in A /\ s[i] \in entries
  BY <1>1, <1>2, <1>3
<1> HIDE DEF A
<1>5. Largest(A, place) \in Int /\ \A a \in A : place[a].order <= Largest(A, place)
  BY <1>1, <1>3, LargestIsLargest
<1>6. s[i] \in Walk(s[sel]) <=>
        l[i] <= l[sel] /\ place[s[i]].order = Largest(A, place)
  <2>1. l[i] = place[s[i]].level /\ l[sel] = place[s[sel]].level
    BY <1>1, <1>2
  <2> HIDE DEF N
  <2> QED
    BY <1>4, <2>1 DEF Walk, A
<1>7. ASSUME Above(l, i, sel)
      PROVE  l[i] <= l[sel] /\ place[s[i]].order = Largest(A, place)
  <2>1. \A k \in i + 1 .. sel : l[k] > l[i]
    BY <1>1, <1>2, <1>7 DEF Above
  <2>2. l[i] <= l[sel]
    <3>1. i = sel \/ sel \in i + 1 .. sel
      BY <1>1, <1>2
    <3> QED
      BY <1>1, <1>2, <2>1, <3>1
  <2>3. ASSUME NEW a \in A PROVE place[a].order <= place[s[i]].order
    <3>1. PICK k \in 1 .. sel : s[k] = a /\ l[k] = l[i]
      BY <1>3
    <3>2. k \in 1 .. N /\ k \in Nat /\ i \in Nat /\ sel \in Nat
      BY <1>1, <1>2
    <3>3. k \notin i + 1 .. sel
      BY <1>1, <1>2, <2>1, <3>1, <3>2
    <3>4. k = i \/ k < i
      BY <3>2, <3>3
    <3> QED
      BY <1>1, <1>2, <3>1, <3>2, <3>4
  <2>4. place[s[i]].order \in O /\ O \subseteq Int
        /\ \A y \in O : place[s[i]].order >= y
    <3>1. \A a \in A : place[a].order \in Int
      BY <1>1, <1>2, <1>3
    <3> QED
      BY <1>1, <1>2, <1>4, <2>3, <3>1
  <2>5. Largest(A, place) = Max(O)
    BY <1>4 DEF Largest
  <2>6. Max(O) = place[s[i]].order
    <3> HIDE DEF O
    <3>1. \A x \in O : (\A y \in O : x >= y) => x = place[s[i]].order
      <4> SUFFICES ASSUME NEW x \in O, \A y \in O : x >= y
                   PROVE  x = place[s[i]].order
        OBVIOUS
      <4>1. x >= place[s[i]].order /\ place[s[i]].order >= x
        BY <2>4
      <4>2. x \in Int /\ place[s[i]].order \in Int
        BY <2>4
      <4> QED
        BY <4>1, <4>2
    <3> QED
      BY <2>4, <3>1 DEF Max
  <2> QED
    BY <2>2, <2>5, <2>6
<1>8. ASSUME l[i] <= l[sel], place[s[i]].order = Largest(A, place)
      PROVE  Above(l, i, sel)
  <2> SUFFICES ASSUME i < sel, NEW k \in i + 1 .. sel, ~(l[k] > l[i])
               PROVE  FALSE
    BY <1>1, <1>2 DEF Above
  <2>1. ASSUME NEW m \in i + 1 .. sel PROVE l[m] # l[i]
    <3>1. m \in 1 .. sel /\ m \in 1 .. N /\ i < m
      BY <1>1, <1>2
    <3>2. place[s[i]].order < place[s[m]].order
      BY <1>1, <1>2, <3>1
    <3>3. place[s[i]].order \in Int /\ place[s[m]].order \in Int
      BY <1>1, <1>2, <3>1
    <3> QED
      BY <1>3, <1>5, <1>8, <3>1, <3>2, <3>3
  <2>2. k \in 1 .. N /\ sel \in i + 1 .. sel
    BY <1>1, <1>2
  <2>3. l[k] < l[i] /\ l[i] < l[sel] /\ l[k] # l[sel]
    BY <1>1, <1>2, <1>8, <2>1, <2>2
  <2>4. k < sel
    BY <1>1, <1>2, <2>2, <2>3
  <2>5. Tree(l, N) /\ l[i] \in Nat
    BY <1>1, <1>2 DEF MenuTree
  <2>6. PICK c \in k + 1 .. sel : l[c] = l[i]
    BY SMTT(15), <1>2, <2>2, <2>3, <2>4, <2>5, NoLevelLeftOut
  <2>7. c \in i + 1 .. sel
    BY <1>1, <1>2
  <2> QED
    BY <2>1, <2>6, <2>7
<1> QED
  BY <1>6, <1>7, <1>8

\* The calls of emitRecursor under way: the first is at level 1, each other is
\* one below the call it was made from, which has made it.
Frames == [level : Nat \ {0}, see : BOOLEAN, saw : BOOLEAN]
Nested(c) ==
  /\ c \in Seq(Frames) /\ Len(c) >= 1
  /\ \A k \in 1 .. Len(c) : c[k].level = k
  /\ \A k \in 1 .. Len(c) - 1 : c[k].saw

\* The item before is one that is walked: another call would be made.
Opening(c) == c[Len(c)].see /\ ~c[Len(c)].saw

\* What changes in a sequence of calls.
LEMMA CallChanges ==
  ASSUME NEW c, Nested(c), NEW fr \in Frames
  PROVE  LET d == [c EXCEPT ![Len(c)] = fr]
         IN  fr.level = Len(c) =>
               Nested(d) /\ Len(d) = Len(c) /\ d[Len(d)] = fr
<1> DEFINE n == Len(c)
           d == [c EXCEPT ![n] = fr]
<1>1. /\ c \in Seq(Frames) /\ n \in Nat /\ n >= 1
      /\ \A k \in 1 .. n : c[k].level = k
      /\ \A k \in 1 .. n - 1 : c[k].saw
  BY DEF Nested
<1>2. d \in Seq(Frames) /\ Len(d) = n
      /\ \A k \in 1 .. n : d[k] = IF k = n THEN fr ELSE c[k]
  BY <1>1
<1> HIDE DEF d
<1>3. ASSUME fr.level = n PROVE Nested(d)
  <2>1. \A k \in 1 .. n : d[k].level = k
    BY <1>1, <1>2, <1>3
  <2>2. ASSUME NEW k \in 1 .. n - 1 PROVE d[k].saw
    <3>1. d[k] = c[k] /\ c[k].saw
      BY <1>1, <1>2
    <3> QED
      BY <3>1
  <2> QED
    BY <1>1, <1>2, <2>1, <2>2 DEF Nested
<1>4. d[Len(d)] = fr
  BY <1>1, <1>2
<1> QED
  BY <1>2, <1>3, <1>4 DEF d

\* A call more.
LEMMA CallMore ==
  ASSUME NEW c, Nested(c), NEW fr \in Frames, fr.level = Len(c) + 1,
         NEW yes \in BOOLEAN, yes
  PROVE  LET d == Append([c EXCEPT ![Len(c)].saw = yes], fr)
         IN  Nested(d) /\ Len(d) = Len(c) + 1 /\ d[Len(d)] = fr
<1> DEFINE n == Len(c)
           b == [c EXCEPT ![n].saw = yes]
           d == Append(b, fr)
           top == [c[n] EXCEPT !.saw = yes]
<1>1. /\ c \in Seq(Frames) /\ n \in Nat /\ n >= 1
      /\ \A k \in 1 .. n : c[k].level = k
      /\ \A k \in 1 .. n - 1 : c[k].saw
  BY DEF Nested
<1>2. c[n] \in Frames
  BY <1>1
<1>3. top \in Frames /\ top.level = c[n].level /\ top.saw = yes
  BY <1>2 DEF Frames
<1> HIDE DEF top
<1>4. b = [c EXCEPT ![n] = top]
  BY <1>1 DEF top
<1> HIDE DEF b
<1>5. b \in Seq(Frames) /\ Len(b) = n
      /\ \A k \in 1 .. n : b[k] = IF k = n THEN top ELSE c[k]
  BY <1>1, <1>3, <1>4
<1>6. d \in Seq(Frames) /\ Len(d) = n + 1 /\ d[n + 1] = fr
      /\ \A k \in 1 .. n : d[k] = b[k]
  BY <1>1, <1>5
<1> HIDE DEF d
<1>7. \A k \in 1 .. n + 1 : d[k].level = k
  <2>1. \A k \in 1 .. n + 1 : k \in 1 .. n \/ k = n + 1
    BY <1>1
  <2> QED
    BY <1>1, <1>3, <1>5, <1>6, <2>1
<1>8. ASSUME NEW k \in 1 .. (n + 1) - 1 PROVE d[k].saw
  <2>1. k \in 1 .. n /\ d[k] = b[k]
    BY <1>1, <1>6
  <2>2. CASE k = n
    <3>1. d[k] = top
      BY <1>1, <1>5, <2>1, <2>2
    <3> QED
      BY <1>3, <3>1
  <2>3. CASE k # n
    <3>1. k \in 1 .. n - 1 /\ d[k] = c[k]
      BY <1>1, <1>5, <2>1, <2>3
    <3> QED
      BY <1>1, <3>1
  <2> QED
    BY <2>2, <2>3
<1>9. Nested(d)
  BY <1>1, <1>6, <1>7, <1>8 DEF Nested
<1> QED
  BY <1>6, <1>9 DEF d, b

\* A call less: the one it was made from has made it.
LEMMA CallLess ==
  ASSUME NEW c, Nested(c), Len(c) > 1
  PROVE  LET d == Front(c)
         IN  Nested(d) /\ Len(d) = Len(c) - 1 /\ d[Len(d)].saw
<1> DEFINE n == Len(c)
           d == Front(c)
<1>1. /\ c \in Seq(Frames) /\ n \in Nat /\ n > 1
      /\ \A k \in 1 .. n : c[k].level = k
      /\ \A k \in 1 .. n - 1 : c[k].saw
  BY DEF Nested
<1>2. d \in Seq(Frames) /\ Len(d) = n - 1 /\ \A k \in 1 .. n - 1 : d[k] = c[k]
  <2>1. d = SubSeq(c, 1, n - 1)
    BY DEF Front
  <2> HIDE DEF d, n
  <2>2. n - 1 \in Nat /\ n - 1 <= n
    BY <1>1
  <2> QED
    BY <1>1, <2>1, <2>2, SubSeqProperties DEF n
<1> HIDE DEF d
<1>3. Nested(d)
  <2>1. \A k \in 1 .. n - 1 : d[k].level = k
    BY <1>1, <1>2
  <2>2. \A k \in 1 .. (n - 1) - 1 : k \in 1 .. n - 1
    BY <1>1
  <2>3. \A k \in 1 .. (n - 1) - 1 : d[k].saw
    BY <1>1, <1>2, <2>2
  <2> QED
    BY <1>1, <1>2, <2>1, <2>3 DEF Nested
<1>4. n - 1 \in 1 .. n - 1
  BY <1>1
<1>5. d[n - 1].saw
  BY <1>1, <1>2, <1>4
<1> QED
  BY <1>2, <1>3, <1>5 DEF d

\* What one row does.
LEMMA Emits ==
  ASSUME NEW out, NEW e, NEW walk, Nested(out.calls), place[e].level \in Nat \ {0},
         Opening(out.calls) => place[e].level <= Len(out.calls) + 1
  PROVE  LET r == EmitItem(out, e, walk)
             n == Len(out.calls)
             m == Len(r.calls)
             level == place[e].level
         IN  /\ Nested(r.calls) /\ out.shown \subseteq r.shown
             /\ level <= n \/ Opening(out.calls) => e \in r.shown
             /\ level = n => /\ m = n /\ r.calls[m].see = (e \in walk)
                             /\ r.calls[m].saw = out.calls[n].saw
             /\ level > n /\ Opening(out.calls) =>
                  m = n + 1 /\ r.calls[m].see = (e \in walk) /\ ~r.calls[m].saw
             /\ level > n /\ ~Opening(out.calls) => r = out
             /\ level < n => m = n - 1 /\ r.calls[m].saw
<1> DEFINE r == EmitItem(out, e, walk)
           c == out.calls
           n == Len(c)
           level == place[e].level
           seen == [level |-> level, see |-> e \in walk, saw |-> c[n].saw]
           new == [seen EXCEPT !.saw = FALSE]
           opened == Append([c EXCEPT ![n].saw = TRUE], new)
<1>1. /\ c \in Seq(Frames) /\ n \in Nat /\ n >= 1 /\ c[n] \in Frames
      /\ c[n].level = n
  <2>1. c \in Seq(Frames) /\ n >= 1 /\ n \in Nat /\ \A k \in 1 .. n : c[k].level = k
    BY DEF Nested
  <2>2. n \in 1 .. n
    BY <2>1
  <2> HIDE DEF n, c
  <2> QED
    BY <2>1, <2>2 DEF n
<1>2. /\ seen \in Frames /\ seen.level = level /\ seen.see = (e \in walk)
      /\ seen.saw = c[n].saw
  <2>1. c[n].saw \in BOOLEAN /\ (e \in walk) \in BOOLEAN
    BY <1>1 DEF Frames
  <2> QED
    BY <2>1 DEF Frames
<1>3. new \in Frames /\ new.level = level /\ new.see = (e \in walk) /\ ~new.saw
  <2>1. (e \in walk) \in BOOLEAN
    OBVIOUS
  <2>2. new = [level |-> level, see |-> e \in walk, saw |-> FALSE]
    <3>1. ASSUME NEW no
          PROVE  [seen EXCEPT !.saw = no] = [level |-> level, see |-> e \in walk, saw |-> no]
      OBVIOUS
    <3> QED
      BY Zenon, <3>1
  <2> HIDE DEF new
  <2> QED
    BY <2>1, <2>2 DEF Frames
<1>4. level \in Nat \ {0}
  OBVIOUS
<1>5. Nested(c) /\ (Opening(c) <=> c[n].see /\ ~c[n].saw)
      /\ (Opening(c) => level <= n + 1)
  BY DEF Opening
<1>6. /\ level = n => r = [shown |-> out.shown \cup {e},
                           calls |-> [c EXCEPT ![n] = seen]]
      /\ level > n /\ Opening(c) =>
           r = [shown |-> out.shown \cup {e}, calls |-> opened]
      /\ level > n /\ ~Opening(c) => r = out
      /\ level < n => r = [shown |-> out.shown \cup {e}, calls |-> Front(c)]
  <2> DEFINE equal == [shown |-> out.shown \cup {e}, calls |-> [c EXCEPT ![n] = seen]]
             more  == [shown |-> out.shown \cup {e}, calls |-> opened]
             less  == [shown |-> out.shown \cup {e}, calls |-> Front(c)]
  <2>1. c[n].level = n
    BY <1>1
  <2>2. r = CASE level = c[n].level -> equal
              [] level > c[n].level /\ c[n].see /\ ~c[n].saw -> more
              [] level > c[n].level /\ ~(c[n].see /\ ~c[n].saw) -> out
              [] level < c[n].level -> less
    BY DEF EmitItem
  <2> HIDE DEF equal, more, less, r, n, c, level, opened
  <2>3. CASE level = n
    <3>1. ~(level > n) /\ ~(level < n)
      BY <1>1, <1>4, <2>3
    <3> QED
      BY <2>1, <2>2, <2>3, <3>1 DEF equal
  <2>4. CASE level > n
    <3>1. level # n /\ ~(level < n)
      BY <1>1, <1>4, <2>4
    <3>2. CASE Opening(c)
      BY <1>5, <2>1, <2>2, <2>4, <3>1, <3>2 DEF more
    <3>3. CASE ~Opening(c)
      BY <1>5, <2>1, <2>2, <2>4, <3>1, <3>3
    <3> QED
      BY <2>4, <3>1, <3>2, <3>3
  <2>5. CASE level < n
    <3>1. level # n /\ ~(level > n)
      BY <1>1, <1>4, <2>5
    <3> QED
      BY <2>1, <2>2, <2>5, <3>1 DEF less
  <2>6. level = n \/ level > n \/ level < n
    BY <1>1, <1>4
  <2> QED
    BY <2>3, <2>4, <2>5, <2>6
<1>7. r.calls = out.calls => Nested(r.calls)
  OBVIOUS
<1> HIDE DEF r, seen, new, opened, level, n, c
<1>8. CASE level = n
  <2>1. r.shown = out.shown \cup {e} /\ r.calls = [c EXCEPT ![n] = seen]
    BY <1>6, <1>8
  <2>2. seen.level = Len(c) /\ r.calls = [c EXCEPT ![Len(c)] = seen]
    BY <1>2, <1>8, <2>1 DEF n
  <2>4. Nested(r.calls) /\ Len(r.calls) = Len(c) /\ r.calls[Len(r.calls)] = seen
    BY <1>2, <1>5, <2>2, CallChanges
  <2>3. ~(level > n) /\ ~(level < n)
    BY <1>1, <1>8
  <2> QED
    BY <1>2, <1>8, <2>1, <2>3, <2>4 DEF r, level, n, c
<1>9. CASE level > n /\ Opening(c)
  <2>1. r.shown = out.shown \cup {e}
        /\ r.calls = opened
    BY <1>6, <1>9
  <2>2. new.level = Len(c) + 1
    BY <1>1, <1>3, <1>4, <1>5, <1>9 DEF n
  <2>3. Nested(r.calls) /\ Len(r.calls) = n + 1 /\ r.calls[Len(r.calls)] = new
    <3>1. TRUE \in BOOLEAN /\ TRUE
      OBVIOUS
    <3> QED
      BY ZenonT(20), <1>3, <1>5, <2>1, <2>2, <3>1, CallMore DEF n, opened
  <2>4. level # n /\ ~(level < n)
    BY <1>1, <1>4, <1>9
  <2> QED
    BY <1>3, <1>9, <2>1, <2>3, <2>4 DEF r, level, n, c
<1>10. CASE level > n /\ ~Opening(c)
  <2>1. r = out /\ level # n /\ ~(level < n) /\ ~(level <= n)
    BY <1>1, <1>4, <1>6, <1>10
  <2> QED
    BY <1>5, <1>10, <2>1 DEF r, level, n, c
<1>11. CASE level < n
  <2>1. r.shown = out.shown \cup {e} /\ r.calls = Front(c)
    BY <1>6, <1>11
  <2>2. Len(c) > 1
    BY <1>1, <1>4, <1>11 DEF n
  <2>3. Nested(r.calls) /\ Len(r.calls) = n - 1 /\ r.calls[Len(r.calls)].saw
    BY <1>5, <2>1, <2>2, CallLess DEF n
  <2>4. level # n /\ ~(level > n)
    BY <1>1, <1>4, <1>11
  <2> QED
    BY <1>11, <2>1, <2>3, <2>4 DEF r, level, n, c
<1>12. level = n \/ level > n \/ level < n
  BY <1>1, <1>4
<1> QED
  <2> HIDE DEF Nested, Opening
  <2> QED
    BY <1>8, <1>9, <1>10, <1>11, <1>12 DEF c

\* Before the first row.
NoneShown ==
  [shown |-> {}, calls |-> << [level |-> 1, see |-> FALSE, saw |-> FALSE] >>]

\* f[n]: after the first n rows of s.
Emission(f, s, walk) ==
  /\ f[0] = NoneShown
  /\ \A n \in 1 .. Len(s) : f[n] = EmitItem(f[n - 1], s[n], walk)

\* The rows of any list can be emitted one after the other.
LEMMA EmissionExists ==
  ASSUME NEW s, Len(s) \in Nat, NEW walk
  PROVE  \E f : f = [n \in 0 .. Len(s) |->
                       IF n = 0 THEN NoneShown ELSE EmitItem(f[n - 1], s[n], walk)]
<1> DEFINE Next(f, n) == IF n = 0 THEN NoneShown ELSE EmitItem(f[n - 1], s[n], walk)
           S == {k \in 0 .. Len(s) : \E f : \A n \in 0 .. k : f[n] = Next(f, n)}
<1>1. 0 \in S
  <2> DEFINE f0 == [n \in {0} |-> NoneShown]
  <2>1. f0[0] = NoneShown
    OBVIOUS
  <2> HIDE DEF f0
  <2>2. \A n \in 0 .. 0 : f0[n] = Next(f0, n)
    <3>1. \A n \in 0 .. 0 : n = 0
      OBVIOUS
    <3> QED
      BY <2>1, <3>1
  <2> HIDE DEF Next
  <2> QED
    BY <2>2
<1>2. ASSUME NEW k \in 0 .. Len(s) - 1, k \in S PROVE k + 1 \in S
  <2>1. PICK f : \A n \in 0 .. k : f[n] = Next(f, n)
    BY <1>2
  <2> DEFINE g == [n \in 0 .. k + 1 |->
                     IF n = k + 1 THEN EmitItem(f[k], s[k + 1], walk) ELSE f[n]]
  <2>2. g[k + 1] = EmitItem(f[k], s[k + 1], walk) /\ \A n \in 0 .. k : g[n] = f[n]
    OBVIOUS
  <2> HIDE DEF g
  <2>3. ASSUME NEW n \in 0 .. k + 1 PROVE g[n] = Next(g, n)
    <3>1. CASE n = k + 1
      <4>1. n # 0 /\ n - 1 = k /\ k \in 0 .. k
        BY <3>1
      <4>2. g[n - 1] = f[k]
        BY <2>2, <4>1
      <4> QED
        BY <2>2, <3>1, <4>1, <4>2
    <3>2. CASE n = 0
      BY <2>1, <2>2, <3>2
    <3>3. CASE n # k + 1 /\ n # 0
      <4>1. n \in 0 .. k /\ n - 1 \in 0 .. k
        BY <3>3
      <4>2. g[n] = f[n] /\ g[n - 1] = f[n - 1] /\ f[n] = EmitItem(f[n - 1], s[n], walk)
        BY <2>1, <2>2, <3>3, <4>1
      <4> QED
        BY <3>3, <4>2
    <3> QED
      BY <3>1, <3>2, <3>3
  <2> HIDE DEF Next
  <2> QED
    BY <2>3
<1>3. Len(s) \in S
  <2> HIDE DEF S
  <2>1. \A k \in 0 .. Len(s) : k \in S
    BY <1>1, <1>2, UpTo
  <2> QED
    BY <2>1
<1>4. PICK f : \A n \in 0 .. Len(s) : f[n] = Next(f, n)
  BY <1>3
<1> DEFINE g == [n \in 0 .. Len(s) |-> f[n]]
<1>5. \A n \in 0 .. Len(s) : g[n] = Next(g, n)
  <2> SUFFICES ASSUME NEW n \in 0 .. Len(s) PROVE g[n] = Next(g, n)
    OBVIOUS
  <2>1. g[n] = f[n] /\ (n # 0 => g[n - 1] = f[n - 1])
    OBVIOUS
  <2> HIDE DEF g
  <2> QED
    BY <1>4, <2>1
<1>6. g = [n \in 0 .. Len(s) |-> g[n]]
  OBVIOUS
<1> HIDE DEF g
<1>7. g = [n \in 0 .. Len(s) |-> Next(g, n)]
  BY <1>5, <1>6
<1> QED
  BY <1>7

\* A page emits the rows one after the other.
LEMMA ShownIsEmitted ==
  ASSUME NEW sel, Len(Listed(entries, place)) \in Nat
  PROVE  \E f : /\ Emission(f, Listed(entries, place), Walk(sel))
                /\ ShownWith(sel) = f[Len(Listed(entries, place))].shown
<1> DEFINE s == Listed(entries, place)
           walk == Walk(sel)
           Rec(f) == f = [n \in 0 .. Len(s) |->
                            IF n = 0 THEN NoneShown ELSE EmitItem(f[n - 1], s[n], walk)]
           out == CHOOSE f : Rec(f)
<1>1. ShownWith(sel) = out[Len(s)].shown
  BY DEF ShownWith, NoneShown
<1>2. Rec(out)
  <2>1. \E f : Rec(f)
    <3> HIDE DEF s, walk
    <3> QED
      BY EmissionExists DEF s
  <2> HIDE DEF Rec
  <2> QED
    BY <2>1
<1> HIDE DEF out
<1>3. Emission(out, s, walk)
  <2> HIDE DEF s, walk
  <2>1. \A n \in 0 .. Len(s) :
          out[n] = IF n = 0 THEN NoneShown ELSE EmitItem(out[n - 1], s[n], walk)
    BY <1>2
  <2>2. 0 \in 0 .. Len(s) /\ \A n \in 1 .. Len(s) : n \in 0 .. Len(s) /\ n # 0
    BY DEF s
  <2> QED
    BY <2>1, <2>2 DEF Emission
<1> QED
  BY <1>1, <1>3

(***************************************************************************)
(* After n rows, the selected item being row sel.  At an item that it is   *)
(* below, or at itself, another call would be made.  Before such an item   *)
(* is next, the call under way is at its level, and walks nothing.  Behind *)
(* the selected item, no call has ended that is still needed.              *)
(***************************************************************************)
OnPath(f, s, l, sel, n) ==
  LET c == f[n].calls
  IN  /\ Nested(c)
      /\ Opening(c) => n >= 1 /\ l[n] = Len(c)
      /\ n \in 1 .. sel /\ Above(l, n, sel) => Opening(c)
      /\ n < sel /\ ~(n >= 1 /\ Above(l, n, sel)) =>
           /\ ~c[Len(c)].see /\ ~c[Len(c)].saw
           /\ \E m \in 1 .. Len(s) : NextAbove(l, m, sel, n) /\ l[m] = Len(c)
      /\ n > sel => \E k \in sel + 1 .. n : Len(c) >= l[k]
      /\ \A i \in 1 .. n :
           l[i] <= Len(f[i - 1].calls) \/ Opening(f[i - 1].calls) => s[i] \in f[n].shown

\* Before the first row.
LEMMA OnPathFirst ==
  ASSUME NEW f, NEW s, NEW l, Tree(l, Len(s)), NEW sel \in 1 .. Len(s),
         f[0] = NoneShown
  PROVE  OnPath(f, s, l, sel, 0)
<1> DEFINE c == f[0].calls
<1>1. Len(s) \in Nat /\ \A k \in 1 .. Len(s) : l[k] \in Nat \ {0}
      /\ l[1] <= 1
  BY DEF Tree
<1>2. c \in Seq(Frames) /\ Len(c) = 1 /\ c[1].level = 1 /\ ~c[1].see /\ ~c[1].saw
  <2>1. ASSUME NEW no \in BOOLEAN, ~no,
               NEW b, b = << [level |-> 1, see |-> no, saw |-> no] >>
        PROVE  /\ b \in Seq(Frames) /\ Len(b) = 1
               /\ b[1].level = 1 /\ ~b[1].see /\ ~b[1].saw
    <3>1. [level |-> 1, see |-> no, saw |-> no] \in Frames
      BY DEF Frames
    <3> QED
      BY <2>1, <3>1
  <2>2. c = << [level |-> 1, see |-> FALSE, saw |-> FALSE] >>
    <3>1. ASSUME NEW b, f[0] = [shown |-> {}, calls |-> b] PROVE c = b
      BY <3>1
    <3> HIDE DEF c
    <3> QED
      BY Zenon, <3>1 DEF NoneShown
  <2>3. FALSE \in BOOLEAN /\ ~FALSE
    OBVIOUS
  <2> HIDE DEF c
  <2> QED
    BY Zenon, <2>1, <2>2, <2>3
<1> HIDE DEF c
<1>3. Nested(c) /\ ~Opening(c)
  BY <1>2 DEF Nested, Opening
<1>4. \E m \in 1 .. Len(s) : NextAbove(l, m, sel, 0) /\ l[m] = 1
  <2>1. 0 \in 0 .. sel - 1
    BY <1>1
  <2>2. PICK m \in 1 .. Len(s) : NextAbove(l, m, sel, 0)
    BY <2>1, SomeNextAbove
  <2>3. l[1] >= l[m] /\ l[m] \in Nat \ {0}
    BY <1>1, <2>2 DEF NextAbove
  <2>4. l[m] = 1
    BY <1>1, <2>3
  <2> QED
    BY <2>2, <2>4
<1> QED
  BY <1>1, <1>2, <1>3, <1>4 DEF OnPath, c

\* And after each row, given what the walk is.
LEMMA OnPathNext ==
  ASSUME NEW f, NEW s, NEW l, NEW walk, Tree(l, Len(s)), NEW sel \in 1 .. Len(s),
         \A i \in 1 .. Len(s) : l[i] = place[s[i]].level,
         \A i \in 1 .. sel : s[i] \in walk <=> Above(l, i, sel),
         NEW n \in 0 .. Len(s) - 1, f[n + 1] = EmitItem(f[n], s[n + 1], walk),
         OnPath(f, s, l, sel, n)
  PROVE  OnPath(f, s, l, sel, n + 1)
<1> DEFINE N == Len(s)
           c == f[n].calls
           d == f[n + 1].calls
           level == l[n + 1]
           x == s[n + 1]
           path == n >= 1 /\ Above(l, n, sel)
<1>1. /\ N \in Nat /\ \A k \in 1 .. N : l[k] \in Nat \ {0}
      /\ \A k \in 1 .. N : l[k] <= IF k = 1 THEN 1 ELSE l[k - 1] + 1
      /\ n \in Nat /\ n + 1 \in 1 .. N /\ sel \in Nat /\ sel <= N
      /\ (n + 1) - 1 = n
  BY SMTT(15) DEF Tree
<1>2. /\ Nested(c)
      /\ Opening(c) => n >= 1 /\ l[n] = Len(c)
      /\ n \in 1 .. sel /\ Above(l, n, sel) => Opening(c)
      /\ n < sel /\ ~path =>
           /\ ~c[Len(c)].see /\ ~c[Len(c)].saw
           /\ \E m \in 1 .. N : NextAbove(l, m, sel, n) /\ l[m] = Len(c)
      /\ n > sel => \E k \in sel + 1 .. n : Len(c) >= l[k]
      /\ \A i \in 1 .. n :
           l[i] <= Len(f[i - 1].calls) \/ Opening(f[i - 1].calls) => s[i] \in f[n].shown
  BY DEF OnPath
<1>3. level \in Nat \ {0} /\ level = place[x].level /\ Len(c) \in Nat /\ Len(c) >= 1
  BY <1>1, <1>2 DEF Nested
<1>4. Opening(c) => level <= Len(c) + 1
  <2> SUFFICES ASSUME Opening(c) PROVE level <= Len(c) + 1
    OBVIOUS
  <2>1. n >= 1 /\ l[n] = Len(c)
    BY <1>2
  <2>2. n + 1 # 1 /\ level <= l[(n + 1) - 1] + 1
    BY <1>1, <2>1
  <2> QED
    BY <1>1, <2>1, <2>2
<1> HIDE DEF c, level, x, N, path
<1>5. /\ Nested(d) /\ f[n].shown \subseteq f[n + 1].shown
      /\ level <= Len(c) \/ Opening(c) => x \in f[n + 1].shown
      /\ level = Len(c) => /\ Len(d) = Len(c) /\ d[Len(d)].see = (x \in walk)
                           /\ d[Len(d)].saw = c[Len(c)].saw
      /\ level > Len(c) /\ Opening(c) =>
           Len(d) = Len(c) + 1 /\ d[Len(d)].see = (x \in walk) /\ ~d[Len(d)].saw
      /\ level > Len(c) /\ ~Opening(c) => d = c
      /\ level < Len(c) => Len(d) = Len(c) - 1 /\ d[Len(d)].saw
  <2>1. place[x].level \in Nat \ {0} /\ (Opening(c) => place[x].level <= Len(c) + 1)
    BY <1>3, <1>4
  <2>2. f[n + 1] = EmitItem(f[n], x, walk)
    BY DEF x
  <2> DEFINE r == EmitItem(f[n], x, walk)
  <2>3. /\ Nested(r.calls) /\ f[n].shown \subseteq r.shown
        /\ place[x].level <= Len(c) \/ Opening(c) => x \in r.shown
        /\ place[x].level = Len(c) =>
             /\ Len(r.calls) = Len(c) /\ r.calls[Len(r.calls)].see = (x \in walk)
             /\ r.calls[Len(r.calls)].saw = c[Len(c)].saw
        /\ place[x].level > Len(c) /\ Opening(c) =>
             /\ Len(r.calls) = Len(c) + 1 /\ r.calls[Len(r.calls)].see = (x \in walk)
             /\ ~r.calls[Len(r.calls)].saw
        /\ place[x].level > Len(c) /\ ~Opening(c) => r = f[n]
        /\ place[x].level < Len(c) => Len(r.calls) = Len(c) - 1 /\ r.calls[Len(r.calls)].saw
    BY <1>2, <2>1, Emits DEF c
  <2> HIDE DEF r
  <2>4. r = f[n + 1]
    BY <2>2 DEF r
  <2> QED
    BY <1>3, <2>3, <2>4 DEF c
<1> HIDE DEF d
<1>6. level = Len(c) \/ level > Len(c) \/ level < Len(c)
  BY <1>3
<1>7. Len(d) \in Nat /\ (Opening(c) <=> c[Len(c)].see /\ ~c[Len(c)].saw)
      /\ (Opening(d) <=> d[Len(d)].see /\ ~d[Len(d)].saw)
  BY <1>5 DEF Opening, Nested
<1>8. Opening(d) => level = Len(d)
  BY SMTT(20), <1>3, <1>4, <1>5, <1>6, <1>7
<1>9. ASSUME n < sel
      PROVE  /\ Above(l, n + 1, sel) => Opening(d)
             /\ n + 1 < sel /\ ~Above(l, n + 1, sel) =>
                  /\ ~d[Len(d)].see /\ ~d[Len(d)].saw
                  /\ \E m \in 1 .. N : NextAbove(l, m, sel, n + 1) /\ l[m] = Len(d)
  <2>0. /\ n + 1 \in 1 .. sel /\ (x \in walk <=> Above(l, n + 1, sel))
        /\ \A k \in n + 1 .. sel : k \in 1 .. N /\ l[k] \in Nat
    <3>1. n + 1 \in 1 .. sel
      BY <1>1, <1>9
    <3>2. \A k \in n + 1 .. sel : k \in 1 .. N /\ l[k] \in Nat
      BY <1>1, <1>9
    <3> QED
      BY <3>1, <3>2 DEF x
  <2>1. CASE path
    <3>1. n \in 1 .. sel /\ Opening(c) /\ l[n] = Len(c) /\ \A k \in n + 1 .. sel : l[k] > l[n]
      BY <1>1, <1>2, <1>9, <2>1 DEF path, Above
    <3>2. level = Len(c) + 1 /\ level > Len(c)
      <4>1. n + 1 \in n + 1 .. sel
        BY <1>1, <1>9
      <4>2. level > l[n]
        BY <3>1, <4>1 DEF level
      <4>3. level > Len(c)
        BY <3>1, <4>2
      <4>4. level <= Len(c) + 1
        BY <1>4, <3>1
      <4> QED
        BY <1>3, <4>3, <4>4
    <3>3. Len(d) = level /\ d[Len(d)].see = (x \in walk) /\ ~d[Len(d)].saw
      BY <1>5, <3>1, <3>2
    <3>4. ASSUME n + 1 < sel, ~Above(l, n + 1, sel)
          PROVE  \E m \in 1 .. N : NextAbove(l, m, sel, n + 1) /\ l[m] = level
      <4>1. PICK m \in 1 .. N : NextAbove(l, m, sel, n + 1)
        <5>1. n + 1 \in 0 .. sel - 1
          BY <1>1, <3>4
        <5> QED
          BY <5>1, SomeNextAbove DEF N
      <4>2. m \in (n + 1) + 1 .. sel /\ \A k \in (n + 1) + 1 .. sel : l[k] >= l[m]
        BY <4>1 DEF NextAbove
      <4>3. PICK k \in (n + 1) + 1 .. sel : ~(l[k] > level)
        BY <3>4 DEF Above, level
      <4>4. m \in n + 1 .. sel /\ k \in n + 1 .. sel
        BY <1>1, <4>2
      <4>5. l[m] > l[n] /\ l[k] >= l[m] /\ l[m] \in Nat /\ l[k] \in Nat
        BY <2>0, <3>1, <4>2, <4>4
      <4>6. l[m] = level
        BY <1>3, <3>1, <3>2, <4>3, <4>5
      <4> QED
        BY <4>1, <4>6
    <3> QED
      BY <1>7, <2>0, <3>3, <3>4
  <2>2. CASE ~path
    <3>1. ~c[Len(c)].see /\ ~c[Len(c)].saw
      BY <1>2, <1>9, <2>2
    <3>2. PICK m \in 1 .. N : NextAbove(l, m, sel, n) /\ l[m] = Len(c)
      BY <1>2, <1>9, <2>2
    <3>3. /\ m \in n + 1 .. sel /\ Above(l, m, sel)
          /\ \A k \in n + 1 .. sel : l[k] >= l[m]
      BY <3>2 DEF NextAbove
    <3>4. level >= Len(c)
      BY <1>1, <1>9, <3>2, <3>3 DEF level
    <3>5. ASSUME ~Above(l, n + 1, sel)
          PROVE  NextAbove(l, m, sel, n + 1)
      <4>1. m # n + 1
        BY <3>3, <3>5
      <4>2. m \in (n + 1) + 1 .. sel
        BY <1>1, <3>3, <4>1
      <4>3. \A k \in (n + 1) + 1 .. sel : k \in n + 1 .. sel
        BY <1>1
      <4> QED
        BY <3>3, <4>2, <4>3 DEF NextAbove
    <3>6. CASE level = Len(c)
      <4>1. Len(d) = Len(c) /\ d[Len(d)].see = (x \in walk) /\ ~d[Len(d)].saw
        BY <1>5, <3>1, <3>6
      <4> QED
        BY <1>7, <2>0, <3>2, <3>5, <4>1
    <3>7. CASE level > Len(c)
      <4>1. d = c
        BY <1>5, <1>7, <3>1, <3>7
      <4>2. ~Above(l, n + 1, sel)
        <5>1. m # n + 1
          BY <1>3, <3>2, <3>7 DEF level
        <5>2. m \in (n + 1) + 1 .. sel /\ ~(l[m] > level) /\ sel # n + 1
          BY <1>1, <1>3, <3>2, <3>3, <3>7, <5>1
        <5> QED
          BY <5>2 DEF Above, level
      <4> QED
        BY <3>1, <3>2, <3>5, <4>1, <4>2
    <3> QED
      BY <1>3, <3>4, <3>6, <3>7
  <2> QED
    BY <2>1, <2>2
<1>10. ASSUME n + 1 > sel
       PROVE  \E k \in sel + 1 .. n + 1 : Len(d) >= l[k]
  <2>1. CASE n = sel
    <3>1. Opening(c)
      BY <1>1, <1>2, <2>1 DEF Above
    <3>2. Len(d) >= level
      BY <1>3, <1>4, <1>5, <1>6, <3>1
    <3>3. n + 1 \in sel + 1 .. n + 1
      BY <1>1, <2>1
    <3> QED
      BY <3>2, <3>3 DEF level
  <2>2. CASE n # sel
    <3>1. n > sel
      BY <1>1, <1>10, <2>2
    <3>2. PICK k \in sel + 1 .. n : Len(c) >= l[k]
      BY <1>2, <3>1
    <3>3. k \in sel + 1 .. n + 1 /\ n + 1 \in sel + 1 .. n + 1 /\ l[k] \in Nat
      BY <1>1, <3>1
    <3>4. Len(d) >= Len(c) \/ Len(d) >= level
      BY <1>3, <1>5, <1>6, <1>7
    <3>5. Len(d) >= l[k] \/ Len(d) >= l[n + 1]
      BY <1>3, <1>7, <3>2, <3>3, <3>4 DEF level
    <3> QED
      BY <3>3, <3>5
  <2> QED
    BY <2>1, <2>2
<1>11. ASSUME NEW i \in 1 .. n + 1,
              l[i] <= Len(f[i - 1].calls) \/ Opening(f[i - 1].calls)
       PROVE  s[i] \in f[n + 1].shown
  <2>1. CASE i = n + 1
    <3>1. l[n + 1] <= Len(f[n].calls) \/ Opening(f[n].calls)
      BY <1>1, <1>11, <2>1
    <3> QED
      BY <1>5, <2>1, <3>1 DEF level, c, x
  <2>2. CASE i # n + 1
    <3>1. i \in 1 .. n
      BY <1>1, <2>2
    <3> QED
      BY <1>2, <1>5, <1>11, <3>1
  <2> QED
    BY <2>1, <2>2
<1>12. /\ n + 1 >= 1 /\ (n + 1 \in 1 .. sel => n < sel) /\ (n + 1 < sel => n < sel)
  BY <1>1
<1>13. Opening(d) => n + 1 >= 1 /\ l[n + 1] = Len(d)
  BY <1>8, <1>12 DEF level
<1> QED
  BY <1>5, <1>9, <1>10, <1>11, <1>12, <1>13 DEF OnPath, d, N

\* An item below one that the selected item is below, or is, or below none.
LEMMA ShownIfParentIsAbove ==
  ASSUME MenuTypes, NEW s, s = Listed(entries, place), NEW l, MenuTree(s, l),
         NEW sel \in 1 .. Len(s), NEW i \in 1 .. Len(s),
         NEW parent \in 0 .. i - 1,
         parent # 0 => l[parent] < l[i] /\ Above(l, parent, sel),
         \A k \in parent + 1 .. i - 1 : l[k] >= l[i]
  PROVE  s[i] \in ShownWith(s[sel])
<1> DEFINE N == Len(s)
           walk == Walk(s[sel])
<1>1. /\ Tree(l, N) /\ N \in Nat
      /\ \A k \in 1 .. N : l[k] = place[s[k]].level /\ l[k] \in Nat \ {0}
      /\ \A k \in 1 .. N : l[k] <= IF k = 1 THEN 1 ELSE l[k - 1] + 1
  <2>1. Tree(l, N)
    BY DEF MenuTree
  <2>2. N \in Nat /\ \A k \in 1 .. N : l[k] = place[s[k]].level /\ l[k] \in Nat \ {0}
    BY ItemsOfTree
  <2> HIDE DEF N
  <2> QED
    BY <2>1, <2>2 DEF Tree
<1>2. PICK f : Emission(f, s, walk) /\ ShownWith(s[sel]) = f[N].shown
  BY <1>1, ShownIsEmitted
<1>3. \A k \in 1 .. sel : s[k] \in walk <=> Above(l, k, sel)
  BY WalkIsAbove
<1> HIDE DEF walk
<1>4. f[0] = NoneShown /\ \A k \in 1 .. N : f[k] = EmitItem(f[k - 1], s[k], walk)
  BY <1>2 DEF Emission
<1>5. \A n \in 0 .. N : OnPath(f, s, l, sel, n)
  <2> DEFINE S == {n \in 0 .. N : OnPath(f, s, l, sel, n)}
  <2>1. 0 \in S
    BY <1>1, <1>4, OnPathFirst
  <2>2. ASSUME NEW n \in 0 .. N - 1, n \in S PROVE n + 1 \in S
    <3>1. OnPath(f, s, l, sel, n) /\ n + 1 \in 1 .. N /\ (n + 1) - 1 = n
          /\ n + 1 \in 0 .. N
      BY <1>1, <2>2
    <3>2. f[n + 1] = EmitItem(f[n], s[n + 1], walk)
      BY <1>4, <3>1
    <3>3. \A k \in 1 .. N : l[k] = place[s[k]].level
      BY <1>1
    <3>4. OnPath(f, s, l, sel, n + 1)
      BY <1>1, <1>3, <3>1, <3>2, <3>3, OnPathNext
    <3> QED
      BY <3>1, <3>4
  <2>3. \A n \in 0 .. N : n \in S
    <3> HIDE DEF S
    <3> QED
      BY <1>1, <2>1, <2>2, UpTo
  <2> QED
    BY <2>3
<1> DEFINE n == i - 1
           c == f[n].calls
<1>6. n \in 0 .. N /\ n + 1 = i /\ i \in Nat /\ sel \in Nat /\ parent \in Nat
      /\ sel \in 1 .. N
  BY <1>1
<1>7. OnPath(f, s, l, sel, n)
  BY <1>5, <1>6
<1>8. /\ Nested(c)
      /\ Opening(c) => n >= 1 /\ l[n] = Len(c)
      /\ n \in 1 .. sel /\ Above(l, n, sel) => Opening(c)
      /\ n < sel /\ ~(n >= 1 /\ Above(l, n, sel)) =>
           \E m \in 1 .. N : NextAbove(l, m, sel, n) /\ l[m] = Len(c)
      /\ n > sel => \E k \in sel + 1 .. n : Len(c) >= l[k]
  BY <1>7 DEF OnPath
<1> HIDE DEF c
<1>9. l[i] <= Len(c) \/ Opening(c)
  <2>0. Len(c) \in Nat /\ l[i] \in Nat /\ \A k \in 1 .. N : l[k] \in Nat
    BY <1>1, <1>8 DEF Nested
  <2>1. CASE n > sel
    <3>1. PICK k \in sel + 1 .. n : Len(c) >= l[k]
      BY <1>8, <2>1
    <3>2. parent <= sel
      BY <1>6 DEF Above
    <3>3. k \in parent + 1 .. i - 1 /\ k \in 1 .. N
      BY <1>1, <1>6, <3>2
    <3>4. l[k] >= l[i] /\ l[k] \in Nat
      BY <2>0, <3>3
    <3> QED
      BY <2>0, <3>1, <3>4
  <2>2. CASE n = sel
    BY <1>6, <1>8, <2>2 DEF Above
  <2>3. CASE n < sel /\ n >= 1 /\ Above(l, n, sel)
    <3>1. n \in 1 .. sel
      BY <1>6, <2>3
    <3> QED
      BY <1>8, <2>3, <3>1
  <2>4. CASE n < sel /\ ~(n >= 1 /\ Above(l, n, sel))
    <3>1. PICK m \in 1 .. N : NextAbove(l, m, sel, n) /\ l[m] = Len(c)
      BY <1>8, <2>4
    <3>2. m \in i .. sel /\ \A k \in i .. sel : l[k] >= l[m]
      BY <1>6, <3>1 DEF NextAbove
    <3> SUFFICES ASSUME l[m] < l[i] PROVE FALSE
      BY <2>0, <3>1
    <3>3. CASE parent = 0
      <4>1. l[1] <= 1 /\ l[m] >= 1 /\ 1 \in 1 .. N
        BY <1>1, <1>6
      <4>2. i # 1
        BY <2>0, <4>1
      <4>3. 1 \in parent + 1 .. i - 1
        BY <1>6, <3>3, <4>2
      <4>4. l[1] >= l[i]
        BY <4>3
      <4> QED
        BY <2>0, <4>1, <4>4
    <3>4. CASE parent # 0
      <4>1. l[parent] < l[i] /\ Above(l, parent, sel) /\ parent \in 1 .. N
            /\ parent < i /\ parent # sel
        BY <1>1, <1>6, <2>4, <3>4
      <4>2. m \in parent + 1 .. sel
        BY <1>6, <3>2, <4>1
      <4>3. l[m] > l[parent]
        BY <4>1, <4>2 DEF Above
      <4>4. parent + 1 \in 1 .. N /\ l[parent + 1] <= l[parent] + 1
        <5>1. parent + 1 \in 1 .. N /\ parent + 1 # 1 /\ (parent + 1) - 1 = parent
          BY <1>1, <1>6, <3>4, <4>1
        <5>2. l[parent + 1] <= l[(parent + 1) - 1] + 1
          BY <1>1, <5>1
        <5> QED
          BY <5>1, <5>2
      <4>5. l[parent + 1] < l[i]
        <5>1. l[parent] \in Nat /\ l[m] \in Nat /\ l[parent + 1] \in Nat
          BY <2>0, <4>1, <4>4
        <5>2. l[parent + 1] <= l[m]
          BY <4>3, <4>4, <5>1
        <5> QED
          BY <2>0, <5>1, <5>2
      <4>6. parent + 1 # i
        BY <2>0, <4>5
      <4>7. parent + 1 \in parent + 1 .. i - 1
        BY <1>6, <4>1, <4>6
      <4>8. l[parent + 1] >= l[i]
        BY <4>7
      <4> QED
        BY <2>0, <4>4, <4>5, <4>8
    <3> QED
      BY <3>3, <3>4
  <2>5. n > sel \/ n = sel \/ n < sel
    BY <1>6
  <2> QED
    BY <2>1, <2>2, <2>3, <2>4, <2>5
<1>10. s[i] \in f[N].shown
  <2>1. OnPath(f, s, l, sel, N)
    BY <1>1, <1>5
  <2>2. \A k \in 1 .. N :
          l[k] <= Len(f[k - 1].calls) \/ Opening(f[k - 1].calls) => s[k] \in f[N].shown
    BY <2>1 DEF OnPath
  <2> QED
    BY <1>9, <2>2 DEF c
<1> QED
  BY <1>2, <1>10

\* However many items and levels a menu has, as long as no level is left out:
\* a page shows the selected item, the items above it, all that are beside one
\* of these, and what is directly below the selected one (findNodesToWalk and
\* emitRecursor, which keeps the walk and its calls in step with the rows).
THEOREM SelectionIsShown == MenusSpec => []SelectedIsShown
<1>1. MenuInv => SelectedIsShown
  <2> DEFINE list == Listed(entries, place)
             N == Len(list)
             Level(i) == place[list[i]].level
             Parent(i) == Max({k \in 1 .. (i - 1) : Level(k) < Level(i)} \cup {0})
             Open(i, s) == \/ i \in {0, s}
                           \/ i < s /\ (\A k \in (i + 1) .. s : Level(k) > Level(i))
             wellFormed == \A i \in DOMAIN list :
                             Level(i) <= IF i = 1 THEN 1 ELSE Level(i - 1) + 1
  <2> SUFFICES ASSUME MenuInv, orderly, Quiet, wellFormed,
                      NEW s \in DOMAIN list, NEW i \in DOMAIN list, Open(Parent(i), s)
               PROVE  list[i] \in ShownWith(list[s])
    BY DEF SelectedIsShown
  <2>1. MenuTypes /\ Distinct(entries)
    BY DEF MenuInv, Unambiguous, Quiet
  <2>2. entries \in SUBSET Entries /\ place \in Places
        /\ \A e \in entries : place[e].level \in 1 .. MaxLevel
    BY <2>1, OrdersAreNumbers, TypesSay
  <2>3. InLine(list, entries, OrdersOf(place))
    <3> HIDE DEF list
    <3> QED
      BY <2>1, <2>2, ListedIsInLine DEF Distinct, list
  <2> HIDE DEF list
  <2>4. list \in Seq(entries) /\ N \in Nat /\ DOMAIN list = 1 .. N
        /\ \A k \in 1 .. N : list[k] \in entries
    <3>1. list \in Seq(entries)
      BY <2>3 DEF InLine
    <3> QED
      BY <3>1
  <2>8. i \in 1 .. N /\ s \in 1 .. N /\ i - 1 \in Nat
    <3>1. i \in 1 .. N /\ s \in 1 .. N
      <4>1. i \in DOMAIN list /\ s \in DOMAIN list
        OBVIOUS
      <4> HIDE DEF N
      <4> QED
        BY <2>4, <4>1
    <3> HIDE DEF N, Level, Parent, Open, wellFormed
    <3>2. i \in Int
      BY <3>1
    <3>3. i >= 1
      BY <3>1
    <3>4. i - 1 \in Nat
      BY <3>2, <3>3
    <3> QED
      BY <3>1, <3>4
  <2> DEFINE l == [k \in 1 .. N |-> Level(k)]
  <2>5. /\ \A k \in 1 .. N : l[k] = Level(k) /\ l[k] \in Nat \ {0}
        /\ \A k \in 1 .. N : l[k] <= IF k = 1 THEN 1 ELSE l[k - 1] + 1
    <3>1. \A k \in 1 .. N : Level(k) \in Nat \ {0}
      <4>1. \A k \in 1 .. N : Level(k) \in 1 .. MaxLevel
        <5> HIDE DEF N
        <5> QED
          BY <2>2, <2>4
      <4> HIDE DEF N, Level
      <4> QED
        BY <4>1, MenuAssumption
    <3>2. \A k \in 1 .. N : k # 1 => k - 1 \in 1 .. N
      <4>1. N \in Nat
        BY <2>4
      <4> HIDE DEF N
      <4> QED
        BY <4>1
    <3>3. \A k \in 1 .. N : l[k] = Level(k)
      OBVIOUS
    <3> HIDE DEF l, Level
    <3>4. \A k \in 1 .. N : Level(k) <= IF k = 1 THEN 1 ELSE Level(k - 1) + 1
      BY <2>4
    <3> QED
      BY <3>1, <3>2, <3>3, <3>4
  <2>6. l \in [1 .. N -> Nat \ {0}]
    <3>1. l = [k \in 1 .. N |-> l[k]]
      OBVIOUS
    <3> HIDE DEF l, Level
    <3> QED
      BY <2>5, <3>1
  <2>7. MenuTree(list, l)
    <3>1. Tree(l, N)
      BY <2>4, <2>5, <2>6 DEF Tree
    <3> QED
      BY <2>3, <3>1 DEF MenuTree
  <2> DEFINE T == {k \in 1 .. (i - 1) : Level(k) < Level(i)} \cup {0}
             P == Max(T)
  <2>9. P \in T /\ \A x \in T : x <= P
    <3>1. T \in SUBSET (0 .. (i - 1)) /\ 0 \in T
      <4> HIDE DEF l, N, P, Level, Parent, Open, wellFormed
      <4> QED
        BY <2>8
    <3> HIDE DEF T
    <3> QED
      BY <2>8, <3>1, GreatestUpTo
  <2>10. Open(P, s)
    OBVIOUS
  <2> HIDE DEF P, l, Level
  <2>11. P \in 0 .. i - 1 /\ P \in Int /\ (P # 0 => P \in 1 .. i - 1 /\ Level(P) < Level(i))
    BY <2>8, <2>9
  <2>12. P # 0 => l[P] < l[i] /\ Above(l, P, s)
    <3> SUFFICES ASSUME P # 0 PROVE l[P] < l[i] /\ Above(l, P, s)
      OBVIOUS
    <3>1. P \in 1 .. N /\ l[P] = Level(P) /\ l[i] = Level(i)
      BY <2>4, <2>5, <2>8, <2>11
    <3>2. P = s \/ (P < s /\ \A k \in P + 1 .. s : Level(k) > Level(P))
      BY <2>10
    <3>3. \A k \in P + 1 .. s : k \in 1 .. N
      BY <2>4, <2>8, <3>1
    <3> QED
      BY <2>5, <2>11, <3>1, <3>2, <3>3 DEF Above
  <2>13. \A k \in P + 1 .. i - 1 : l[k] >= l[i]
    <3> SUFFICES ASSUME NEW k \in P + 1 .. i - 1, ~(l[k] >= l[i]) PROVE FALSE
      OBVIOUS
    <3>1. k \in 1 .. i - 1 /\ k \in 1 .. N /\ ~(k <= P)
      BY <2>4, <2>8, <2>11
    <3>2. Level(k) < Level(i)
      BY <2>5, <2>8, <3>1
    <3> QED
      BY <2>9, <3>1, <3>2
  <2> QED
    <3> HIDE DEF T
    <3>1. s \in 1 .. Len(list) /\ i \in 1 .. Len(list)
      BY <2>8
    <3> QED
      BY <2>1, <2>7, <2>11, <2>12, <2>13, <3>1, ShownIfParentIsAbove DEF list
<1> QED
  BY <1>1, MenuInvInit, MenuInvNext, PTL DEF MenusSpec

-----------------------------------------------------------------------------
(* Side by side.                                                           *)

\* What TLC checks of a site beside its mail is what the theorems are about:
\* a behaviour of the two is one of each.
LEMMA SiteIsItsParts ==
  SiteSpec => MenusSpec /\ MailInit /\ [][MailNext]_mailVars
<1>1. SiteInit => MenusInit /\ MailInit
  BY DEF SiteInit
<1>2. [SiteNext]_<< part, menuVars, mailVars >> =>
        [MenusNext]_menuVars /\ [MailNext]_mailVars
  BY DEF SiteNext
<1> QED
  BY <1>1, <1>2, PTL DEF SiteSpec, MenusSpec

\* SiteTypeOK holds for any menus, processes and headers.
THEOREM SiteTypesHold == SiteSpec => []SiteTypeOK
<1>1. MenuTypeOK /\ MailTypeOK => SiteTypeOK
  BY DEF SiteTypeOK
<1> QED
  BY <1>1, SiteIsItsParts, MenuTypesHold, MailTypesHold, PTL
=============================================================================

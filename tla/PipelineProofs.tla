---------------------------- MODULE PipelineProofs ----------------------------
(***************************************************************************)
(* What the client, the log and the metrics see of a request, for any      *)
(* chains of layers, any routes and any statuses that are asked for.       *)
(***************************************************************************)
EXTENDS Pipeline, SequenceTheorems, WellFoundedInduction, TLAPS

(* The parts of a body that the kit's handlers write. *)
Parts ==
    {"json", "page", "text", "html", "error", "503 Service Unavailable", "200 OK",
     "metrics", "profile"}

(* What net/http takes for a final status. *)
Codes == 200..999

(* What a handler of an HTTP server that renders well may do. *)
SoundSteps ==
    [op : {"header"}, code : Codes]
    \cup [op : {"write"}, part : Parts]
    \cup [op : {"lost", "hook", "bare hook", "panic"}]

Steps ==
    SoundSteps \cup [op : {"broken"}] \cup [op : {"return"}, code : Nat, coded : BOOLEAN]

(* The handler gives an answer, or panics. *)
Answering == {"header", "write", "lost", "panic"}

Answers(g) == g \in Seq(SoundSteps) /\ \E i \in 1..Len(g) : g[i].op \in Answering

(* What is to be sent does not render: the hook and http.Error follow. *)
RenderFails(g) ==
    /\ Len(g) = 4
    /\ g[1].op = "broken"
    /\ g[2].op \in {"hook", "bare hook"}
    /\ g[3].op = "header" /\ g[3].code = 500
    /\ g[4].op = "write" /\ g[4].part = "error"

RPCOps == {"hook", "return", "panic"}

(* A server has the chains and the handlers that it may have. *)
ShapeInv ==
    /\ kind \in {"http", "grpc"}
    /\ given \in Seq(Steps)
    /\ kind = "http" =>
          /\ chain \in Seq(HTTPLayers)
          /\ given = <<>> \/ Answers(given) \/ RenderFails(given)
    /\ kind = "grpc" =>
          /\ chain \in Seq(RPCLayers)
          /\ \A i \in 1..Len(given) : given[i].op \in RPCOps

Done == Len(given) - Len(prog)

(* What is left of the handler is the end of it. *)
ProgInv ==
    /\ prog \in Seq(Steps)
    /\ Len(prog) <= Len(given)
    /\ \A i \in 1..Len(prog) : prog[i] = given[Done + i]
    /\ phase = "down" => prog = given

PlaceInv ==
    /\ phase \in {"down", "handler", "up", "panic", "done", "aborted"}
    /\ pos \in Nat
    /\ phase = "down" => pos \in 1..Len(chain) + 1
    /\ phase = "handler" => pos = Len(chain) + 1
    /\ phase \in {"up", "panic"} => pos <= Len(chain)
    /\ phase \in {"done", "aborted"} => pos = 0
    /\ status \in Nat
    /\ reqErr \in [DOMAIN chain -> BOOLEAN]
    /\ skip \in [DOMAIN chain -> BOOLEAN]

Recovers(n) == n \in DOMAIN chain /\ n > pos /\ chain[n] = "recover"

(* What makes an HTTP handler panic: its own panic, or a hook that nobody  *)
(* has set.                                                                *)
Cause == Did("panic") \/ (Did("bare hook") /\ Logs = {})

(* A panic comes from the handler and ends at the innermost recovery. *)
CauseInv ==
    kind = "http" =>
        /\ phase \in {"down", "handler"} => ~Cause
        /\ phase \in {"panic", "aborted"} => Cause /\ \A n \in DOMAIN chain : ~Recovers(n)
        /\ phase \in {"up", "done"} /\ Cause => \E n \in DOMAIN chain : Recovers(n)

(* A handler that has answered has sent a status, and one that is over has *)
(* answered, unless there was nothing to do.                               *)
StatusInv ==
    kind = "http" =>
        /\ Did("header") \/ Did("write") \/ Did("lost") => status # 0
        /\ given = <<>> /\ phase # "done" => status = 0
        /\ given # <<>> /\ phase \in {"up", "done"} => status # 0

Sent == IF given = <<>> THEN 0 ELSE status

(* Nothing is reported before the handler is over; then every layer that   *)
(* the request has left reports the same.                                  *)
ReportInv ==
    kind = "http" =>
        /\ phase \notin {"up", "done"} => lines = {} /\ labels = {}
        /\ \A l \in lines : l.layer \in DOMAIN chain /\ l.layer > pos /\ l.status = Sent
        /\ \A l \in labels : l.layer \in DOMAIN chain /\ l.layer > pos /\ l.code = Sent

(* Nothing of an answer that does not render is sent before the error. *)
BrokenInv ==
    kind = "http" /\ RenderFails(given) =>
        /\ Done <= 2 /\ phase \notin {"up", "done"} => status = 0
        /\ Done >= 3 \/ phase \in {"up", "done"} => status = 500
        /\ body = IF Done = 4 THEN <<"error">> ELSE <<>>

(* A layer is skipped once the request has passed the NoAccessLog layer    *)
(* that silences it.                                                       *)
SkipInv ==
    \A n \in DOMAIN chain :
        skip[n] <=> \E m \in DOMAIN chain :
                        chain[m] = "nolog" /\ n \in Nearest(m) /\ (phase = "down" => m < pos)

(* The handler's error is with the innermost logging layer. *)
HookInv ==
    \A n \in DOMAIN chain : reqErr[n] <=> Told /\ n \in Nearest(Len(chain) + 1)

(* The line of a layer that the request has left. *)
Logged(n) ==
    IF Silenced(n) \/ Skipped(n) THEN \A l \in lines : l.layer # n
    ELSE \E l \in lines :
            /\ l.layer = n
            /\ \A k \in lines : k.layer = n => k = l
            /\ l.err = (Told /\ (\A m \in Logs : m <= n) /\ status >= 500)

LinesInv ==
    kind = "http" /\ phase \in {"up", "done"} => \A n \in Logs : n > pos => Logged(n)

(* An interceptor that was not told of an error. *)
Untold(n) == ~Told \/ \E m \in Logs : m > n

(* A method that has returned is over, and what it returned is the status; *)
(* the interceptors left so far were told of it.                           *)
RPCInv ==
    kind = "grpc" =>
        /\ phase \in {"down", "handler", "up", "done"} => ~Did("panic")
        /\ phase \in {"up", "done"} => prog = <<>>
        /\ Done > 0 /\ given[Done].op = "return" => status = given[Done].code
        /\ phase \in {"up", "done"} => status = 0 \/ \A n \in Logs : n > pos => ~Untold(n)
        /\ phase \in {"panic", "aborted"} =>
              Did("panic") \/ (status # 0 /\ \E n \in Logs : Untold(n))

IInv ==
    /\ ShapeInv /\ ProgInv /\ PlaceInv
    /\ CauseInv /\ StatusInv /\ ReportInv /\ BrokenInv
    /\ SkipInv /\ HookInv /\ LinesInv /\ RPCInv

-----------------------------------------------------------------------------
(* The handlers.                                                           *)

(* A handler that does two things answers if one of them is an answer. *)
LEMMA AnswersConcat ==
    ASSUME NEW s \in Seq(SoundSteps), NEW t \in Seq(SoundSteps), Answers(s) \/ Answers(t)
    PROVE  Answers(s \o t)
  <1>1. /\ s \o t \in Seq(SoundSteps)
        /\ Len(s \o t) = Len(s) + Len(t)
        /\ \A i \in 1..Len(s) + Len(t) :
              (s \o t)[i] = IF i <= Len(s) THEN s[i] ELSE t[i - Len(s)]
    BY ConcatProperties
  <1>2. Len(s) \in Nat /\ Len(t) \in Nat
    OBVIOUS
  <1>3. CASE Answers(s)
    <2>1. PICK i \in 1..Len(s) : s[i].op \in Answering
      BY <1>3 DEF Answers
    <2>2. i \in 1..Len(s \o t) /\ (s \o t)[i] = s[i]
      BY <1>1, <1>2
    <2>3. QED
      BY <1>1, <2>1, <2>2 DEF Answers
  <1>4. CASE Answers(t)
    <2>1. PICK i \in 1..Len(t) : t[i].op \in Answering
      BY <1>4 DEF Answers
    <2>2. Len(s) + i \in 1..Len(s \o t) /\ (s \o t)[Len(s) + i] = t[i]
      BY <1>1, <1>2
    <2>3. QED
      BY <1>1, <2>1, <2>2 DEF Answers
  <1>5. QED
    BY <1>3, <1>4

(* A sequence of one step. *)
LEMMA OneStep ==
    ASSUME NEW S, NEW x \in S
    PROVE  <<x>> \in Seq(S) /\ Len(<<x>>) = 1 /\ <<x>>[1] = x
  OBVIOUS

(* The single steps that answer. *)
LEMMA OneAnswers ==
    ASSUME NEW x \in SoundSteps, x.op \in Answering
    PROVE  Answers(<<x>>)
  BY OneStep DEF Answers

(* The statuses that the kit's handlers ask for themselves. *)
LEMMA SomeCodes == {200, 204, 404, 500, 503} \subseteq Codes
  BY DEF Codes

(* A status is a step of a handler. *)
LEMMA HeaderStep ==
    ASSUME NEW code \in Codes
    PROVE  [op |-> "header", code |-> code] \in SoundSteps
  BY DEF SoundSteps

(* Those of the kit, and its hooks. *)
LEMMA SoundUnits ==
    /\ \A code \in Codes : Answers(Header(code))
    /\ \A part \in Parts : Answers(Write(part))
    /\ Answers(LostWrite) /\ Answers(Panic)
    /\ Hook \in Seq(SoundSteps) /\ BareHook \in Seq(SoundSteps)
  <1>1. ASSUME NEW code \in Codes PROVE Answers(Header(code))
    <2> DEFINE x == [op |-> "header", code |-> code]
    <2>1. x \in SoundSteps /\ x.op \in Answering
      BY DEF SoundSteps, Answering
    <2>2. QED
      BY <2>1, OneAnswers DEF Header
  <1>2. ASSUME NEW part \in Parts PROVE Answers(Write(part))
    <2> DEFINE x == [op |-> "write", part |-> part]
    <2>1. x \in SoundSteps /\ x.op \in Answering
      BY DEF SoundSteps, Answering
    <2>2. QED
      BY <2>1, OneAnswers DEF Write
  <1>3. Answers(LostWrite) /\ Answers(Panic)
    BY DEF LostWrite, Panic, Answers, SoundSteps, Answering
  <1>4. Hook \in Seq(SoundSteps) /\ BareHook \in Seq(SoundSteps)
    BY DEF Hook, BareHook, SoundSteps
  <1>5. QED
    BY <1>1, <1>2, <1>3, <1>4

(* http.Error answers, whatever the handler does before it. *)
LEMMA ErrorAnswers ==
    \A code \in Codes :
        /\ Answers(HTTPError(code))
        /\ Answers(Hook \o HTTPError(code))
        /\ Answers(BareHook \o HTTPError(code))
  <1> TAKE code \in Codes
  <1>1. Answers(Header(code)) /\ Answers(Write("error"))
    <2>1. "error" \in Parts
      BY DEF Parts
    <2>2. QED
      BY <2>1, SoundUnits
  <1>2. Answers(HTTPError(code))
    BY <1>1, AnswersConcat DEF HTTPError, Answers
  <1>3. QED
    BY <1>2, SoundUnits, AnswersConcat DEF Answers

(* The answer of a failure to render. *)
LEMMA FailureFails ==
    /\ RenderFails(Broken \o Hook \o HTTPError(500))
    /\ RenderFails(Broken \o BareHook \o HTTPError(500))
    /\ Broken \o Hook \o HTTPError(500) \in Seq(Steps)
    /\ Broken \o BareHook \o HTTPError(500) \in Seq(Steps)
  <1> DEFINE b == [op |-> "broken"]
             h == [op |-> "header", code |-> 500]
             w == [op |-> "write", part |-> "error"]
  <1>1. b \in Steps /\ h \in Steps /\ w \in Steps
    <2>1. b \in Steps
      BY DEF Steps
    <2>2. h \in SoundSteps
      <3>1. 500 \in Codes
        BY SomeCodes
      <3>2. QED
        BY <3>1, HeaderStep
    <2>3. w \in SoundSteps
      <3>1. "error" \in Parts
        BY DEF Parts
      <3>2. QED
        BY <3>1 DEF SoundSteps
    <2> HIDE DEF b, h, w
    <2>4. QED
      BY <2>1, <2>2, <2>3 DEF Steps
  <1>2. ASSUME NEW x \in Steps, x.op \in {"hook", "bare hook"}
        PROVE  LET g == (<<b>> \o <<x>>) \o (<<h>> \o <<w>>)
               IN  g \in Seq(Steps) /\ RenderFails(g)
    <2> HIDE DEF b, h, w
    <2> DEFINE f == <<b>> \o <<x>>
               l == <<h>> \o <<w>>
    <2>1. f \in Seq(Steps) /\ Len(f) = 2 /\ f[1] = b /\ f[2] = x
      <3>1. <<b>> \in Seq(Steps) /\ Len(<<b>>) = 1 /\ <<b>>[1] = b
        BY <1>1, OneStep
      <3>2. <<x>> \in Seq(Steps) /\ Len(<<x>>) = 1 /\ <<x>>[1] = x
        BY <1>2, OneStep
      <3>3. QED
        BY <3>1, <3>2, ConcatProperties
    <2>2. l \in Seq(Steps) /\ Len(l) = 2 /\ l[1] = h /\ l[2] = w
      <3>1. <<h>> \in Seq(Steps) /\ Len(<<h>>) = 1 /\ <<h>>[1] = h
        BY <1>1, OneStep
      <3>2. <<w>> \in Seq(Steps) /\ Len(<<w>>) = 1 /\ <<w>>[1] = w
        BY <1>1, OneStep
      <3>3. QED
        BY <3>1, <3>2, ConcatProperties
    <2> HIDE DEF f, l
    <2> DEFINE g == f \o l
    <2>3. /\ g \in Seq(Steps) /\ Len(g) = 4
          /\ g[1] = b /\ g[2] = x /\ g[3] = h /\ g[4] = w
      <3>1. g \in Seq(Steps) /\ Len(g) = Len(f) + Len(l)
        BY <2>1, <2>2, ConcatProperties
      <3>2. \A i \in 1..Len(f) + Len(l) :
               g[i] = IF i <= Len(f) THEN f[i] ELSE l[i - Len(f)]
        BY <2>1, <2>2, ConcatProperties
      <3>3. QED
        BY <2>1, <2>2, <3>1, <3>2
    <2>4. b.op = "broken" /\ h.op = "header" /\ h.code = 500 /\ w.op = "write" /\ w.part = "error"
      BY DEF b, h, w
    <2> HIDE DEF g
    <2>5. g \in Seq(Steps) /\ RenderFails(g)
      BY <1>2, <2>3, <2>4 DEF RenderFails
    <2>6. QED
      BY <2>5 DEF g, f, l
  <1> DEFINE x == [op |-> "hook"]
             y == [op |-> "bare hook"]
  <1>3. x \in Steps /\ x.op = "hook" /\ y \in Steps /\ y.op = "bare hook"
    BY DEF Steps, SoundSteps
  <1>4. /\ Broken = <<b>> /\ Hook = <<x>> /\ BareHook = <<y>>
        /\ HTTPError(500) = <<h>> \o <<w>>
    BY DEF Broken, Hook, BareHook, HTTPError, Header, Write
  <1> DEFINE failure == HTTPError(500)
  <1>5. failure = <<h>> \o <<w>>
    BY <1>4
  <1> HIDE DEF b, h, w, x, y, failure
  <1>6. /\ RenderFails(Broken \o Hook \o failure) /\ Broken \o Hook \o failure \in Seq(Steps)
    BY <1>2, <1>3, <1>4, <1>5
  <1>7. /\ RenderFails(Broken \o BareHook \o failure)
        /\ Broken \o BareHook \o failure \in Seq(Steps)
    BY <1>2, <1>3, <1>4, <1>5
  <1>8. QED
    BY <1>6, <1>7 DEF failure

-----------------------------------------------------------------------------
(* The verdicts.                                                           *)

(* The first of seven cases that an error is one of, the last of which     *)
(* takes every error.                                                      *)
LEMMA FirstCase ==
    ASSUME NEW cases, DOMAIN cases = 1..7, cases[7][1] = "default", NEW err
    PROVE  \E i \in 1..7 :
              /\ Verdict(cases, err) = cases[i][2]
              /\ cases[i][1] \in err \cup {"default"}
              /\ \A j \in 1..i - 1 : cases[j][1] \notin err \cup {"default"}
  <1> DEFINE Is(i) == cases[i][1] \in err \cup {"default"}
             First(i) == Is(i) /\ \A j \in 1..i - 1 : ~Is(j)
  <1>1. Is(7)
    OBVIOUS
  <1> HIDE DEF Is
  <1>2. \E i \in 1..7 : First(i)
    <2>1. /\ 1..1 - 1 = {} /\ 1..2 - 1 = {1} /\ 1..3 - 1 = {1, 2} /\ 1..4 - 1 = {1, 2, 3}
          /\ 1..5 - 1 = {1, 2, 3, 4} /\ 1..6 - 1 = {1, 2, 3, 4, 5}
          /\ 1..7 - 1 = {1, 2, 3, 4, 5, 6} /\ 1..7 = {1, 2, 3, 4, 5, 6, 7}
      OBVIOUS
    <2>2. First(1) \/ First(2) \/ First(3) \/ First(4) \/ First(5) \/ First(6) \/ First(7)
      BY <1>1, <2>1
    <2>3. QED
      BY <2>1, <2>2
  <1> DEFINE first == CHOOSE i \in DOMAIN cases : First(i)
  <1>3. first \in 1..7 /\ First(first)
    BY <1>2
  <1>4. Verdict(cases, err) = cases[first][2]
    BY DEF Verdict, Is
  <1>5. QED
    BY <1>3, <1>4 DEF Is

(* The errors' statuses are statuses, their codes are codes, and each goes *)
(* with one.                                                               *)
LEMMA Verdicts ==
    \A err :
        /\ StatusOf(err) \in Codes /\ CodeOf(err) \in Nat
        /\ <<StatusOf(err), CodeOf(err)>> \in
              {<<409, 6>>, <<404, 5>>, <<401, 16>>, <<403, 7>>, <<400, 3>>, <<503, 14>>,
               <<500, 13>>}
  <1> TAKE err
  <1> DEFINE Pairs == {<<409, 6>>, <<404, 5>>, <<401, 16>>, <<403, 7>>, <<400, 3>>,
                       <<503, 14>>, <<500, 13>>}
  <1> DEFINE http == << <<"ErrAlreadyExists", 409>>, <<"ErrNotFound", 404>>,
                        <<"ErrUnauthenticated", 401>>, <<"ErrUnauthorized", 403>>,
                        <<"ErrInvalidArgument", 400>>, <<"ErrUnavailable", 503>>,
                        <<"default", 500>> >>
             grpc == << <<"ErrAlreadyExists", 6>>, <<"ErrNotFound", 5>>,
                        <<"ErrUnauthenticated", 16>>, <<"ErrUnauthorized", 7>>,
                        <<"ErrInvalidArgument", 3>>, <<"ErrUnavailable", 14>>,
                        <<"default", 13>> >>
  <1>1. /\ DOMAIN http = 1..7 /\ http[7][1] = "default"
        /\ DOMAIN grpc = 1..7 /\ grpc[7][1] = "default"
    OBVIOUS
  <1>2. \A i \in 1..7 : http[i][1] = grpc[i][1]
    OBVIOUS
  <1>3. \A i \in 1..7 :
           /\ http[i][2] \in Codes /\ grpc[i][2] \in Nat
           /\ <<http[i][2], grpc[i][2]>> \in Pairs
    <2>1. \A i \in 1..7 : <<http[i][2], grpc[i][2]>> \in Pairs
      OBVIOUS
    <2>2. \A i \in 1..7 : http[i][2] \in Codes
      BY DEF Codes
    <2>3. \A i \in 1..7 : grpc[i][2] \in Nat
      OBVIOUS
    <2>4. QED
      BY <2>1, <2>2, <2>3
  <1>4. StatusOf(err) = Verdict(http, err) /\ CodeOf(err) = Verdict(grpc, err)
    BY DEF StatusOf, CodeOf
  <1> HIDE DEF http, grpc, Pairs
  <1>5. PICK i \in 1..7 :
           /\ Verdict(http, err) = http[i][2]
           /\ http[i][1] \in err \cup {"default"}
           /\ \A j \in 1..i - 1 : http[j][1] \notin err \cup {"default"}
    BY <1>1, FirstCase
  <1>6. PICK k \in 1..7 :
           /\ Verdict(grpc, err) = grpc[k][2]
           /\ grpc[k][1] \in err \cup {"default"}
           /\ \A j \in 1..k - 1 : grpc[j][1] \notin err \cup {"default"}
    BY <1>1, FirstCase
  <1>7. i = k
    <2>1. ~(i < k)
      BY <1>2, <1>5, <1>6
    <2>2. ~(k < i)
      BY <1>2, <1>5, <1>6
    <2>3. QED
      BY <2>1, <2>2
  <1>8. StatusOf(err) = http[k][2] /\ CodeOf(err) = grpc[k][2]
    BY <1>4, <1>5, <1>6, <1>7
  <1>9. StatusOf(err) \in Codes /\ CodeOf(err) \in Nat /\ <<StatusOf(err), CodeOf(err)>> \in Pairs
    <2>1. http[k][2] \in Codes /\ grpc[k][2] \in Nat /\ <<http[k][2], grpc[k][2]>> \in Pairs
      BY <1>3, Zenon
    <2>2. QED
      BY <2>1, <1>8, Zenon
  <1>10. QED
    BY <1>9 DEF Pairs

-----------------------------------------------------------------------------
(* The programs of the handlers.                                           *)

Program(g) == g \in Seq(Steps) /\ (g = <<>> \/ Answers(g) \/ RenderFails(g))

(* What answers is a program. *)
LEMMA AnswersIsProgram == ASSUME NEW g, g = <<>> \/ Answers(g) PROVE Program(g)
  <1>1. SoundSteps \subseteq Steps
    BY DEF Steps
  <1>2. g \in Seq(Steps)
    <2>1. CASE g = <<>>
      BY <2>1
    <2>2. CASE g \in Seq(SoundSteps)
      BY <1>1, <2>2, SeqMonotonic
    <2>3. QED
      BY <2>1, <2>2 DEF Answers
  <1>3. QED
    BY <1>2 DEF Program

(* WithStatus gives a status. *)
LEMMA StatusGiven == \A o \in Statuses : \A code \in Codes : OrDefault(o, code) \in Codes
  BY PipelineConstants DEF OrDefault, Codes

(* What a response function sends after its status. *)
LEMMA SentAnswers ==
    \A o \in Statuses : \A part \in Parts : \A sent \in {<<>>, Write(part), LostWrite \o Hook} :
        Answers(Header(OrDefault(o, 200)) \o sent)
  <1> SUFFICES ASSUME NEW o \in Statuses, NEW part \in Parts,
                      NEW sent \in {<<>>, Write(part), LostWrite \o Hook}
               PROVE  Answers(Header(OrDefault(o, 200)) \o sent)
    OBVIOUS
  <1>1. Answers(Header(OrDefault(o, 200)))
    <2>1. OrDefault(o, 200) \in Codes
      BY StatusGiven, SomeCodes
    <2>2. QED
      BY <2>1, SoundUnits
  <1>2. sent \in Seq(SoundSteps)
    <2>1. Write(part) \in Seq(SoundSteps)
      BY SoundUnits DEF Answers
    <2>2. LostWrite \o Hook \in Seq(SoundSteps)
      <3>1. LostWrite \in Seq(SoundSteps) /\ Hook \in Seq(SoundSteps)
        BY SoundUnits DEF Answers
      <3>2. QED
        BY <3>1, ConcatProperties
    <2>3. <<>> \in Seq(SoundSteps)
      OBVIOUS
    <2>4. QED
      BY <2>1, <2>2, <2>3, Zenon
  <1>3. QED
    BY <1>1, <1>2, AnswersConcat DEF Answers

(* The response functions. *)
LEMMA ResponsePrograms ==
    /\ \A part \in Parts : \A g \in Render(part) \cup Send(part) : Program(g)
    /\ \A code \in Codes : \A g \in Status(code) : Program(g)
    /\ \A err : \A g \in ErrorHTTP(err) : Program(g)
  <1>1. ASSUME NEW part \in Parts, NEW g \in Render(part) \cup Send(part) PROVE Program(g)
    <2> DEFINE Start(o) == Header(OrDefault(o, 200))
               failure == Broken \o Hook \o HTTPError(500)
               Some == {Write(part), LostWrite \o Hook}
               Sends == {<<>>, Write(part), LostWrite \o Hook}
    <2>1. Program(failure)
      BY FailureFails DEF Program
    <2>2. \A o \in Statuses : \A sent \in Sends : Answers(Start(o) \o sent)
      BY SentAnswers
    <2>3. Render(part) = {failure} \cup {Start(o) \o sent : o \in Statuses, sent \in Some}
      BY DEF Render
    <2>4. Send(part) = {Start(o) \o sent : o \in Statuses, sent \in Sends}
      BY DEF Send
    <2>5. Some \subseteq Sends
      OBVIOUS
    <2> HIDE DEF Start, failure, Some, Sends
    <2>6. \A o \in Statuses : \A sent \in Sends : Program(Start(o) \o sent)
      BY <2>2, AnswersIsProgram, Zenon
    <2>7. CASE g \in Render(part)
      <3>1. g = failure \/ \E o \in Statuses : \E sent \in Some : g = Start(o) \o sent
        BY <2>3, <2>7
      <3>2. QED
        BY <2>1, <2>5, <2>6, <3>1, Zenon
    <2>8. CASE g \in Send(part)
      <3>1. \E o \in Statuses : \E sent \in Sends : g = Start(o) \o sent
        BY <2>4, <2>8
      <3>2. QED
        BY <2>6, <3>1, Zenon
    <2>9. QED
      BY <1>1, <2>7, <2>8
  <1>2. ASSUME NEW code \in Codes, NEW g \in Status(code) PROVE Program(g)
    <2>1. PICK o \in Statuses : g = Header(OrDefault(o, code))
      BY <1>2 DEF Status
    <2>2. OrDefault(o, code) \in Codes
      BY StatusGiven
    <2>3. Answers(g)
      BY <2>1, <2>2, SoundUnits, Zenon
    <2>4. QED
      BY <2>3, AnswersIsProgram, Zenon
  <1>3. ASSUME NEW err, NEW g \in ErrorHTTP(err) PROVE Program(g)
    <2>1. PICK o \in Statuses : g = Hook \o HTTPError(OrDefault(o, StatusOf(err)))
      BY <1>3 DEF ErrorHTTP
    <2>2. OrDefault(o, StatusOf(err)) \in Codes
      <3>1. StatusOf(err) \in Codes
        BY Verdicts
      <3>2. QED
        BY <3>1, StatusGiven
    <2>3. Answers(g)
      BY <2>1, <2>2, ErrorAnswers, Zenon
    <2>4. QED
      BY <2>3, AnswersIsProgram, Zenon
  <1>4. QED
    BY <1>1, <1>2, <1>3, Zenon

(* The built-in handlers. *)
LEMMA BuiltInPrograms ==
    /\ \A report : \A g \in HealthHandler(report) : Program(g)
    /\ \A g \in metricsHandler \cup Profiler : Program(g)
  <1> DEFINE ok == Header(200)
             failed == Header(500)
             unavailable == HTTPError(503)
             notFound == HTTPError(404)
             unrendered == Broken \o BareHook \o HTTPError(500)
             told == BareHook \o unavailable
             lost == LostWrite \o BareHook
             report == Write("503 Service Unavailable") \o BareHook \o unavailable
             brokenReport == lost \o failed \o LostWrite
             emptyPage == ok \o LostWrite \o BareHook
  <1>1. healthCheckHandler = {ok, told}
    BY DEF healthCheckHandler, Healthy, Unhealthy
  <1>0. UnhealthyJSON = {report, brokenReport}
    BY DEF UnhealthyJSON
  <1>2. healthCheckHandlerJSON = UnhealthyJSON \cup {Write("200 OK"), brokenReport}
    BY DEF healthCheckHandlerJSON
  <1>3. healthCheckHandlerHTML = {unrendered, ok \o Write("page"), emptyPage}
    BY DEF healthCheckHandlerHTML
  <1>4. metricsHandler \cup Profiler =
           {Write("metrics"), LostWrite, Write("profile"), notFound}
    BY DEF metricsHandler, Profiler
  <1>5. Answers(ok) /\ Answers(failed)
    BY SoundUnits, SomeCodes
  <1>6. Answers(unavailable) /\ Answers(notFound) /\ Answers(told)
    BY SomeCodes, ErrorAnswers
  <1>7. Program(unrendered)
    BY FailureFails DEF Program
  <1>8. Answers(LostWrite) /\ BareHook \in Seq(SoundSteps)
    BY SoundUnits
  <1>9. /\ Answers(Write("503 Service Unavailable")) /\ Answers(Write("200 OK"))
        /\ Answers(Write("page")) /\ Answers(Write("metrics")) /\ Answers(Write("profile"))
    <2>1. {"503 Service Unavailable", "200 OK", "page", "metrics", "profile"} \subseteq Parts
      BY DEF Parts
    <2>2. QED
      BY <2>1, SoundUnits
  <1> HIDE DEF ok, failed, unavailable, notFound, unrendered, told
  <1>10. \A s, t : /\ Answers(s) /\ Answers(t) => Answers(s \o t)
                   /\ Answers(s) /\ t \in Seq(SoundSteps) => Answers(s \o t)
    BY AnswersConcat DEF Answers
  <1>11. Answers(lost) /\ Answers(report) /\ Answers(brokenReport)
    BY <1>5, <1>6, <1>8, <1>9, <1>10, Zenon
  <1>12. Answers(ok \o Write("page")) /\ Answers(emptyPage)
    BY <1>5, <1>8, <1>9, <1>10, Zenon
  <1> HIDE DEF lost, report, brokenReport, emptyPage
  <1>13. \A g \in healthCheckHandler : Program(g)
    BY <1>1, <1>5, <1>6, AnswersIsProgram, Zenon
  <1>14. \A g \in healthCheckHandlerJSON : Program(g)
    BY <1>0, <1>2, <1>9, <1>11, AnswersIsProgram, Zenon
  <1>15. \A g \in healthCheckHandlerHTML : Program(g)
    BY <1>3, <1>7, <1>12, AnswersIsProgram, Zenon
  <1>16. \A form : \A g \in HealthHandler(form) : Program(g)
    BY <1>13, <1>14, <1>15 DEF HealthHandler
  <1>17. \A g \in metricsHandler \cup Profiler : Program(g)
    BY <1>4, <1>6, <1>8, <1>9, AnswersIsProgram, Zenon
  <1>18. QED
    BY <1>16, <1>17, Zenon

(* Those of the program. *)
LEMMA AppPrograms == \A g \in AppHandler : Program(g)
  <1>1. \A g \in JSON \cup TemplateHTML \cup TEXT \cup HTML : Program(g)
    <2>1. {"json", "page", "text", "html"} \subseteq Parts
      BY DEF Parts
    <2>2. QED
      BY <2>1, ResponsePrograms DEF JSON, TemplateHTML, TEXT, HTML
  <1>2. \A g \in Status(204) : Program(g)
    BY SomeCodes, ResponsePrograms
  <1>3. Program(<<>>) /\ Program(Panic)
    BY SoundUnits, AnswersIsProgram
  <1>4. Program(Hook \o HTTPError(500) \o Panic)
    <2>1. Answers(Hook \o HTTPError(500))
      BY SomeCodes, ErrorAnswers
    <2>2. Answers(Panic)
      BY SoundUnits
    <2>3. Answers(Hook \o HTTPError(500) \o Panic)
      BY <2>1, <2>2, AnswersConcat DEF Answers
    <2>4. QED
      BY <2>3, AnswersIsProgram, Zenon
  <1>5. \A g \in UNION {ErrorHTTP(err) : err \in SUBSET Sentinels} : Program(g)
    BY ResponsePrograms
  <1>6. ASSUME NEW g \in AppHandler PROVE Program(g)
    <2> DEFINE interrupted == Hook \o HTTPError(500) \o Panic
               Own == {<<>>, Panic, interrupted}
               Errors == UNION {ErrorHTTP(err) : err \in SUBSET Sentinels}
    <2>1. AppHandler = UNION {JSON, TemplateHTML, TEXT, HTML, Status(204), Own, Errors}
      BY DEF AppHandler
    <2>0. Program(interrupted)
      BY <1>4
    <2> HIDE DEF interrupted
    <2>2. \A h \in Own : Program(h)
      BY <1>3, <2>0, Zenon
    <2>3. \A h \in Errors : Program(h)
      BY <1>5, Zenon
    <2> HIDE DEF Own, Errors
    <2>4. QED
      BY <1>1, <1>2, <1>6, <2>1, <2>2, <2>3
  <1>7. QED
    BY <1>6, Zenon

(* Every handler of a route. *)
LEMMA HTTPPrograms == \A route : \A g \in HandlersOf(route) : Program(g)
  <1>1. ASSUME NEW route, NEW g \in HandlersOf(route) PROVE Program(g)
    <2>1. CASE route.to = "health"
      BY <1>1, <2>1, BuiltInPrograms DEF HandlersOf
    <2>2. CASE route.to = "metrics"
      BY <1>1, <2>2, BuiltInPrograms DEF HandlersOf
    <2>3. CASE route.to = "profiler"
      BY <1>1, <2>3, BuiltInPrograms DEF HandlersOf
    <2>4. CASE route.to \notin {"health", "metrics", "profiler"}
      <3>1. HandlersOf(route) = AppHandler
        BY <2>4 DEF HandlersOf
      <3>2. QED
        BY <1>1, <3>1, AppPrograms, Zenon
    <2>5. QED
      BY <2>1, <2>2, <2>3, <2>4
  <1>2. QED
    BY <1>1, Zenon

(* An RPC method returns or panics, and tells the hook before that. *)
LEMMA MethodPrograms ==
    \A g \in Method : g \in Seq(Steps) /\ \A i \in 1..Len(g) : g[i].op \in RPCOps
  <1> DEFINE Fine(g) == g \in Seq(Steps) /\ \A i \in 1..Len(g) : g[i].op \in RPCOps
  <1>1. ASSUME NEW x \in Steps, x.op \in RPCOps PROVE Fine(<<x>>)
    BY <1>1, OneStep
  <1>2. \A code \in Nat : \A coded \in BOOLEAN : Fine(Return(code, coded))
    <2>1. ASSUME NEW code \in Nat, NEW coded \in BOOLEAN PROVE Fine(Return(code, coded))
      <3> DEFINE x == [op |-> "return", code |-> code, coded |-> coded]
      <3>1. x \in Steps
        BY DEF Steps
      <3>2. x.op \in RPCOps
        BY DEF RPCOps
      <3> HIDE DEF x, Fine
      <3>3. Fine(<<x>>)
        BY <1>1, <3>1, <3>2
      <3>4. QED
        BY <3>3 DEF Return, x
    <2>2. QED
      BY <2>1, Zenon
  <1>3. Fine(Panic) /\ Fine(Hook)
    BY DEF Panic, Hook, RPCOps, Steps, SoundSteps
  <1>4. ASSUME NEW s, NEW t, Fine(s), Fine(t) PROVE Fine(s \o t)
    BY <1>4, ConcatProperties
  <1>5. ASSUME NEW err, NEW g \in ErrorGRPC(err) PROVE Fine(g)
    <2>1. CodeOf(err) \in Nat
      BY Verdicts
    <2>2. Fine(Return(CodeOf(err), TRUE))
      BY <1>2, <2>1
    <2> HIDE DEF Fine
    <2>3. QED
      BY <1>3, <1>4, <1>5, <2>2 DEF ErrorGRPC
  <1> HIDE DEF Fine
  <1>6. ASSUME NEW g \in Method PROVE Fine(g)
    <2> DEFINE Own == {Return(0, TRUE), Return(5, TRUE), Return(2, FALSE), Panic}
               Errors == UNION {ErrorGRPC(err) : err \in SUBSET Sentinels}
    <2>1. Method = UNION {Own, Errors}
      BY DEF Method
    <2>2. \A h \in Own : Fine(h)
      BY <1>2, <1>3
    <2>3. \A h \in Errors : Fine(h)
      BY <1>5
    <2> HIDE DEF Own, Errors
    <2>4. QED
      BY <1>6, <2>1, <2>2, <2>3
  <1>7. QED
    BY <1>6 DEF Fine

-----------------------------------------------------------------------------
(* The layers.                                                             *)

(* The layers of a route. *)
LEMMA RouteChains == \A route : RouteChain(route) \in Seq(HTTPLayers)
  <1>1. /\ <<>> \in Seq(HTTPLayers) /\ <<"log">> \in Seq(HTTPLayers)
        /\ <<"nolog">> \in Seq(HTTPLayers) /\ <<"metrics">> \in Seq(HTTPLayers)
    BY DEF HTTPLayers
  <1>2. \A s, t \in Seq(HTTPLayers) : s \o t \in Seq(HTTPLayers)
    BY ConcatProperties
  <1>3. QED
    BY <1>1, <1>2 DEF RouteChain

Less == {p \in Nat \X Nat : p[1] < p[2]}

(* Among the logging layers above a layer is a nearest one. *)
LEMMA NearestExists ==
    ASSUME NEW S, chain \in Seq(S), NEW n \in Nat, LogsAbove(n) # {}
    PROVE  Nearest(n) # {}
  <1>1. LogsAbove(n) \subseteq Nat /\ \A m \in LogsAbove(n) : m < n
    BY DEF LogsAbove
  <1> DEFINE Distances == {d \in Nat : \E m \in LogsAbove(n) : d = n - m}
  <1>2. Distances # {} /\ Distances \subseteq Nat
    BY <1>1
  <1>3. \E d \in Distances : \A e \in Distances : d <= e
    <2>1. IsWellFoundedOn(Less, Nat)
      BY NatLessThanWellFounded DEF OpToRel, Less
    <2> HIDE DEF Distances
    <2>2. \E d \in Distances : \A e \in Distances : <<e, d>> \notin Less
      BY <1>2, <2>1, WFMin
    <2>3. \A d, e \in Distances : <<e, d>> \notin Less => d <= e
      BY <1>2 DEF Less
    <2>4. QED
      BY <2>2, <2>3
  <1>4. PICK d \in Distances : \A e \in Distances : d <= e
    BY <1>3, Zenon
  <1>5. PICK m \in LogsAbove(n) : d = n - m
    OBVIOUS
  <1>6. ASSUME NEW k \in LogsAbove(n) PROVE k <= m
    <2>1. n - k \in Distances /\ n \in Nat /\ k \in Nat /\ m \in Nat
      BY <1>1
    <2>2. d <= n - k
      BY <1>4, <2>1
    <2>3. QED
      BY <1>5, <2>1, <2>2
  <1>7. QED
    BY <1>5, <1>6 DEF Nearest

(* The innermost logging layer is the one nearest to the handler. *)
LEMMA Innermost ==
    ASSUME NEW S, chain \in Seq(S), NEW n \in Logs
    PROVE  n \in Nearest(Len(chain) + 1) <=> \A m \in Logs : m <= n
  <1>1. LogsAbove(Len(chain) + 1) = Logs
    BY DEF LogsAbove, Logs
  <1>2. QED
    BY <1>1 DEF Nearest

(* What silences a logging layer is a NoAccessLog layer that it is nearest *)
(* to.                                                                     *)
LEMMA SilencedBy ==
    ASSUME NEW S, chain \in Seq(S), NEW n \in Logs
    PROVE  Silenced(n) <=> \E m \in DOMAIN chain : chain[m] = "nolog" /\ n \in Nearest(m)
  <1>1. DOMAIN chain \subseteq Nat
    OBVIOUS
  <1>2. ASSUME NEW m \in DOMAIN chain, chain[m] = "nolog"
        PROVE  n \in Nearest(m) <=> m > n /\ \A k \in Logs : k <= n \/ k > m
    <2>1. \A k \in Logs : k # m
      BY <1>2 DEF Logs
    <2>2. \A k : k \in LogsAbove(m) <=> k \in Logs /\ k < m
      BY DEF Logs, LogsAbove
    <2>3. Logs \subseteq Nat
      BY <1>1 DEF Logs
    <2>4. n \in Nearest(m) <=> n \in LogsAbove(m) /\ \A k \in LogsAbove(m) : k <= n
      BY DEF Nearest
    <2>5. m \in Nat /\ n \in Nat
      BY <1>1, <2>3
    <2>6. n \in LogsAbove(m) <=> m > n
      BY <2>2, <2>5
    <2>7. (\A k \in LogsAbove(m) : k <= n) <=> \A k \in Logs : k <= n \/ k > m
      <3>1. \A k \in Logs : (k < m => k <= n) <=> (k <= n \/ k > m)
        BY <2>1, <2>3, <2>5
      <3>2. QED
        BY <2>2, <3>1
    <2>8. QED
      BY <2>4, <2>6, <2>7
  <1>3. QED
    BY <1>2 DEF Silenced

-----------------------------------------------------------------------------
(* The invariant holds initially.                                          *)

(* A request has been nowhere yet. *)
LEMMA InitIInv == ASSUME Init PROVE IInv
  <1>1. ShapeInv
    <2>1. CASE kind = "http"
      <3>1. PICK global \in Globals, route \in Routes :
               chain = global \o RouteChain(route) /\ given \in HandlersOf(route)
        BY <2>1 DEF Init
      <3>2. chain \in Seq(HTTPLayers)
        <4>1. global \in Seq(HTTPLayers) /\ RouteChain(route) \in Seq(HTTPLayers)
          BY RouteChains, PipelineConstants
        <4>2. QED
          BY <3>1, <4>1, ConcatProperties
      <3>3. Program(given)
        BY <3>1, HTTPPrograms, Zenon
      <3>4. QED
        BY <2>1, <3>2, <3>3 DEF ShapeInv, Program
    <2>2. CASE kind = "grpc"
      <3>1. chain \in Seq(RPCLayers) /\ given \in Method
        BY <2>2, PipelineConstants DEF Init
      <3>2. QED
        BY <2>2, <3>1, MethodPrograms DEF ShapeInv
    <2>3. QED
      BY <2>1, <2>2 DEF Init
  <1>2. /\ prog = given /\ given \in Seq(Steps) /\ Len(given) \in Nat
        /\ Done = 0
    BY <1>1 DEF Init, ShapeInv, Done
  <1>3. \A op : ~Did(op)
    BY <1>2 DEF Did
  <1>4. Len(chain) \in Nat /\ DOMAIN chain = 1..Len(chain)
    BY <1>1 DEF ShapeInv
  <1>5. /\ pos = 1 /\ phase = "down" /\ status = 0 /\ body = <<>> /\ lines = {} /\ labels = {}
        /\ reqErr = [n \in DOMAIN chain |-> FALSE] /\ skip = [n \in DOMAIN chain |-> FALSE]
    BY DEF Init
  <1>6. ProgInv
    BY <1>2, <1>5 DEF ProgInv
  <1>7. PlaceInv
    BY <1>4, <1>5 DEF PlaceInv
  <1>8. CauseInv /\ StatusInv /\ ReportInv /\ LinesInv
    BY <1>3, <1>5 DEF CauseInv, Cause, StatusInv, ReportInv, LinesInv
  <1>9. BrokenInv
    BY <1>2, <1>5 DEF BrokenInv
  <1>10. SkipInv
    BY <1>4, <1>5 DEF SkipInv
  <1>11. HookInv
    BY <1>3, <1>5 DEF HookInv, Told
  <1>12. RPCInv
    BY <1>2, <1>3, <1>5 DEF RPCInv
  <1>13. QED
    BY <1>1, <1>6, <1>7, <1>8, <1>9, <1>10, <1>11, <1>12 DEF IInv

-----------------------------------------------------------------------------
(* Every step keeps it.                                                    *)

(* No step changes the layers. *)
LEMMA ChainFrame ==
    ASSUME chain' = chain
    PROVE  /\ Logs' = Logs
           /\ \A n : /\ Nearest(n)' = Nearest(n)
                     /\ Silenced(n)' <=> Silenced(n)
  <1>1. Logs' = Logs /\ \A n : LogsAbove(n)' = LogsAbove(n)
    BY DEF Logs, LogsAbove
  <1>2. QED
    BY <1>1 DEF Nearest, Silenced

(* What is said of the handler holds as long as it is the same. *)
LEMMA GivenFrame ==
    ASSUME UNCHANGED given
    PROVE  (Answers(given)' <=> Answers(given)) /\ (RenderFails(given)' <=> RenderFails(given))
  BY DEF Answers, RenderFails

(* A step that is not the handler's leaves what has been done. *)
LEMMA ProgFrame ==
    ASSUME UNCHANGED <<kind, chain, given, prog>>
    PROVE  /\ Done' = Done
           /\ \A op : Did(op)' <=> Did(op)
           /\ Told' <=> Told
           /\ Cause' <=> Cause
           /\ RenderFails(given)' <=> RenderFails(given)
           /\ \A n : (Skipped(n)' <=> Skipped(n)) /\ (Untold(n)' <=> Untold(n))
  <1>1. Done' = Done /\ \A op : Did(op)' <=> Did(op)
    BY DEF Done, Did
  <1>2. Logs' = Logs
    BY ChainFrame
  <1>3. RenderFails(given)' <=> RenderFails(given)
    BY GivenFrame
  <1>4. QED
    BY <1>1, <1>2, <1>3 DEF Told, Cause, Skipped, Untold

(* Nor does it change the handler, or the invariant's parts about it. *)
LEMMA HandlerFrame ==
    ASSUME IInv, UNCHANGED <<kind, chain, given, prog>>, phase' = "down" => phase = "down"
    PROVE  /\ ShapeInv' /\ ProgInv'
           /\ reqErr' = reqErr => HookInv'
           /\ skip' = skip /\ phase # "down" /\ phase' # "down" => SkipInv'
  <1>1. ShapeInv' /\ ProgInv'
    <2>1. (Answers(given)' <=> Answers(given)) /\ (RenderFails(given)' <=> RenderFails(given))
      BY GivenFrame
    <2>2. QED
      BY <2>1 DEF IInv, ShapeInv, ProgInv, Done
  <1>2. ASSUME reqErr' = reqErr PROVE HookInv'
    BY <1>2, ChainFrame, ProgFrame DEF IInv, HookInv
  <1>3. ASSUME skip' = skip, phase # "down", phase' # "down" PROVE SkipInv'
    BY <1>3, ChainFrame DEF IInv, SkipInv
  <1>4. QED
    BY <1>1, <1>2, <1>3

(* The numbers of the layers. *)
LEMMA Layers ==
    ASSUME IInv
    PROVE  /\ Len(chain) \in Nat /\ DOMAIN chain = 1..Len(chain)
           /\ Len(given) \in Nat /\ Len(prog) \in Nat
           /\ pos \in Nat /\ status \in Nat
           /\ Logs \subseteq 1..Len(chain)
           /\ chain \in Seq(HTTPLayers \cup RPCLayers)
  <1>1. chain \in Seq(HTTPLayers) \/ chain \in Seq(RPCLayers)
    BY DEF IInv, ShapeInv
  <1>2. chain \in Seq(HTTPLayers \cup RPCLayers)
    BY <1>1, SeqMonotonic
  <1>3. QED
    BY <1>2 DEF IInv, ShapeInv, ProgInv, PlaceInv, Logs

(* A layer on the way down. *)
LEMMA EnterKeeps == ASSUME IInv, Enter PROVE IInv'
  <1>1. /\ UNCHANGED <<kind, chain, given, prog, phase, status, body, reqErr, lines, labels>>
        /\ phase = "down" /\ pos <= Len(chain) /\ pos' = pos + 1
    BY DEF Enter, reports
  <1>2. ShapeInv' /\ ProgInv' /\ HookInv'
    BY <1>1, HandlerFrame
  <1>3. PlaceInv'
    <2>1. skip' \in [DOMAIN chain -> BOOLEAN]
      BY DEF Enter, IInv, PlaceInv
    <2>2. pos \in 1..Len(chain) + 1
      BY <1>1 DEF IInv, PlaceInv
    <2>3. QED
      BY <1>1, <2>1, <2>2, Layers DEF IInv, PlaceInv
  <1>4. CauseInv' /\ StatusInv' /\ ReportInv' /\ LinesInv'
    BY <1>1, ProgFrame DEF IInv, CauseInv, StatusInv, ReportInv, LinesInv
  <1>5. BrokenInv'
    BY <1>1, ProgFrame DEF IInv, BrokenInv
  <1>6. SkipInv'
    <2>1. ASSUME NEW n \in DOMAIN chain
          PROVE  skip'[n] <=> \E m \in DOMAIN chain :
                                  chain[m] = "nolog" /\ n \in Nearest(m) /\ m < pos + 1
      <3>1. skip[n] <=> \E m \in DOMAIN chain : chain[m] = "nolog" /\ n \in Nearest(m) /\ m < pos
        BY <1>1 DEF IInv, SkipInv
      <3>2. pos \in DOMAIN chain /\ \A m \in DOMAIN chain : m < pos + 1 <=> m < pos \/ m = pos
        BY <1>1, Layers DEF IInv, PlaceInv
      <3>3. skip'[n] <=> skip[n] \/ (chain[pos] = "nolog" /\ n \in Nearest(pos))
        BY DEF Enter, IInv, PlaceInv
      <3>4. QED
        BY <3>1, <3>2, <3>3
    <2>2. QED
      BY <1>1, <2>1, ChainFrame DEF SkipInv
  <1>7. RPCInv'
    BY <1>1, ProgFrame DEF IInv, RPCInv
  <1>8. QED
    BY <1>2, <1>3, <1>4, <1>5, <1>6, <1>7 DEF IInv

(* The handler is reached. *)
LEMMA ReachKeeps == ASSUME IInv, Reach PROVE IInv'
  <1>1. /\ UNCHANGED <<kind, chain, given, prog, pos, status, body, reqErr, skip, lines, labels>>
        /\ phase = "down" /\ phase' = "handler" /\ pos > Len(chain)
    BY DEF Reach, reports, layers
  <1>2. ShapeInv' /\ ProgInv' /\ HookInv'
    BY <1>1, HandlerFrame
  <1>3. PlaceInv' /\ pos = Len(chain) + 1
    BY <1>1, Layers DEF IInv, PlaceInv
  <1>4. CauseInv' /\ StatusInv' /\ ReportInv' /\ LinesInv'
    BY <1>1, ProgFrame DEF IInv, CauseInv, StatusInv, ReportInv, LinesInv
  <1>5. BrokenInv'
    BY <1>1, ProgFrame DEF IInv, BrokenInv
  <1>6. SkipInv'
    <2>1. \A m \in DOMAIN chain : m < pos
      BY <1>3, Layers
    <2>2. QED
      BY <1>1, <2>1, ChainFrame DEF IInv, SkipInv
  <1>7. RPCInv'
    BY <1>1, ProgFrame DEF IInv, RPCInv
  <1>8. QED
    BY <1>2, <1>3, <1>4, <1>5, <1>6, <1>7 DEF IInv

(* What an HTTP handler of this kind does. *)
LEMMA HTTPSteps ==
    ASSUME NEW g \in Seq(Steps), g = <<>> \/ Answers(g) \/ RenderFails(g), NEW i \in 1..Len(g)
    PROVE  /\ g[i].op # "return"
           /\ g[i].op = "header" => g[i].code \in Codes
           /\ g[i].op = "broken" => RenderFails(g)
  <1>1. CASE Answers(g)
    <2>1. g[i] \in SoundSteps
      BY <1>1 DEF Answers
    <2>2. /\ g[i].op # "return" /\ g[i].op # "broken"
          /\ g[i].op = "header" => g[i].code \in Codes
      BY <2>1 DEF SoundSteps
    <2>3. QED
      BY <2>2
  <1>2. CASE RenderFails(g)
    <2>1. i \in {1, 2, 3, 4}
      <3>1. Len(g) = 4
        BY <1>2 DEF RenderFails
      <3>2. QED
        BY <3>1
    <2>2. 500 \in Codes
      BY SomeCodes
    <2>3. /\ g[1].op = "broken"
          /\ g[2].op \in {"hook", "bare hook"}
          /\ g[3].op = "header" /\ g[3].code = 500
          /\ g[4].op = "write"
      BY <1>2, Zenon DEF RenderFails
    <2>4. QED
      <3>1. CASE i \in {1, 2, 4}
        <4>1. g[i].op \in {"broken", "hook", "bare hook", "write"}
          <5>1. i = 1 => g[i].op = "broken"
            BY <2>3, Zenon
          <5>2. i = 2 => g[i].op \in {"hook", "bare hook"}
            BY <2>3, Zenon
          <5>3. i = 4 => g[i].op = "write"
            BY <2>3, Zenon
          <5>4. QED
            BY <3>1, <5>1, <5>2, <5>3
        <4>2. QED
          BY <1>2, <4>1
      <3>2. CASE i = 3
        BY <1>2, <2>2, <2>3, <3>2
      <3>3. QED
        BY <2>1, <3>1, <3>2
  <1>3. QED
    BY <1>1, <1>2

(* What the handler does is its next step. *)
LEMMA Handled ==
    ASSUME IInv, Handle
    PROVE  /\ UNCHANGED <<kind, chain, given, skip, lines, labels>>
           /\ phase = "handler" /\ pos = Len(chain) + 1
           /\ Done \in Nat /\ Done + 1 \in 1..Len(given) /\ Done' = Done + 1
           /\ Head(prog) = given[Done + 1]
           /\ \A op : Did(op)' <=> Did(op) \/ Head(prog).op = op
           /\ prog' \in Seq(Steps) /\ Len(prog') <= Len(given)
           /\ \A i \in 1..Len(prog') : prog'[i] = given[Done' + i]
           /\ given # <<>>
  <1>1. /\ UNCHANGED <<kind, chain, given, skip, lines, labels>>
        /\ phase = "handler" /\ prog # <<>> /\ prog' = Tail(prog)
    BY DEF Handle, reports
  <1>2. /\ prog \in Seq(Steps) /\ Len(prog) <= Len(given) /\ given \in Seq(Steps)
        /\ \A i \in 1..Len(prog) : prog[i] = given[Done + i]
    BY DEF IInv, ProgInv, ShapeInv
  <1>3. /\ Tail(prog) \in Seq(Steps) /\ Len(Tail(prog)) = Len(prog) - 1
        /\ Len(prog) \in Nat \ {0} /\ Len(given) \in Nat
        /\ Head(prog) = prog[1]
        /\ \A i \in 1..Len(Tail(prog)) : Tail(prog)[i] = prog[i + 1]
    BY <1>1, <1>2, HeadTailProperties
  <1>4. Done \in Nat /\ Done + 1 \in 1..Len(given) /\ Done' = Done + 1
    BY <1>1, <1>2, <1>3 DEF Done
  <1>5. Head(prog) = given[Done + 1]
    BY <1>2, <1>3
  <1>6. ASSUME NEW i \in 1..Len(prog') PROVE prog'[i] = given[Done' + i]
    <2>1. i + 1 \in 1..Len(prog) /\ prog'[i] = prog[i + 1]
      BY <1>1, <1>3
    <2>2. Done' + i = Done + (i + 1)
      BY <1>1, <1>3, <1>4
    <2>3. QED
      BY <1>2, <2>1, <2>2
  <1>7. ASSUME NEW op PROVE Did(op)' <=> Did(op) \/ Head(prog).op = op
    <2>1. Did(op) <=> \E i \in 1..Done : given[i].op = op
      BY DEF Did, Done
    <2>2. Did(op)' <=> \E i \in 1..Done + 1 : given[i].op = op
      BY <1>1, <1>4 DEF Did, Done
    <2>3. \A i : i \in 1..Done + 1 <=> i \in 1..Done \/ i = Done + 1
      BY <1>4
    <2>4. QED
      BY <1>5, <2>1, <2>2, <2>3
  <1>8. pos = Len(chain) + 1
    BY <1>1 DEF IInv, PlaceInv
  <1>9. given # <<>>
    BY <1>2, <1>3
  <1>10. QED
    BY <1>1, <1>2, <1>3, <1>4, <1>5, <1>6, <1>7, <1>8, <1>9

(* The handler's steps. *)
LEMMA HandleKeeps == ASSUME IInv, Handle PROVE IInv'
  <1> DEFINE step == Head(prog)
  <1>1. /\ UNCHANGED <<kind, chain, given, skip, lines, labels>>
        /\ phase = "handler" /\ pos = Len(chain) + 1
        /\ Done \in Nat /\ Done + 1 \in 1..Len(given) /\ Done' = Done + 1
        /\ step = given[Done + 1]
        /\ given # <<>>
    BY Handled
  <1>2. \A op : Did(op)' <=> Did(op) \/ step.op = op
    BY Handled
  <1>3. kind \in {"http", "grpc"} /\ given \in Seq(Steps) /\ step \in Steps
    BY <1>1 DEF IInv, ShapeInv
  <1>4. kind = "http" =>
           /\ step.op # "return"
           /\ step.op = "header" => step.code \in Codes
           /\ step.op = "broken" => RenderFails(given)
    BY <1>1, <1>3, HTTPSteps DEF IInv, ShapeInv
  <1>5. kind = "grpc" => step.op \in RPCOps
    BY <1>1 DEF IInv, ShapeInv
  <1>6. step.op = "return" => step.code \in Nat
    <2>1. step \in SoundSteps => step.op # "return"
      BY DEF SoundSteps
    <2>2. QED
      BY <1>3, <2>1 DEF Steps
  <1>7. Logs' = Logs /\ (\A n : Nearest(n)' = Nearest(n)) /\ DOMAIN chain' = DOMAIN chain
    BY <1>1, ChainFrame
  <1>8. GetLogErrHook = {} <=> Logs = {}
    <2>1. LogsAbove(pos) = Logs
      BY <1>1, Layers DEF LogsAbove, Logs
    <2>2. GetLogErrHook \subseteq Logs
      BY <2>1 DEF GetLogErrHook, Nearest
    <2>3. pos \in Nat /\ chain \in Seq(HTTPLayers \cup RPCLayers)
      BY Layers
    <2>4. Logs # {} => GetLogErrHook # {}
      BY <2>1, <2>3, NearestExists DEF GetLogErrHook
    <2>5. QED
      BY <2>2, <2>4
  <1>9. ShapeInv'
    <2>1. (Answers(given)' <=> Answers(given)) /\ (RenderFails(given)' <=> RenderFails(given))
      BY <1>1, GivenFrame
    <2>2. QED
      BY <1>1, <2>1 DEF IInv, ShapeInv
  <1>10. /\ phase' \in {"handler", "panic"}
         /\ phase' = "handler" => pos' = pos
         /\ phase' = "panic" => pos' = pos - 1
         /\ phase' = "panic" <=> step.op = "panic" \/ (step.op = "bare hook" /\ GetLogErrHook = {})
    BY <1>1 DEF Handle
  <1>11. ProgInv'
    BY <1>10, Handled DEF ProgInv
  <1> HIDE DEF step
  <1>22. /\ Len(chain) \in Nat /\ DOMAIN chain = 1..Len(chain) /\ DOMAIN chain' = 1..Len(chain)
         /\ pos = Len(chain) + 1 /\ pos \in Nat /\ status \in Nat
         /\ \/ phase' = "handler" /\ pos' = Len(chain) + 1
            \/ phase' = "panic" /\ pos' = Len(chain)
    <2>1. Len(chain) \in Nat /\ DOMAIN chain = 1..Len(chain) /\ status \in Nat
      BY Layers
    <2>2. DOMAIN chain = 1..Len(chain) /\ DOMAIN chain' = 1..Len(chain)
      BY <1>7, Layers
    <2>3. pos = Len(chain) + 1
      BY <1>1
    <2>4. /\ phase' \in {"handler", "panic"}
          /\ phase' = "handler" => pos' = pos
          /\ phase' = "panic" => pos' = pos - 1
      BY <1>10, Zenon
    <2>5. phase' = "panic" => pos' = Len(chain)
      BY <2>1, <2>3, <2>4
    <2>6. QED
      BY <2>1, <2>2, <2>3, <2>4, <2>5
  <1>23. /\ step.op = "header" => status' = IF status = 0 THEN step.code ELSE status
         /\ step.op = "write" \/ step.op = "lost" => status' = IF status = 0 THEN 200 ELSE status
         /\ step.op = "return" => status' = step.code
         /\ step.op \notin {"header", "write", "lost", "return"} => status' = status
         /\ step.op \in {"header", "write", "lost", "return", "hook", "bare hook", "panic", "broken"}
    BY DEF Handle, WriteHeader, step
  <1>12. PlaceInv'
    <2>1. status' \in Nat
      <3>1. step.op = "header" => step.code \in Nat
        <4>1. Codes \subseteq Nat
          BY DEF Codes
        <4>2. step.op = "header" => kind = "http"
          BY <1>3, <1>5 DEF RPCOps
        <4>3. QED
          BY <1>4, <4>1, <4>2, Zenon
      <3>2. status \in Nat
        BY Layers
      <3>3. QED
        <4>1. step.op = "header" => status' \in Nat
          BY <1>23, <3>1, <3>2
        <4>2. step.op = "write" \/ step.op = "lost" => status' \in Nat
          <5>1. step.op = "write" \/ step.op = "lost" => status' \in {200, status}
            BY <1>23, Zenon
          <5>2. QED
            BY <3>2, <5>1
        <4>3. step.op = "return" => status' \in Nat
          BY <1>6, <1>23
        <4>4. step.op \notin {"header", "write", "lost", "return"} => status' \in Nat
          BY <1>23, <3>2
        <4>5. QED
          BY <4>1, <4>2, <4>3, <4>4
    <2>2. reqErr' \in [DOMAIN chain -> BOOLEAN] /\ skip' \in [DOMAIN chain -> BOOLEAN]
      BY <1>1 DEF Handle, IInv, PlaceInv
    <2>3. QED
      BY <1>1, <1>22, <2>1, <2>2 DEF PlaceInv
  <1>13. CauseInv'
    <2>1. ASSUME kind = "http" PROVE Cause' <=> phase' = "panic"
      <3>1. ~Cause
        BY <1>1, <2>1 DEF IInv, CauseInv
      <3>2. QED
        BY <1>2, <1>7, <1>8, <1>10, <3>1 DEF Cause
    <2>2. phase' = "panic" => \A n \in DOMAIN chain : ~(n > pos')
      BY <1>22
    <2>3. phase' = "panic" => \A n \in DOMAIN chain : ~Recovers(n)'
      BY <2>2 DEF Recovers
    <2>4. QED
      BY <1>1, <1>7, <1>10, <2>1, <2>3 DEF CauseInv
  <1>14. StatusInv'
    <2>1. ASSUME kind = "http", Did("header")' \/ Did("write")' \/ Did("lost")' PROVE status' # 0
      <3>1. CASE step.op \in {"header", "write", "lost"}
        <4>1. step.op = "header" => step.code # 0
          BY <1>4, <2>1 DEF Codes
        <4>2. step.op = "header" => status' # 0
          BY <1>23, <4>1
        <4>3. step.op = "write" \/ step.op = "lost" => status' # 0
          <5>1. step.op = "write" \/ step.op = "lost" =>
                   \/ status = 0 /\ status' = 200
                   \/ status # 0 /\ status' = status
            BY <1>23, Zenon
          <5>2. QED
            BY <5>1
        <4>4. QED
          BY <3>1, <4>2, <4>3, Zenon
      <3>2. CASE step.op \notin {"header", "write", "lost"}
        <4>1. status # 0
          BY <1>2, <2>1, <3>2 DEF IInv, StatusInv
        <4>2. status' = status
          BY <1>4, <1>23, <2>1, <3>2
        <4>3. QED
          BY <4>1, <4>2
      <3>3. QED
        BY <3>1, <3>2
    <2>2. QED
      BY <1>1, <1>10, <2>1 DEF StatusInv
  <1>15. ReportInv'
    BY <1>1, <1>10 DEF IInv, ReportInv
  <1>16. BrokenInv'
    <2>1. SUFFICES ASSUME kind = "http", RenderFails(given)
                   PROVE  /\ Done + 1 <= 2 => status' = 0
                          /\ Done + 1 >= 3 => status' = 500
                          /\ body' = IF Done + 1 = 4 THEN <<"error">> ELSE <<>>
      <3>1. RenderFails(given)' <=> RenderFails(given)
        BY <1>1, GivenFrame
      <3>2. QED
        BY <1>1, <1>10, <2>1, <3>1 DEF BrokenInv
    <2>2. /\ Done <= 2 => status = 0
          /\ Done >= 3 => status = 500
          /\ body = IF Done = 4 THEN <<"error">> ELSE <<>>
      BY <1>1, <2>1 DEF IInv, BrokenInv
    <2>3. /\ Len(given) = 4
          /\ given[1].op = "broken"
          /\ given[2].op \in {"hook", "bare hook"}
          /\ given[3].op = "header" /\ given[3].code = 500
          /\ given[4].op = "write" /\ given[4].part = "error"
      BY <2>1, Zenon DEF RenderFails
    <2>8. Done \in {0, 1, 2, 3}
      <3>1. Done \in Nat /\ Done + 1 \in 1..Len(given)
        BY <1>1, Zenon
      <3>2. Len(given) = 4
        BY <2>3, Zenon
      <3>3. QED
        BY <3>1, <3>2
    <2>9. \/ step.op = "write" /\ body' = Append(body, step.part)
          \/ step.op # "write" /\ body' = body
      BY DEF Handle, step
    <2>10. step = given[Done + 1]
      BY <1>1, Zenon
    <2>4. CASE Done \in {0, 1}
      <3>1. step.op \in {"broken", "hook", "bare hook"}
        <4>1. CASE Done = 0
          <5>1. Done + 1 = 1
            BY <4>1
          <5>2. step = given[1]
            BY <2>10, <5>1, Zenon
          <5>3. QED
            BY <2>3, <5>2
        <4>2. CASE Done = 1
          <5>1. Done + 1 = 2
            BY <4>2
          <5>2. step = given[2]
            BY <2>10, <5>1, Zenon
          <5>3. QED
            BY <2>3, <5>2
        <4>3. QED
          BY <2>4, <4>1, <4>2
      <3>2. status' = status /\ body' = body
        BY <1>23, <2>9, <3>1
      <3>3. QED
        BY <2>2, <2>4, <3>2
    <2>5. CASE Done = 2
      <3>1. step.op = "header" /\ step.code = 500
        <4>1. Done + 1 = 3
          BY <2>5
        <4>2. step = given[3]
          BY <2>10, <4>1, Zenon
        <4>3. QED
          BY <2>3, <4>2
      <3>2. status' = 500 /\ body' = body
        BY <1>23, <2>2, <2>5, <2>9, <3>1
      <3>3. QED
        BY <2>2, <2>5, <3>2
    <2>6. CASE Done = 3
      <3>1. step.op = "write" /\ step.part = "error"
        <4>1. Done + 1 = 4
          BY <2>6
        <4>2. step = given[4]
          BY <2>10, <4>1, Zenon
        <4>3. QED
          BY <2>3, <4>2
      <3>2. status' = 500
        BY <1>23, <2>2, <2>6, <3>1
      <3>3. body = <<>> /\ body' = Append(body, "error")
        BY <2>2, <2>6, <2>9, <3>1
      <3>4. body' = <<"error">>
        BY <3>3
      <3>5. QED
        BY <2>6, <3>2, <3>4
    <2>7. QED
      BY <2>4, <2>5, <2>6, <2>8
  <1>17. SkipInv'
    BY <1>1, <1>7, <1>10 DEF IInv, SkipInv
  <1>18. HookInv'
    <2>1. ASSUME NEW n \in DOMAIN chain
          PROVE  reqErr'[n] <=> Told' /\ n \in Nearest(Len(chain) + 1)
      <3>1. reqErr[n] <=> Told /\ n \in Nearest(Len(chain) + 1)
        BY DEF IInv, HookInv
      <3>2. Told' <=> Told \/ step.op \in {"hook", "bare hook"}
        BY <1>2 DEF Told
      <3>3. GetLogErrHook = Nearest(Len(chain) + 1)
        BY <1>1 DEF GetLogErrHook
      <3>4. CASE step.op = "hook" \/ (step.op = "bare hook" /\ GetLogErrHook # {})
        <4>1. reqErr'[n] <=> reqErr[n] \/ n \in GetLogErrHook
          BY <3>4 DEF Handle, step, IInv, PlaceInv
        <4>2. QED
          BY <3>1, <3>2, <3>3, <3>4, <4>1
      <3>5. CASE step.op = "bare hook" /\ GetLogErrHook = {}
        <4>1. reqErr' = reqErr
          BY <3>5 DEF Handle, step
        <4>2. QED
          BY <3>1, <3>3, <3>5, <4>1
      <3>6. CASE step.op \notin {"hook", "bare hook"}
        <4>1. reqErr' = reqErr
          BY <3>6 DEF Handle, step
        <4>2. QED
          BY <3>1, <3>2, <3>6, <4>1
      <3>7. QED
        BY <3>4, <3>5, <3>6
    <2>2. QED
      BY <1>1, <1>7, <2>1 DEF HookInv
  <1>19. LinesInv'
    BY <1>10 DEF LinesInv
  <1>20. RPCInv'
    <2>1. ASSUME kind = "grpc" PROVE phase' = "panic" <=> Did("panic")'
      <3>1. ~Did("panic")
        BY <1>1, <2>1 DEF IInv, RPCInv
      <3>2. QED
        BY <1>2, <1>5, <1>10, <2>1, <3>1 DEF RPCOps
    <2>2. ASSUME step.op = "return" PROVE status' = step.code
      BY <2>2 DEF Handle, step
    <2>3. Done' > 0 /\ given'[Done'] = step
      BY <1>1
    <2>4. QED
      BY <1>1, <1>10, <2>1, <2>2, <2>3 DEF RPCInv
  <1>21. QED
    BY <1>9, <1>11, <1>12, <1>13, <1>14, <1>15, <1>16, <1>17, <1>18, <1>19, <1>20 DEF IInv

(* The handler has returned. *)
LEMMA AnswerKeeps == ASSUME IInv, Answer PROVE IInv'
  <1>1. /\ UNCHANGED <<kind, chain, given, prog, status, body, reqErr, skip, lines, labels>>
        /\ phase = "handler" /\ prog = <<>> /\ phase' = "up" /\ pos' = pos - 1
    BY DEF Answer, reports, layers
  <1>2. ShapeInv' /\ ProgInv' /\ HookInv' /\ SkipInv'
    BY <1>1, HandlerFrame
  <1>3. pos = Len(chain) + 1 /\ Len(chain) \in Nat
    BY <1>1, Layers DEF IInv, PlaceInv
  <1>4. pos' = Len(chain) /\ pos' \in Nat
    BY <1>1, <1>3
  <1>5. Done = Len(given) /\ Len(given) \in Nat
    BY <1>1, Layers DEF Done
  <1>6. PlaceInv'
    BY <1>1, <1>3, <1>4 DEF IInv, PlaceInv
  <1>7. CauseInv'
    BY <1>1, ProgFrame DEF IInv, CauseInv
  <1>8. StatusInv'
    <2>1. ASSUME kind = "http", given # <<>> PROVE status # 0
      <3>1. /\ ~Did("panic")
            /\ Did("header") \/ Did("write") \/ Did("lost") => status # 0
        BY <1>1, <2>1 DEF IInv, CauseInv, Cause, StatusInv
      <3>2. \A i \in 1..Len(given) : \A op : given[i].op = op => Did(op)
        BY <1>1 DEF Did
      <3>3. CASE Answers(given)
        BY <3>1, <3>2, <3>3 DEF Answers, Answering
      <3>4. CASE RenderFails(given)
        <4>1. 3 \in 1..Len(given) /\ given[3].op = "header"
          <5>1. Len(given) = 4 /\ given[3].op = "header"
            BY <3>4, Zenon DEF RenderFails
          <5>2. QED
            BY <5>1
        <4>2. QED
          BY <3>1, <3>2, <4>1
      <3>5. QED
        BY <2>1, <3>3, <3>4 DEF IInv, ShapeInv
    <2>2. QED
      BY <1>1, <2>1, ProgFrame DEF IInv, StatusInv
  <1>9. ReportInv'
    BY <1>1 DEF IInv, ReportInv
  <1>10. BrokenInv'
    <2>1. RenderFails(given) => Done = 4
      BY <1>5 DEF RenderFails
    <2>2. QED
      BY <1>1, <2>1, ProgFrame DEF IInv, BrokenInv
  <1>11. \A n \in Logs' : ~(n > pos')
    BY <1>1, <1>3, <1>4, ChainFrame, Layers
  <1>12. LinesInv'
    BY <1>11 DEF LinesInv
  <1>13. RPCInv'
    BY <1>1, <1>11, ProgFrame DEF IInv, RPCInv
  <1>14. QED
    BY <1>2, <1>6, <1>7, <1>8, <1>9, <1>10, <1>12, <1>13 DEF IInv

(* A request leaves a layer on its way up. *)
LEMMA LeaveFrame ==
    ASSUME IInv, NEW layer, Leave(layer), phase' = phase \/ (kind = "grpc" /\ phase' = "panic")
    PROVE  /\ UNCHANGED <<kind, chain, given, prog, status, body, reqErr, skip>>
           /\ phase = "up" /\ phase' \in {"up", "panic"}
           /\ pos \in DOMAIN chain /\ chain[pos] = layer /\ pos' = pos - 1
           /\ ShapeInv' /\ ProgInv' /\ PlaceInv' /\ CauseInv' /\ StatusInv' /\ BrokenInv'
           /\ SkipInv' /\ HookInv'
           /\ \A n \in DOMAIN chain : n > pos' <=> n > pos \/ n = pos
  <1>1. /\ UNCHANGED <<kind, chain, given, prog, status, body, reqErr, skip>>
        /\ phase = "up" /\ pos > 0 /\ chain[pos] = layer /\ pos' = pos - 1
    BY DEF Leave, layers
  <1>2. ShapeInv' /\ ProgInv' /\ HookInv' /\ SkipInv'
    BY <1>1, HandlerFrame
  <1>3. Len(chain) \in Nat /\ DOMAIN chain = 1..Len(chain) /\ pos \in Nat /\ pos <= Len(chain)
    BY <1>1, Layers DEF IInv, PlaceInv
  <1>4. pos \in DOMAIN chain /\ pos' \in Nat /\ pos' <= Len(chain)
    BY <1>1, <1>3
  <1>5. \A n \in DOMAIN chain : n > pos' <=> n > pos \/ n = pos
    BY <1>1, <1>3
  <1>6. PlaceInv'
    BY <1>1, <1>4 DEF IInv, PlaceInv
  <1>7. CauseInv'
    <2>1. \A n : Recovers(n) => Recovers(n)'
      BY <1>1, <1>5 DEF Recovers
    <2>2. QED
      BY <1>1, <2>1, ProgFrame DEF IInv, CauseInv
  <1>8. StatusInv' /\ BrokenInv'
    BY <1>1, ProgFrame DEF IInv, StatusInv, BrokenInv
  <1>9. QED
    BY <1>1, <1>2, <1>4, <1>5, <1>6, <1>7, <1>8

(* What a layer reports of a request that is over. *)
LEMMA StatusIsSent == ASSUME IInv, kind = "http", phase = "up" PROVE Sent = status
  BY DEF IInv, StatusInv, Sent

(* The access log of an HTTP server. *)
LEMMA LogHTTPKeeps == ASSUME IInv, LogHTTP PROVE IInv'
  <1>1. kind = "http" /\ Leave("log") /\ phase' = phase /\ labels' = labels
    BY DEF LogHTTP
  <1>2. /\ UNCHANGED <<kind, chain, given, prog, status, body, reqErr, skip>>
        /\ phase = "up" /\ pos \in DOMAIN chain /\ chain[pos] = "log" /\ pos' = pos - 1
        /\ ShapeInv' /\ ProgInv' /\ PlaceInv' /\ CauseInv' /\ StatusInv' /\ BrokenInv'
        /\ SkipInv' /\ HookInv'
    BY <1>1, LeaveFrame
  <1>3. \A n \in DOMAIN chain : n > pos' <=> n > pos \/ n = pos
    BY <1>1, LeaveFrame
  <1>4. pos \in Logs /\ Logs' = Logs /\ Logs \subseteq DOMAIN chain /\ pos \in Nat /\ status \in Nat
    BY <1>2, ChainFrame, Layers DEF Logs
  <1> DEFINE err == reqErr[pos] /\ status >= 500
  <1>5. \/ skip[pos] /\ lines' = lines
        \/ /\ ~skip[pos]
           /\ \E l : /\ lines' = lines \cup {l}
                     /\ l.layer = pos /\ l.status = status /\ l.err = err
    <2>1. CASE ~skip[pos] /\ status >= 500 /\ Line("error", reqErr[pos])
      <3>1. reqErr[pos] = err
        BY <2>1, <1>2 DEF IInv, PlaceInv
      <3> DEFINE l == [layer |-> pos, status |-> status, level |-> "error", err |-> reqErr[pos]]
      <3>2. lines' = lines \cup {l} /\ l.layer = pos /\ l.status = status /\ l.err = reqErr[pos]
        BY <2>1 DEF Line
      <3> HIDE DEF l
      <3>3. QED
        BY <2>1, <3>1, <3>2
    <2>2. CASE ~skip[pos] /\ status < 500 /\ Line("info", FALSE)
      <3>1. err = FALSE
        BY <2>2, <1>4
      <3> DEFINE l == [layer |-> pos, status |-> status, level |-> "info", err |-> FALSE]
      <3>2. lines' = lines \cup {l} /\ l.layer = pos /\ l.status = status /\ l.err = FALSE
        BY <2>2 DEF Line
      <3> HIDE DEF l
      <3>3. QED
        BY <2>2, <3>1, <3>2
    <2>3. QED
      BY <2>1, <2>2 DEF LogHTTP
  <1> HIDE DEF err
  <1>6. \A l \in lines' : l \in lines \/ (l.layer = pos /\ l.status = status)
    BY <1>5
  <1>7. ReportInv'
    <2>1. Sent = status /\ Sent' = Sent
      BY <1>1, <1>2, StatusIsSent DEF Sent
    <2>2. /\ \A l \in lines : l.layer \in DOMAIN chain /\ l.layer > pos' /\ l.status = Sent
          /\ \A l \in labels : l.layer \in DOMAIN chain /\ l.layer > pos' /\ l.code = Sent
      BY <1>1, <1>3 DEF IInv, ReportInv
    <2>3. pos > pos'
      BY <1>2, <1>4
    <2>4. \A l \in lines' : l.layer \in DOMAIN chain /\ l.layer > pos' /\ l.status = Sent
      BY <1>2, <1>6, <2>1, <2>2, <2>3
    <2>5. QED
      BY <1>1, <1>2, <2>1, <2>2, <2>4 DEF ReportInv
  <1>8. LinesInv'
    <2> DEFINE Wanted(n) == Told /\ (\A m \in Logs : m <= n) /\ status >= 500
    <2>1. ASSUME NEW n \in Logs
          PROVE  /\ Silenced(n)' <=> Silenced(n)
                 /\ Skipped(n)' <=> Skipped(n)
                 /\ Wanted(n)' <=> Wanted(n)
      BY <1>2, <1>4, ChainFrame, ProgFrame
    <2>2. ASSUME NEW n \in Logs, n > pos PROVE Logged(n)'
      <3>1. Logged(n)
        BY <1>1, <1>2, <2>2 DEF IInv, LinesInv
      <3>2. n # pos
        BY <1>4, <2>2, Layers
      <3>3. lines \subseteq lines' /\ \A l \in lines' : l.layer = n => l \in lines
        BY <1>5, <1>6, <3>2
      <3>4. QED
        BY <2>1, <3>1, <3>3 DEF Logged
    <2>3. ASSUME NEW n \in Logs, n = pos PROVE Logged(n)'
      <3>1. \A l \in lines : l.layer # n
        BY <1>1, <1>4, <2>3, Layers DEF IInv, ReportInv
      <3>2. skip[n] <=> Silenced(n)
        <4>1. skip[n] <=> \E m \in DOMAIN chain : chain[m] = "nolog" /\ n \in Nearest(m)
          BY <1>2, <2>3 DEF IInv, SkipInv
        <4>2. QED
          BY <4>1, SilencedBy, Layers
      <3>3. ~Skipped(n)
        BY <1>1, <1>2, <2>3 DEF IInv, CauseInv, Cause, Recovers, Skipped
      <3>4. err <=> Wanted(n)
        <4>1. reqErr[n] <=> Told /\ n \in Nearest(Len(chain) + 1)
          BY <1>2, <2>3 DEF IInv, HookInv
        <4>2. n \in Nearest(Len(chain) + 1) <=> \A m \in Logs : m <= n
          BY Innermost, Layers
        <4>3. QED
          BY <2>3, <4>1, <4>2 DEF err
      <3>5. CASE skip[n]
        <4>1. \A l \in lines' : l.layer # n
          BY <1>5, <2>3, <3>1, <3>5
        <4>2. QED
          BY <2>1, <3>2, <3>5, <4>1 DEF Logged
      <3>6. CASE ~skip[n]
        <4>1. PICK l : lines' = lines \cup {l} /\ l.layer = n /\ l.err = err
          BY <1>5, <2>3, <3>6
        <4>2. l \in lines' /\ \A k \in lines' : k.layer = n => k = l
          BY <3>1, <4>1
        <4>3. l.err = Wanted(n)'
          BY <2>1, <3>4, <4>1 DEF err
        <4>4. ~(Silenced(n)' \/ Skipped(n)')
          BY <2>1, <3>2, <3>3, <3>6
        <4>5. QED
          BY <4>1, <4>2, <4>3, <4>4 DEF Logged
      <3>7. QED
        BY <3>5, <3>6
    <2>4. QED
      BY <1>2, <1>3, <1>4, <2>2, <2>3 DEF LinesInv
  <1>9. RPCInv'
    BY <1>1, <1>2 DEF RPCInv
  <1>10. QED
    BY <1>2, <1>7, <1>8, <1>9 DEF IInv

(* An interceptor's. *)
LEMMA LogRPCKeeps == ASSUME IInv, LogRPC PROVE IInv'
  <1>1. kind = "grpc" /\ Leave("log") /\ (phase' = phase \/ (kind = "grpc" /\ phase' = "panic"))
    BY DEF LogRPC
  <1>2. /\ UNCHANGED <<kind, chain, given, prog, status, body, reqErr, skip>>
        /\ phase = "up" /\ pos \in DOMAIN chain /\ chain[pos] = "log" /\ pos' = pos - 1
        /\ ShapeInv' /\ ProgInv' /\ PlaceInv' /\ CauseInv' /\ StatusInv' /\ BrokenInv'
        /\ SkipInv' /\ HookInv'
    BY <1>1, LeaveFrame
  <1>3. \A n \in DOMAIN chain : n > pos' <=> n > pos \/ n = pos
    BY <1>1, LeaveFrame
  <1>4. pos \in Logs /\ Logs' = Logs /\ Logs \subseteq DOMAIN chain
    BY <1>2, ChainFrame DEF Logs
  <1>5. reqErr[pos] <=> ~Untold(pos)
    <2>1. reqErr[pos] <=> Told /\ pos \in Nearest(Len(chain) + 1)
      BY <1>2 DEF IInv, HookInv
    <2>2. pos \in Nearest(Len(chain) + 1) <=> \A m \in Logs : m <= pos
      BY <1>4, Innermost, Layers
    <2>3. \A m \in Logs : m <= pos <=> ~(m > pos)
      BY <1>4, Layers
    <2>4. QED
      BY <2>1, <2>2, <2>3 DEF Untold
  <1>6. \/ status = 0 /\ phase' = phase
        \/ status # 0 /\ reqErr[pos] /\ phase' = phase
        \/ status # 0 /\ ~reqErr[pos] /\ phase' = "panic"
    BY DEF LogRPC
  <1>7. RPCInv'
    <2>1. /\ ~Did("panic") /\ prog = <<>>
          /\ Done > 0 /\ given[Done].op = "return" => status = given[Done].code
          /\ status = 0 \/ \A n \in Logs : n > pos => ~Untold(n)
      BY <1>1, <1>2 DEF IInv, RPCInv
    <2>2. UNCHANGED <<kind, chain, given, prog>>
      BY <1>2
    <2>3. phase' = "up" => status = 0 \/ \A n \in Logs : n > pos' => ~Untold(n)
      BY <1>2, <1>3, <1>4, <1>5, <1>6, <2>1
    <2>4. phase' = "panic" => status # 0 /\ \E n \in Logs : Untold(n)
      BY <1>2, <1>4, <1>5, <1>6
    <2>5. QED
      BY <1>2, <1>4, <1>6, <2>1, <2>2, <2>3, <2>4, ProgFrame DEF RPCInv
  <1>8. ReportInv' /\ LinesInv'
    BY <1>1, <1>2 DEF ReportInv, LinesInv
  <1>9. QED
    BY <1>2, <1>7, <1>8 DEF IInv

(* A layer that logs nothing leaves the lines as they should be. *)
LEMMA SilentLayer ==
    ASSUME IInv, UNCHANGED <<kind, chain, given, prog, status, lines>>,
           phase = "up", phase' = "up", pos \in DOMAIN chain, chain[pos] # "log",
           \A n \in DOMAIN chain : n > pos' <=> n > pos \/ n = pos
    PROVE  /\ LinesInv'
           /\ kind = "grpc" => RPCInv'
  <1>1. /\ Logs' = Logs
        /\ \A n \in Logs : n > pos' <=> n > pos
    BY ChainFrame DEF Logs
  <1>2. ASSUME NEW n \in Logs, Logged(n) PROVE Logged(n)'
    <2>1. (Silenced(n)' <=> Silenced(n)) /\ (Skipped(n)' <=> Skipped(n)) /\ (Told' <=> Told)
      BY ChainFrame, ProgFrame
    <2>2. QED
      BY <1>1, <1>2, <2>1 DEF Logged
  <1>3. LinesInv'
    BY <1>1, <1>2 DEF IInv, LinesInv
  <1>4. ASSUME kind = "grpc" PROVE RPCInv'
    BY <1>1, <1>4, ProgFrame DEF IInv, RPCInv
  <1>5. QED
    BY <1>3, <1>4

(* The metrics. *)
LEMMA CountKeeps == ASSUME IInv, Count PROVE IInv'
  <1>1. Leave("metrics") /\ phase' = phase /\ lines' = lines
        /\ labels' = labels \cup {[layer |-> pos, code |-> Counted]}
    BY DEF Count
  <1>2. /\ UNCHANGED <<kind, chain, given, prog, status, body, reqErr, skip>>
        /\ phase = "up" /\ pos \in DOMAIN chain /\ chain[pos] = "metrics" /\ pos' = pos - 1
        /\ ShapeInv' /\ ProgInv' /\ PlaceInv' /\ CauseInv' /\ StatusInv' /\ BrokenInv'
        /\ SkipInv' /\ HookInv'
    BY <1>1, LeaveFrame
  <1>3. \A n \in DOMAIN chain : n > pos' <=> n > pos \/ n = pos
    BY <1>1, LeaveFrame
  <1>4. LinesInv' /\ (kind = "grpc" => RPCInv')
    BY <1>1, <1>2, <1>3, SilentLayer
  <1>5. RPCInv'
    BY <1>2, <1>4 DEF RPCInv
  <1>6. ReportInv'
    <2>1. SUFFICES ASSUME kind = "http" PROVE ReportInv'
      BY <1>2 DEF ReportInv
    <2>2. Sent = status /\ Sent' = Sent /\ Counted = status
      BY <1>2, <2>1, StatusIsSent DEF Sent, Counted
    <2>3. /\ \A l \in lines : l.layer \in DOMAIN chain /\ l.layer > pos' /\ l.status = Sent
          /\ \A l \in labels : l.layer \in DOMAIN chain /\ l.layer > pos' /\ l.code = Sent
      BY <1>3, <2>1 DEF IInv, ReportInv
    <2>4. pos > pos'
      BY <1>2, Layers
    <2> DEFINE label == [layer |-> pos, code |-> Counted]
    <2>5. label.layer = pos /\ label.code = Counted /\ labels' = labels \cup {label}
      BY <1>1
    <2> HIDE DEF label
    <2>6. \A l \in labels' : l.layer \in DOMAIN chain /\ l.layer > pos' /\ l.code = Sent
      BY <1>2, <2>2, <2>3, <2>4, <2>5
    <2>7. QED
      BY <1>1, <1>2, <2>2, <2>3, <2>6 DEF ReportInv
  <1>7. QED
    BY <1>2, <1>4, <1>5, <1>6 DEF IInv

(* The layers that only let an answer through. *)
LEMMA PassKeeps == ASSUME IInv, Pass PROVE IInv'
  <1>1. PICK layer \in {"nolog", "recover"} : Leave(layer)
    BY DEF Pass
  <1>2. phase' = phase /\ lines' = lines /\ labels' = labels
    BY DEF Pass, reports
  <1>3. /\ UNCHANGED <<kind, chain, given, prog, status, body, reqErr, skip>>
        /\ phase = "up" /\ pos \in DOMAIN chain /\ chain[pos] # "log" /\ pos' = pos - 1
        /\ ShapeInv' /\ ProgInv' /\ PlaceInv' /\ CauseInv' /\ StatusInv' /\ BrokenInv'
        /\ SkipInv' /\ HookInv'
    BY <1>1, <1>2, LeaveFrame
  <1>4. \A n \in DOMAIN chain : n > pos' <=> n > pos \/ n = pos
    BY <1>1, <1>2, LeaveFrame
  <1>5. LinesInv' /\ (kind = "grpc" => RPCInv')
    BY <1>2, <1>3, <1>4, SilentLayer
  <1>6. RPCInv'
    BY <1>3, <1>5 DEF RPCInv
  <1>7. ReportInv'
    <2>1. Sent' = Sent
      BY <1>3 DEF Sent
    <2>2. QED
      BY <1>2, <1>3, <1>4, <2>1 DEF IInv, ReportInv
  <1>8. QED
    BY <1>3, <1>5, <1>6, <1>7 DEF IInv

(* A panic on its way up. *)
LEMMA UnwindKeeps == ASSUME IInv, Unwind PROVE IInv'
  <1>1. /\ UNCHANGED <<kind, chain, given, prog, phase, status, body, reqErr, skip, lines, labels>>
        /\ phase = "panic" /\ pos > 0 /\ chain[pos] # "recover" /\ pos' = pos - 1
    BY DEF Unwind, reports, layers
  <1>2. ShapeInv' /\ ProgInv' /\ HookInv' /\ SkipInv'
    BY <1>1, HandlerFrame
  <1>3. Len(chain) \in Nat /\ DOMAIN chain = 1..Len(chain) /\ pos \in Nat /\ pos <= Len(chain)
    BY <1>1, Layers DEF IInv, PlaceInv
  <1>4. pos' \in Nat /\ pos' <= Len(chain) /\ \A n \in DOMAIN chain : n > pos' <=> n > pos \/ n = pos
    BY <1>1, <1>3
  <1>5. PlaceInv'
    BY <1>1, <1>4 DEF IInv, PlaceInv
  <1>6. CauseInv'
    <2>1. ASSUME kind = "http" PROVE Cause' /\ \A n \in DOMAIN chain : ~Recovers(n)'
      <3>1. Cause /\ \A n \in DOMAIN chain : ~Recovers(n)
        BY <1>1, <2>1 DEF IInv, CauseInv
      <3>2. QED
        BY <1>1, <1>4, <3>1, ProgFrame DEF Recovers
    <2>2. QED
      BY <1>1, <2>1 DEF CauseInv
  <1>7. StatusInv' /\ BrokenInv'
    BY <1>1, ProgFrame DEF IInv, StatusInv, BrokenInv
  <1>8. ReportInv' /\ LinesInv'
    BY <1>1 DEF IInv, ReportInv, LinesInv
  <1>9. RPCInv'
    BY <1>1, ProgFrame, ChainFrame DEF IInv, RPCInv
  <1>10. QED
    BY <1>2, <1>5, <1>6, <1>7, <1>8, <1>9 DEF IInv

(* A panic ends at a recovery. *)
LEMMA RecoverKeeps == ASSUME IInv, Recover PROVE IInv'
  <1>1. /\ UNCHANGED <<kind, chain, given, prog, body, reqErr, skip, lines, labels>>
        /\ phase = "panic" /\ phase' = "up" /\ pos > 0 /\ chain[pos] = "recover" /\ pos' = pos - 1
        /\ status' = IF status = 0 THEN 500 ELSE status
    BY DEF Recover, reports, layers, WriteHeader
  <1>2. ShapeInv' /\ ProgInv' /\ HookInv' /\ SkipInv'
    BY <1>1, HandlerFrame
  <1>3. Len(chain) \in Nat /\ DOMAIN chain = 1..Len(chain) /\ pos \in Nat /\ pos <= Len(chain)
    BY <1>1, Layers DEF IInv, PlaceInv
  <1>4. /\ pos' \in Nat /\ pos' <= Len(chain) /\ pos \in DOMAIN chain
        /\ \A n \in DOMAIN chain : n > pos' <=> n > pos \/ n = pos
    BY <1>1, <1>3
  <1>5. kind = "http"
    <2>1. chain \in Seq(RPCLayers) => chain[pos] \in RPCLayers
      BY <1>4
    <2>2. "recover" \notin RPCLayers
      BY DEF RPCLayers
    <2>3. QED
      BY <1>1, <2>1, <2>2 DEF IInv, ShapeInv
  <1>6. status \in Nat /\ status' \in Nat /\ status' # 0
    <2>1. status \in Nat
      BY Layers
    <2>2. QED
      BY <1>1, <2>1
  <1>7. Cause /\ \A n \in DOMAIN chain : ~Recovers(n)
    BY <1>1, <1>5 DEF IInv, CauseInv
  <1>8. given # <<>>
    <2>1. given = <<>> => \A op : ~Did(op)
      BY Layers DEF Did
    <2>2. QED
      BY <1>7, <2>1 DEF Cause
  <1>9. PlaceInv'
    BY <1>1, <1>4, <1>6 DEF IInv, PlaceInv
  <1>10. CauseInv'
    <2>1. \E n \in DOMAIN chain : Recovers(n)'
      BY <1>1, <1>4 DEF Recovers
    <2>2. QED
      BY <1>1, <2>1 DEF CauseInv
  <1>11. StatusInv'
    BY <1>1, <1>6, <1>8 DEF StatusInv
  <1>12. ReportInv'
    BY <1>1, <1>5 DEF IInv, ReportInv
  <1>13. BrokenInv'
    <2>1. SUFFICES ASSUME RenderFails(given)
                   PROVE  status' = 500 /\ body = IF Done = 4 THEN <<"error">> ELSE <<>>
      BY <1>1, <2>1, ProgFrame DEF BrokenInv
    <2>2. /\ Done <= 2 => status = 0
          /\ Done >= 3 => status = 500
          /\ body = IF Done = 4 THEN <<"error">> ELSE <<>>
      BY <1>1, <1>5, <2>1 DEF IInv, BrokenInv
    <2>3. Done \in Int
      BY Layers DEF Done
    <2>4. QED
      BY <1>1, <2>2, <2>3
  <1>14. LinesInv'
    <2>1. ASSUME NEW n \in Logs, n > pos' PROVE Logged(n)'
      <3>1. n \in DOMAIN chain /\ n \in Nat /\ n > pos
        BY <1>1, <1>3, <1>4, <2>1 DEF Logs
      <3>2. Did("panic")
        BY <1>7, <2>1 DEF Cause
      <3>3. Skipped(n)
        BY <1>3, <1>7, <3>1, <3>2 DEF Skipped, Recovers
      <3>4. Skipped(n)'
        BY <1>1, <3>3, ProgFrame
      <3>5. lines' = {}
        BY <1>1, <1>5 DEF IInv, ReportInv
      <3>6. QED
        BY <3>4, <3>5 DEF Logged
    <2>2. QED
      BY <1>1, <2>1, ChainFrame DEF LinesInv
  <1>15. RPCInv'
    BY <1>1, <1>5 DEF RPCInv
  <1>16. QED
    BY <1>2, <1>9, <1>10, <1>11, <1>12, <1>13, <1>14, <1>15 DEF IInv

(* The server's part. *)
LEMMA FinishKeeps == ASSUME IInv, Finish PROVE IInv'
  <1>1. /\ UNCHANGED <<kind, chain, given, prog, pos, body, reqErr, skip, lines, labels>>
        /\ pos = 0
        /\ \/ phase = "up" /\ phase' = "done"
           \/ phase = "panic" /\ phase' = "aborted"
        /\ status' = IF kind = "http" /\ phase = "up" /\ status = 0 THEN 200 ELSE status
    BY DEF Finish, reports, layers
  <1>2. ShapeInv' /\ ProgInv' /\ HookInv' /\ SkipInv'
    BY <1>1, HandlerFrame
  <1>3. status \in Nat /\ (status' = status \/ (kind = "http" /\ phase = "up" /\ status = 0 /\ status' = 200))
    BY <1>1, Layers
  <1>4. PlaceInv'
    <2>1. status' \in Nat
      BY <1>3
    <2>2. QED
      BY <1>1, <2>1 DEF IInv, PlaceInv
  <1>5. \A n : Recovers(n)' <=> Recovers(n)
    BY <1>1 DEF Recovers
  <1>6. CauseInv'
    BY <1>1, <1>5, ProgFrame DEF IInv, CauseInv
  <1>7. kind = "http" /\ phase = "up" /\ status = 0 => given = <<>>
    BY DEF IInv, StatusInv
  <1>8. StatusInv'
    <2>1. status # 0 => status' # 0
      BY <1>3
    <2>2. kind = "http" /\ phase = "panic" => given # <<>>
      <3>1. given = <<>> => \A op : ~Did(op)
        BY Layers DEF Did
      <3>2. QED
        BY <3>1 DEF IInv, CauseInv, Cause
    <2>3. QED
      BY <1>1, <2>1, <2>2, ProgFrame DEF IInv, StatusInv
  <1>9. Sent' = Sent \/ kind # "http" \/ phase = "panic"
    BY <1>1, <1>3, <1>7 DEF Sent
  <1>10. ReportInv'
    BY <1>1, <1>9 DEF IInv, ReportInv
  <1>11. BrokenInv'
    <2>1. RenderFails(given) => given # <<>>
      <3>1. RenderFails(given) => Len(given) = 4
        BY Zenon DEF RenderFails
      <3>2. given = <<>> => Len(given) = 0
        OBVIOUS
      <3>3. QED
        BY <3>1, <3>2
    <2>2. RenderFails(given) /\ kind = "http" => status' = status
      BY <1>3, <1>7, <2>1
    <2>3. QED
      BY <1>1, <2>2, ProgFrame DEF IInv, BrokenInv
  <1>12. LinesInv'
    <2>1. ASSUME kind = "http", phase = "up", NEW n \in Logs, n > pos PROVE Logged(n)'
      <3>1. Logged(n)
        BY <2>1 DEF IInv, LinesInv
      <3>2. status' >= 500 <=> status >= 500
        BY <1>3
      <3>3. (Silenced(n)' <=> Silenced(n)) /\ (Skipped(n)' <=> Skipped(n)) /\ (Told' <=> Told) /\ Logs' = Logs
        BY <1>1, ChainFrame, ProgFrame
      <3>4. QED
        BY <1>1, <3>1, <3>2, <3>3 DEF Logged
    <2>2. QED
      BY <1>1, <2>1, ChainFrame DEF LinesInv
  <1>13. RPCInv'
    <2>1. kind = "grpc" => status' = status
      BY <1>3
    <2>2. QED
      BY <1>1, <2>1, ProgFrame, ChainFrame DEF IInv, RPCInv
  <1>14. QED
    BY <1>2, <1>4, <1>6, <1>8, <1>10, <1>11, <1>12, <1>13 DEF IInv

(* A step that changes nothing. *)
LEMMA StutterKeeps == ASSUME IInv, UNCHANGED vars PROVE IInv'
  <1>1. /\ UNCHANGED <<kind, chain, given, prog, pos, phase, status, body, reqErr, skip>>
        /\ UNCHANGED <<lines, labels>>
    BY DEF vars, layers, reports
  <1>2. ShapeInv' /\ ProgInv' /\ HookInv'
    BY <1>1, HandlerFrame
  <1>3. SkipInv'
    BY <1>1, ChainFrame DEF IInv, SkipInv
  <1>4. PlaceInv'
    BY <1>1 DEF IInv, PlaceInv
  <1>5. CauseInv'
    BY <1>1, ProgFrame DEF IInv, CauseInv, Recovers
  <1>6. StatusInv' /\ BrokenInv'
    BY <1>1, ProgFrame DEF IInv, StatusInv, BrokenInv
  <1>7. ReportInv'
    BY <1>1 DEF IInv, ReportInv, Sent
  <1>8. LinesInv'
    BY <1>1, ProgFrame, ChainFrame DEF IInv, LinesInv, Logged
  <1>9. RPCInv'
    BY <1>1, ProgFrame, ChainFrame DEF IInv, RPCInv
  <1>10. QED
    BY <1>2, <1>3, <1>4, <1>5, <1>6, <1>7, <1>8, <1>9 DEF IInv

(* The invariant is kept by every step. *)
LEMMA Inductive == Spec => []IInv
  <1>1. Init => IInv
    BY InitIInv
  <1>2. IInv /\ [Next]_vars => IInv'
    <2> SUFFICES ASSUME IInv, [Next]_vars PROVE IInv'
      OBVIOUS
    <2>1. CASE Enter
      BY <2>1, EnterKeeps
    <2>2. CASE Reach
      BY <2>2, ReachKeeps
    <2>3. CASE Handle
      BY <2>3, HandleKeeps
    <2>4. CASE Answer
      BY <2>4, AnswerKeeps
    <2>5. CASE LogHTTP
      BY <2>5, LogHTTPKeeps
    <2>6. CASE LogRPC
      BY <2>6, LogRPCKeeps
    <2>7. CASE Count
      BY <2>7, CountKeeps
    <2>8. CASE Pass
      BY <2>8, PassKeeps
    <2>9. CASE Unwind
      BY <2>9, UnwindKeeps
    <2>10. CASE Recover
      BY <2>10, RecoverKeeps
    <2>11. CASE Finish
      BY <2>11, FinishKeeps
    <2>12. CASE UNCHANGED vars
      BY <2>12, StutterKeeps
    <2>13. QED
      BY <2>1, <2>2, <2>3, <2>4, <2>5, <2>6, <2>7, <2>8, <2>9, <2>10, <2>11, <2>12 DEF Next
  <1>3. QED
    BY <1>1, <1>2, PTL DEF Spec

-----------------------------------------------------------------------------
(* What follows.                                                           *)

(* The access log, the metrics and the client agree on the status of every *)
(* request that is answered, through any layers and any handler, however   *)
(* often it is written, recovered from or interrupted                      *)
(* (LoggingMiddleware, MetricsMiddleware, RecoveryMiddleware).             *)
THEOREM StatusesAgree == Spec => []OneStatus
  <1>1. IInv => OneStatus
    BY DEF IInv, ReportInv, OneStatus, Sent
  <1>2. QED
    BY <1>1, Inductive, PTL

(* Every logging layer that is neither silenced nor passed by a panic has  *)
(* one line of an answered request, and the handler's error is in the      *)
(* innermost layer's line just when the status is a server error           *)
(* (LoggingMiddleware, NoAccessLogMiddleware, GetLogErrHook).              *)
THEOREM LinesAreWhole == Spec => []ErrorIsLogged
  <1>1. ASSUME IInv, phase = "done", kind = "http", NEW n \in Logs
        PROVE  LET here == {l \in lines : l.layer = n}
                   innermost == \A m \in Logs : m <= n
               IN  IF Silenced(n) \/ Skipped(n) THEN here = {}
                   ELSE \E l \in here :
                           here = {l} /\ l.err = (Told /\ innermost /\ status >= 500)
    <2>1. n > pos
      <3>1. n \in Nat \ {0}
        BY <1>1, Layers
      <3>2. pos = 0
        BY <1>1 DEF IInv, PlaceInv
      <3>3. QED
        BY <3>1, <3>2
    <2>2. Logged(n)
      BY <1>1, <2>1 DEF IInv, LinesInv
    <2> DEFINE here == {l \in lines : l.layer = n}
    <2>3. CASE Silenced(n) \/ Skipped(n)
      <3>1. here = {}
        BY <2>2, <2>3 DEF Logged
      <3>2. QED
        BY <2>3, <3>1
    <2>4. CASE ~(Silenced(n) \/ Skipped(n))
      <3>1. PICK l \in lines :
               /\ l.layer = n
               /\ \A k \in lines : k.layer = n => k = l
               /\ l.err = (Told /\ (\A m \in Logs : m <= n) /\ status >= 500)
        BY <2>2, <2>4 DEF Logged
      <3>2. l \in here /\ here = {l}
        BY <3>1
      <3>3. QED
        BY <2>4, <3>1, <3>2
    <2>5. QED
      BY <2>3, <2>4
  <1>2. IInv => ErrorIsLogged
    BY <1>1 DEF ErrorIsLogged
  <1>3. QED
    BY <1>2, Inductive, PTL

(* What does not render is answered with 500 and no part of it (JSON,      *)
(* TemplateHTML, healthCheckHandlerHTML).                                  *)
THEOREM FailuresAre500 == Spec => []RenderFailureIs500
  <1>1. ASSUME IInv, phase = "done", Did("broken")
        PROVE  status = 500 /\ body \in {<<>>, <<"error">>}
    <2>1. PICK i \in 1..Len(given) : given[i].op = "broken"
      <3>1. PICK i \in 1..Len(given) - Len(prog) : given[i].op = "broken"
        BY <1>1 DEF Did
      <3>2. i \in 1..Len(given)
        BY <1>1, Layers
      <3>3. QED
        BY <3>1, <3>2
    <2>2. kind = "http" /\ RenderFails(given)
      <3>1. kind # "grpc"
        BY <1>1, <2>1 DEF IInv, ShapeInv, RPCOps
      <3>2. QED
        BY <1>1, <2>1, <3>1, HTTPSteps DEF IInv, ShapeInv
    <2>3. QED
      BY <1>1, <2>2 DEF IInv, BrokenInv
  <1>2. IInv => RenderFailureIs500
    BY <1>1 DEF RenderFailureIs500
  <1>3. QED
    BY <1>2, Inductive, PTL

(* HTTP and gRPC tell a client of the same error the same thing            *)
(* (errHTTPResponder, errGRPCResponder, LoggingInterceptor, which keeps    *)
(* what the method returned).                                              *)
THEOREM VerdictsAgree == Spec => []SameVerdict
  <1>1. ASSUME IInv, phase = "done", NEW err \in SUBSET Sentinels, given \in ErrorGRPC(err)
        PROVE  status = CodeOf(err)
    <2>1. Len(given) = 2 /\ given[2].op = "return" /\ given[2].code = CodeOf(err)
      BY <1>1 DEF ErrorGRPC, Hook, Return
    <2>2. kind = "grpc"
      <3>1. 2 \in 1..Len(given)
        BY <2>1
      <3>2. kind # "http"
        BY <1>1, <2>1, <3>1, HTTPSteps DEF IInv, ShapeInv
      <3>3. QED
        BY <1>1, <3>2 DEF IInv, ShapeInv
    <2>3. prog = <<>>
      BY <1>1, <2>2 DEF IInv, RPCInv
    <2>4. Done = 2
      BY <2>1, <2>3 DEF Done
    <2>5. QED
      BY <1>1, <2>1, <2>2, <2>4 DEF IInv, RPCInv
  <1>2. IInv => SameVerdict
    BY <1>1, Verdicts DEF SameVerdict
  <1>3. QED
    BY <1>2, Inductive, PTL

(* A request is broken off by nothing but a panic that is not recovered:   *)
(* the handler's own, that of an error hook that is not set, and that of   *)
(* an interceptor for an error it was not told                             *)
(* (RecoveryMiddleware, healthCheckHandler, LoggingInterceptor).           *)
THEOREM BreaksAreKnown == Spec => []AbortsAreKnown
  <1>1. ASSUME IInv, Ended, kind = "http"
        PROVE  phase = "aborted" <=> Cause /\ \A n \in DOMAIN chain : chain[n] # "recover"
    <2>1. pos = 0 /\ \A n \in DOMAIN chain : n > pos
      <3>1. pos = 0
        BY <1>1 DEF IInv, PlaceInv, Ended
      <3>2. DOMAIN chain = 1..Len(chain) /\ Len(chain) \in Nat
        BY <1>1, Layers
      <3>3. QED
        BY <3>1, <3>2
    <2>2. QED
      BY <1>1, <2>1 DEF IInv, CauseInv, Recovers, Ended
  <1>2. ASSUME IInv, Ended, kind # "http"
        PROVE  phase = "aborted" <=>
                  \/ Did("panic")
                  \/ status # 0 /\ \E n \in Logs : ~Told \/ \E m \in Logs : m > n
    <2>1. kind = "grpc"
      BY <1>2 DEF IInv, ShapeInv
    <2>2. pos = 0 /\ \A n \in Logs : n > pos
      <3>1. pos = 0
        BY <1>2 DEF IInv, PlaceInv, Ended
      <3>2. Logs \subseteq 1..Len(chain) /\ Len(chain) \in Nat
        BY <1>2, Layers
      <3>3. QED
        BY <3>1, <3>2
    <2>3. QED
      BY <1>2, <2>1, <2>2 DEF IInv, RPCInv, Untold, Ended
  <1>3. IInv => AbortsAreKnown
    BY <1>1, <1>2 DEF AbortsAreKnown, Cause
  <1>4. QED
    BY <1>3, Inductive, PTL
=============================================================================

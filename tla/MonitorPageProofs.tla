------------------------- MODULE MonitorPageProofs -------------------------
(***************************************************************************)
(* Proofs about the page minerMonitor.cgi, for any number of clicks and    *)
(* any forms: the types, that each request's handlers are called once, and *)
(* that a page which comes back because an answer came shows what was      *)
(* saved.                                                                  *)
(***************************************************************************)
EXTENDS MonitorPage, TLAPS

Parts == [form : Forms, part : {"first", "rest"}]

\* The file begins with the first part of a form, and has no other.
FileInv ==
  /\ file \in Seq(Parts) /\ file # <<>>
  /\ \A k \in 1 .. Len(file) : file[k].part = "first" <=> k = 1

PageTypes ==
  /\ cgi \in [Reqs -> [at : {"none", "truncate", "append", "restart", "ended"}, form : Forms]]
  /\ page \in {"up", "leaving", "away"} /\ ant_data \in Forms \cup {Broken}
  /\ jqXHR \in [Reqs -> [state : 0 .. 2, timer : BOOLEAN, callback : BOOLEAN,
                         deferred : {"pending", "resolved", "rejected"}]]
  /\ cause \in Reqs \cup {0} /\ handled \in [Reqs -> Nat] /\ crowded \subseteq Reqs

\* A request has a timer only while it has a callback, a callback only while it
\* is sent, and was handled if and only if it is done.
RequestInv ==
  \A r \in Reqs :
    /\ cgi[r].at = "none" => jqXHR[r].state = 0
    /\ jqXHR[r].callback => jqXHR[r].state = 1
    /\ jqXHR[r].timer => jqXHR[r].callback
    /\ handled[r] = IF jqXHR[r].state = 2 THEN 1 ELSE 0

TypeInv == FileInv /\ PageTypes /\ RequestInv

Writing(r) == cgi[r].at \in {"truncate", "append", "restart"}

\* A request that met no other is alone, and the file has what it has written.
AloneInv ==
  \A r \in Underway \ crowded :
    /\ Underway = {r}
    /\ cgi[r].at = "append" => file = <<Part(cgi[r].form, "first")>>
    /\ cgi[r].at \in {"restart", "ended"} => file = Whole(cgi[r].form)

\* While the page is being loaded after the answer of such a request, its form
\* is in the file and nobody is writing.
LeaveInv ==
  page # "up" /\ cause \in Reqs \ crowded =>
    /\ cgi[cause].at = "ended" /\ file = Whole(cgi[cause].form)
    /\ \A r \in Reqs : ~ Writing(r)

PageInv == TypeInv /\ AloneInv /\ LeaveInv

-----------------------------------------------------------------------------
(* The types, and one call of a handler *)

\* The part of a form that is written.
LEMMA PartTypes ==
  ASSUME NEW form \in Forms, NEW n \in {"first", "rest"}
  PROVE  Part(form, n) \in Parts /\ Part(form, n).part = n /\ Part(form, n).form = form
BY DEF Part, Parts

\* The types hold at the start.
LEMMA TypeInvInit == Init => TypeInv
<1> SUFFICES ASSUME Init PROVE TypeInv
  OBVIOUS
<1>1. file = <<Part(First, "first"), Part(First, "rest")>>
  BY DEF Init, Whole
<1>2. FileInv
  BY <1>1, PartTypes, FormAssumption DEF FileInv
<1>3. PageTypes
  BY FormAssumption, ClickAssumption DEF Init, PageTypes, NoCgi, NotSent
<1>4. RequestInv
  BY DEF Init, RequestInv, NoCgi, NotSent
<1> QED
  BY <1>2, <1>3, <1>4 DEF TypeInv

\* One more request done, by done's last lines.
LEMMA DoneTypes ==
  ASSUME TypeInv, NEW r \in Reqs, NEW x, NEW outcome \in {"resolved", "rejected"},
         x.state = 1, ~ x.callback,
         x \in [state : 0 .. 2, timer : BOOLEAN, callback : BOOLEAN,
                deferred : {"pending", "resolved", "rejected"}],
         jqXHR[r].state = 1,
         Done(r, x, outcome), UNCHANGED <<server, ant_data>>,
         crowded' \subseteq Reqs
  PROVE  TypeInv'
<1>1. FileInv'
  BY DEF TypeInv, FileInv, server
<1> DEFINE y == Settled([x EXCEPT !.state = 2, !.timer = FALSE], outcome)
<1>a. PICK d \in {"pending", "resolved", "rejected"} :
          y = [state |-> 2, timer |-> FALSE, callback |-> x.callback, deferred |-> d]
  <2> DEFINE z == [x EXCEPT !.state = 2, !.timer = FALSE]
             d == IF z.deferred = "pending" THEN outcome ELSE z.deferred
  <2>1. z = [state |-> 2, timer |-> FALSE, callback |-> x.callback, deferred |-> x.deferred]
    <3> DEFINE w == [x EXCEPT !.state = 2]
    <3>1. w = [state |-> 2, timer |-> x.timer, callback |-> x.callback, deferred |-> x.deferred]
      OBVIOUS
    <3>2. z = [w EXCEPT !.timer = FALSE]
      OBVIOUS
    <3> HIDE DEF w, z
    <3> QED
      BY <3>1, <3>2
  <2>2. z.deferred = x.deferred /\ x.deferred \in {"pending", "resolved", "rejected"}
    BY <2>1
  <2>3. y = [z EXCEPT !.deferred = d]
    BY DEF Settled
  <2> HIDE DEF z
  <2>4. d \in {"pending", "resolved", "rejected"}
    BY <2>2
  <2> HIDE DEF d, y
  <2>5. y = [state |-> 2, timer |-> FALSE, callback |-> x.callback, deferred |-> d]
    BY <2>1, <2>3
  <2> QED
    BY <2>4, <2>5
<1>b. x.callback \in BOOLEAN /\ FALSE \in BOOLEAN
  OBVIOUS
<1>2. /\ y \in [state : 0 .. 2, timer : BOOLEAN, callback : BOOLEAN,
                deferred : {"pending", "resolved", "rejected"}]
      /\ y.state = 2 /\ ~ y.timer /\ ~ y.callback
  <2> HIDE DEF y
  <2> QED
    BY <1>a, <1>b
<1>3. /\ jqXHR' = [jqXHR EXCEPT ![r] = y]
      /\ page' = "leaving" /\ cause' = r
      /\ handled' = [handled EXCEPT ![r] = @ + 1]
      /\ cgi' = cgi /\ ant_data' = ant_data
  BY DEF Done, Handler, server
<1> HIDE DEF y
<1>4. PageTypes'
  BY <1>2, <1>3 DEF TypeInv, PageTypes
<1>5. RequestInv'
  <2> SUFFICES ASSUME NEW q \in Reqs
               PROVE  /\ cgi'[q].at = "none" => jqXHR'[q].state = 0
                      /\ jqXHR'[q].callback => jqXHR'[q].state = 1
                      /\ jqXHR'[q].timer => jqXHR'[q].callback
                      /\ handled'[q] = IF jqXHR'[q].state = 2 THEN 1 ELSE 0
    BY DEF RequestInv
  <2>1. CASE q = r
    BY <1>2, <1>3, <2>1 DEF TypeInv, PageTypes, RequestInv
  <2>2. CASE q # r
    BY <1>3, <2>2 DEF TypeInv, PageTypes, RequestInv
  <2> QED
    BY <2>1, <2>2
<1> QED
  BY <1>1, <1>4, <1>5 DEF TypeInv

\* A click keeps the types.
LEMMA TypeSubmit ==
  ASSUME TypeInv, NEW r \in Reqs, NEW form \in Forms, Submit(r, form)
  PROVE  TypeInv'
<1> USE DEF Submit
<1>1. FileInv'
  BY DEF TypeInv, FileInv
<1>2. cgi[r].at = "none"
  BY DEF Reqs, TypeInv, PageTypes
<1>3. PageTypes'
  BY DEF TypeInv, PageTypes, Sent, Underway
<1>4. RequestInv'
  <2> SUFFICES ASSUME NEW q \in Reqs
               PROVE  /\ cgi'[q].at = "none" => jqXHR'[q].state = 0
                      /\ jqXHR'[q].callback => jqXHR'[q].state = 1
                      /\ jqXHR'[q].timer => jqXHR'[q].callback
                      /\ handled'[q] = IF jqXHR'[q].state = 2 THEN 1 ELSE 0
    BY DEF RequestInv
  <2>1. CASE q = r
    BY <1>2, <2>1 DEF TypeInv, PageTypes, RequestInv, Sent
  <2>2. CASE q # r
    BY <2>2 DEF TypeInv, PageTypes, RequestInv
  <2> QED
    BY <2>1, <2>2
<1> QED
  BY <1>1, <1>3, <1>4 DEF TypeInv

\* So does the transport's callback.
LEMMA TypeResponse ==
  ASSUME TypeInv, NEW r \in Reqs, Response(r)
  PROVE  TypeInv'
<1>1. PICK lost \in BOOLEAN :
        /\ Done(r, [jqXHR[r] EXCEPT !.callback = FALSE], IF lost THEN "rejected" ELSE Converted)
        /\ lost => crowded' = crowded \cup {r}
        /\ ~ lost => UNCHANGED crowded
  BY DEF Response
<1>2. jqXHR[r].state = 1
  BY DEF Response, TypeInv, RequestInv
<1>3. crowded' \subseteq Reqs
  BY <1>1 DEF TypeInv, PageTypes
<1>4. (IF lost THEN "rejected" ELSE Converted) \in {"resolved", "rejected"}
  BY DEF Converted
<1> DEFINE x == [jqXHR[r] EXCEPT !.callback = FALSE]
<1>5. /\ x.state = 1 /\ ~ x.callback
      /\ x \in [state : 0 .. 2, timer : BOOLEAN, callback : BOOLEAN,
                deferred : {"pending", "resolved", "rejected"}]
  BY <1>2 DEF TypeInv, PageTypes
<1>6. UNCHANGED <<server, ant_data>>
  BY DEF Response
<1> HIDE DEF x
<1>7. Done(r, x, IF lost THEN "rejected" ELSE Converted)
  BY <1>1 DEF x
<1> QED
  BY <1>2, <1>3, <1>4, <1>5, <1>6, <1>7, DoneTypes

\* So does the timer.
LEMMA TypeTimeout ==
  ASSUME TypeInv, NEW r \in Reqs, Timeout(r)
  PROVE  TypeInv'
<1> DEFINE x == [jqXHR[r] EXCEPT !.timer = FALSE, !.callback = FALSE]
<1>1. jqXHR[r].state = 1
  BY DEF Timeout, TypeInv, RequestInv
<1>2. /\ x.state = 1 /\ ~ x.callback
      /\ x \in [state : 0 .. 2, timer : BOOLEAN, callback : BOOLEAN,
                deferred : {"pending", "resolved", "rejected"}]
  BY <1>1 DEF TypeInv, PageTypes
<1>3. Done(r, x, "rejected") /\ crowded' = crowded \cup {r} /\ UNCHANGED <<server, ant_data>>
  BY DEF Timeout
<1>4. crowded' \subseteq Reqs
  BY <1>3 DEF TypeInv, PageTypes
<1> HIDE DEF x
<1> QED
  BY <1>1, <1>2, <1>3, <1>4, DoneTypes

\* So does leaving and loading the page.
LEMMA TypeBrowser == TypeInv /\ (Unload \/ UserReloads \/ Load) => TypeInv'
<1> SUFFICES ASSUME TypeInv, Unload \/ UserReloads \/ Load
             PROVE  TypeInv'
  OBVIOUS
<1>1. \A q \in Reqs :
        /\ Gone(jqXHR[q]) \in [state : 0 .. 2, timer : BOOLEAN, callback : BOOLEAN,
                               deferred : {"pending", "resolved", "rejected"}]
        /\ Gone(jqXHR[q]).state = jqXHR[q].state
        /\ ~ Gone(jqXHR[q]).timer /\ ~ Gone(jqXHR[q]).callback
  BY DEF Gone, TypeInv, PageTypes
<1>2. FileInv'
  BY DEF TypeInv, FileInv, Unload, UserReloads, Load, server
<1>3. CASE Unload \/ UserReloads
  <2>1. /\ jqXHR' = [q \in Reqs |-> Gone(jqXHR[q])]
        /\ page' = "away" /\ cause' \in {cause, 0}
        /\ cgi' = cgi /\ ant_data' = ant_data /\ handled' = handled /\ crowded' = crowded
    BY <1>3 DEF Unload, UserReloads, server, history
  <2>2. PageTypes'
    BY <1>1, <2>1 DEF TypeInv, PageTypes
  <2>3. RequestInv'
    BY <1>1, <2>1 DEF TypeInv, RequestInv
  <2> QED
    BY <1>2, <2>2, <2>3 DEF TypeInv
<1>4. CASE Load
  <2>1. /\ page' = "up" /\ cgi' = cgi /\ jqXHR' = jqXHR
        /\ cause' = cause /\ handled' = handled /\ crowded' = crowded
    BY <1>4 DEF Load, server, history
  <2>2. file[1] \in Parts
    BY DEF TypeInv, FileInv
  <2>3. ant_data' \in Forms \cup {Broken}
    BY <1>4, <2>2 DEF Load, Parts
  <2> QED
    BY <1>2, <2>1, <2>3 DEF TypeInv, PageTypes, RequestInv
<1> QED
  BY <1>3, <1>4

\* So does a step of the CGI.
LEMMA TypeCgi ==
  ASSUME TypeInv, NEW r \in Reqs, CgiSteps(r)
  PROVE  TypeInv'
<1>1. /\ UNCHANGED <<page, ant_data, jqXHR, history>>
      /\ cgi[r].at # "none"
      /\ \E at \in {"append", "restart", "ended"} : cgi' = [cgi EXCEPT ![r].at = at]
  BY DEF CgiSteps, CgiTruncates, CgiAppends, CgiEnds
<1>2. PageTypes'
  BY <1>1 DEF TypeInv, PageTypes, history
<1>3. RequestInv'
  BY <1>1 DEF TypeInv, PageTypes, RequestInv, history
<1>4. cgi[r].form \in Forms
  BY DEF TypeInv, PageTypes
<1>5. FileInv'
  <2>1. CASE CgiTruncates(r)
    BY <1>4, <2>1, PartTypes DEF CgiTruncates, FileInv
  <2>2. CASE CgiAppends(r)
    <3>1. file' = Append(file, Part(cgi[r].form, "rest"))
      BY <2>2 DEF CgiAppends
    <3>2. Part(cgi[r].form, "rest") \in Parts /\ Part(cgi[r].form, "rest").part # "first"
      BY <1>4, PartTypes
    <3> QED
      BY <3>1, <3>2 DEF TypeInv, FileInv
  <2>3. CASE CgiEnds(r)
    BY <2>3 DEF CgiEnds, TypeInv, FileInv
  <2> QED
    BY <2>1, <2>2, <2>3 DEF CgiSteps
<1> QED
  BY <1>2, <1>3, <1>5 DEF TypeInv

\* Every step keeps the types.
LEMMA TypeInvStep == TypeInv /\ [Next]_vars => TypeInv'
<1>1. TypeInv /\ UNCHANGED vars => TypeInv'
  BY DEF TypeInv, FileInv, PageTypes, RequestInv, vars, server, history
<1> QED
  BY <1>1, TypeSubmit, TypeResponse, TypeTimeout, TypeBrowser, TypeCgi DEF Next

\* The types of the page, its requests and the CGI, and that the file begins
\* with the first line of one form however the scripts of several clicks mix.
THEOREM PageTypesHold == Spec => []TypeOK
<1>1. TypeInv => TypeOK
  <2> SUFFICES ASSUME TypeInv PROVE TypeOK
    OBVIOUS
  <2>1. DOMAIN file = 1 .. Len(file) /\ Len(file) \in Nat /\ Len(file) >= 1
    BY DEF TypeInv, FileInv
  <2>2. \A i \in DOMAIN file : file[i] \in [form : Forms, part : {"first", "rest"}]
    <3>1. file \in Seq(Parts)
      BY DEF TypeInv, FileInv
    <3>2. \A i \in 1 .. Len(file) : file[i] \in Parts
      BY <3>1
    <3> QED
      BY <2>1, <3>2 DEF Parts
  <2>3. \A i \in DOMAIN file : file[i].part = "first" <=> i = 1
    BY <2>1 DEF TypeInv, FileInv
  <2>4. 1 \in DOMAIN file
    BY <2>1
  <2>5. {i \in DOMAIN file : file[i].part = "first"} = {1}
    BY <2>3, <2>4
  <2> QED
    BY <2>2, <2>5 DEF TypeInv, PageTypes, TypeOK
<1> QED
  BY <1>1, TypeInvInit, TypeInvStep, PTL DEF Spec

\* The answer, a lost connection and the timer together call the handlers of a
\* request once.
THEOREM HandledOnce == Spec => []OneHandler
<1>1. TypeInv => OneHandler
  BY DEF TypeInv, RequestInv, OneHandler
<1> QED
  BY <1>1, TypeInvInit, TypeInvStep, PTL DEF Spec

-----------------------------------------------------------------------------
(* What the page shows *)

\* Where a step starts nothing and takes nothing back, who is alone stays so.
LEMMA AloneKept ==
  ASSUME AloneInv, Underway' \subseteq Underway, crowded \subseteq crowded',
         UNCHANGED server
  PROVE  AloneInv'
<1> SUFFICES ASSUME NEW q \in Underway' \ crowded'
             PROVE  /\ Underway' = {q}
                    /\ cgi'[q].at = "append" => file' = <<Part(cgi'[q].form, "first")>>
                    /\ cgi'[q].at \in {"restart", "ended"} => file' = Whole(cgi'[q].form)
  BY DEF AloneInv, Whole, Part
<1>1. q \in Underway \ crowded
  OBVIOUS
<1> QED
  BY <1>1 DEF AloneInv, server

\* Two parts, written one after the other.
LEMMA TwoParts ==
  ASSUME NEW S, NEW a \in S, NEW b \in S
  PROVE  Append(<<a>>, b) = <<a, b>>
<1> DEFINE s == Append(<<a>>, b)
           t == <<a, b>>
<1>1. <<a>> \in Seq(S) /\ Len(<<a>>) = 1
  OBVIOUS
<1>2. s \in Seq(S) /\ Len(s) = 2 /\ s[1] = a /\ s[2] = b
  BY <1>1
<1>3. t \in Seq(S) /\ Len(t) = 2 /\ t[1] = a /\ t[2] = b
  OBVIOUS
<1> HIDE DEF s, t
<1>4. \A n \in 1 .. Len(s) : s[n] = t[n]
  BY <1>2, <1>3
<1>5. s = t
  BY <1>2, <1>3, <1>4
<1> QED
  BY <1>5 DEF s, t

\* The request that makes the page be left is under way.
LEMMA LeavingIsUnderway ==
  ASSUME page = "leaving", cause \in Reqs
  PROVE  cause \in Underway
BY DEF Underway

\* The invariant holds at the start.
LEMMA PageInvInit == Init => PageInv
<1> SUFFICES ASSUME Init PROVE PageInv
  OBVIOUS
<1>1. Underway = {}
  BY DEF Init, Underway, NoCgi, NotSent
<1>2. AloneInv
  BY <1>1 DEF AloneInv
<1>3. LeaveInv
  BY DEF Init, LeaveInv
<1> QED
  BY <1>2, <1>3, TypeInvInit DEF PageInv

\* A click while nothing is underway is alone; any other crowds what is underway.
LEMMA PageSubmit ==
  ASSUME PageInv, NEW r \in Reqs, NEW form \in Forms, Submit(r, form)
  PROVE  AloneInv' /\ LeaveInv'
<1>1. /\ page # "away" /\ page' = page /\ cause' = cause /\ file' = file
      /\ cgi' = [cgi EXCEPT ![r] = [at |-> "truncate", form |-> form]]
      /\ jqXHR' = [jqXHR EXCEPT ![r] = Sent]
      /\ crowded' = crowded \cup (IF Underway = {} THEN {} ELSE Underway \cup {r})
  BY DEF Submit
<1>2. /\ cgi \in [Reqs -> [at : {"none", "truncate", "append", "restart", "ended"}, form : Forms]]
      /\ jqXHR \in [Reqs -> [state : 0 .. 2, timer : BOOLEAN, callback : BOOLEAN,
                             deferred : {"pending", "resolved", "rejected"}]]
      /\ page \in {"up", "leaving", "away"}
  BY DEF PageInv, TypeInv, PageTypes
<1>3. Underway' = Underway \cup {r}
  <2>1. r \in Underway'
    BY <1>1, <1>2 DEF Underway
  <2>2. ASSUME NEW q \in Reqs, q # r
        PROVE  q \in Underway' <=> q \in Underway
    <3>1. cgi'[q] = cgi[q] /\ jqXHR'[q] = jqXHR[q]
      BY <1>1, <1>2, <2>2
    <3> QED
      BY <1>1, <3>1 DEF Underway
  <2>3. Underway \subseteq Reqs /\ Underway' \subseteq Reqs
    BY DEF Underway
  <2> QED
    BY <2>1, <2>2, <2>3
<1>4. cgi'[r].at = "truncate"
  BY <1>1, <1>2
<1>5. CASE Underway = {}
  <2>1. AloneInv'
    BY <1>3, <1>4, <1>5 DEF AloneInv
  <2>2. page' = "leaving" => cause' \notin Reqs
    BY <1>1, <1>5, LeavingIsUnderway
  <2> QED
    BY <1>1, <1>2, <2>1, <2>2 DEF LeaveInv
<1>6. CASE Underway # {}
  <2>1. Underway' \subseteq crowded'
    BY <1>1, <1>3, <1>6
  <2>2. AloneInv'
    BY <2>1 DEF AloneInv
  <2>3. page' = "leaving" /\ cause' \in Reqs => cause' \in crowded'
    BY <1>1, <1>3, <2>1, LeavingIsUnderway
  <2> QED
    BY <1>1, <1>2, <2>2, <2>3 DEF LeaveInv
<1> QED
  BY <1>5, <1>6

\* One more request done: it is reloading the page, and it is in crowded unless
\* its CGI has ended.
LEMMA PageDone ==
  ASSUME PageInv, NEW r \in Reqs, jqXHR[r].callback,
         NEW x, NEW outcome, x.state # 2, ~ x.callback, DOMAIN x = DOMAIN NotSent,
         Done(r, x, outcome), UNCHANGED <<server, ant_data>>,
         crowded \subseteq crowded',
         r \in crowded' \/ cgi[r].at = "ended"
  PROVE  AloneInv' /\ LeaveInv'
<1> DEFINE y == Settled([x EXCEPT !.state = 2, !.timer = FALSE], outcome)
<1>1. ~ y.callback
  BY DEF Settled, NotSent
<1>2. /\ jqXHR' = [jqXHR EXCEPT ![r] = y]
      /\ page' = "leaving" /\ cause' = r
      /\ cgi' = cgi /\ file' = file
  BY DEF Done, Handler, server
<1> HIDE DEF y
<1>3. r \in Underway
  BY DEF Underway
<1>4. Underway' \subseteq Underway
  <2> SUFFICES ASSUME NEW q \in Reqs, q \in Underway', q # r
               PROVE  q \in Underway
    BY <1>3 DEF Underway
  <2>1. jqXHR'[q] = jqXHR[q]
    BY <1>2 DEF PageInv, TypeInv, PageTypes
  <2> QED
    BY <1>2, <2>1 DEF Underway
<1>5. AloneInv'
  BY <1>4, AloneKept DEF PageInv
<1>6. LeaveInv'
  <2> SUFFICES ASSUME r \notin crowded'
               PROVE  /\ cgi'[r].at = "ended" /\ file' = Whole(cgi'[r].form)
                      /\ \A q \in Reqs : cgi'[q].at \notin {"truncate", "append", "restart"}
    BY <1>2 DEF LeaveInv, Writing, Whole, Part
  <2>1. Underway = {r} /\ cgi[r].at = "ended" /\ file = Whole(cgi[r].form)
    BY <1>3 DEF PageInv, AloneInv
  <2>2. ASSUME NEW q \in Reqs
        PROVE  cgi[q].at \notin {"truncate", "append", "restart"}
    BY <2>1 DEF Underway
  <2> QED
    BY <1>2, <2>1, <2>2
<1> QED
  BY <1>5, <1>6

\* An answer that ends a request alone on its way means that its CGI is through.
LEMMA PageResponse ==
  ASSUME PageInv, NEW r \in Reqs, Response(r)
  PROVE  AloneInv' /\ LeaveInv'
<1>1. PICK lost \in BOOLEAN :
        /\ ~ lost => cgi[r].at = "ended"
        /\ Done(r, [jqXHR[r] EXCEPT !.callback = FALSE], IF lost THEN "rejected" ELSE Converted)
        /\ lost => crowded' = crowded \cup {r}
        /\ ~ lost => UNCHANGED crowded
  BY DEF Response
<1>2. jqXHR[r].callback /\ jqXHR[r].state = 1 /\ UNCHANGED <<server, ant_data>>
  BY DEF Response, PageInv, TypeInv, RequestInv
<1> DEFINE x == [jqXHR[r] EXCEPT !.callback = FALSE]
<1>3. x.state # 2 /\ ~ x.callback /\ DOMAIN x = DOMAIN NotSent
  BY <1>2 DEF NotSent, PageInv, TypeInv, PageTypes
<1>4. crowded \subseteq crowded' /\ (r \in crowded' \/ cgi[r].at = "ended")
  BY <1>1
<1> HIDE DEF x
<1>5. Done(r, x, IF lost THEN "rejected" ELSE Converted)
  BY <1>1 DEF x
<1> QED
  BY <1>2, <1>3, <1>4, <1>5, PageDone

\* The timer ends a request without its answer, which counts it as crowded.
LEMMA PageTimeout ==
  ASSUME PageInv, NEW r \in Reqs, Timeout(r)
  PROVE  AloneInv' /\ LeaveInv'
<1> DEFINE x == [jqXHR[r] EXCEPT !.timer = FALSE, !.callback = FALSE]
<1>1. jqXHR[r].callback /\ jqXHR[r].state = 1
  BY DEF Timeout, PageInv, TypeInv, RequestInv
<1>2. x.state # 2 /\ ~ x.callback /\ DOMAIN x = DOMAIN NotSent
  BY <1>1 DEF NotSent, PageInv, TypeInv, PageTypes
<1>3. Done(r, x, "rejected") /\ crowded' = crowded \cup {r} /\ UNCHANGED <<server, ant_data>>
  BY DEF Timeout
<1> HIDE DEF x
<1> QED
  BY <1>1, <1>2, <1>3, PageDone

\* A page that is left and loaded.
LEMMA PageBrowser == PageInv /\ (Unload \/ UserReloads \/ Load) => AloneInv' /\ LeaveInv'
<1> SUFFICES ASSUME PageInv, Unload \/ UserReloads \/ Load
             PROVE  AloneInv' /\ LeaveInv'
  OBVIOUS
<1>1. crowded' = crowded /\ cgi' = cgi /\ file' = file /\ UNCHANGED server
  BY DEF Unload, UserReloads, Load, server, history
<1>2. Underway' \subseteq Underway
  <2>1. CASE Unload \/ UserReloads
    <3>1. page' = "away" /\ jqXHR' = [q \in Reqs |-> Gone(jqXHR[q])]
      BY <2>1 DEF Unload, UserReloads
    <3>2. \A q \in Reqs : ~ Gone(jqXHR[q]).callback
      BY DEF Gone, PageInv, TypeInv, PageTypes
    <3> QED
      BY <1>1, <3>1, <3>2 DEF Underway
  <2>2. CASE Load
    BY <1>1, <2>2 DEF Underway, Load, history
  <2> QED
    BY <2>1, <2>2
<1>3. AloneInv'
  BY <1>1, <1>2, AloneKept DEF PageInv
<1>4. LeaveInv'
  <2>1. CASE Unload
    <3>1. page # "up" /\ cause' = cause
      BY <2>1 DEF Unload, history
    <3> QED
      BY <1>1, <3>1 DEF PageInv, LeaveInv, Writing, Whole, Part
  <2>2. CASE UserReloads
    <3>1. cause' \notin Reqs
      BY <2>2 DEF UserReloads, Reqs
    <3> QED
      BY <3>1 DEF LeaveInv
  <2>3. CASE Load
    BY <2>3 DEF Load, LeaveInv
  <2> QED
    BY <2>1, <2>2, <2>3
<1> QED
  BY <1>3, <1>4

\* While an uncrowded request's page is away no script writes; a script whose
\* request is uncrowded is the only one that does.
LEMMA PageCgi ==
  ASSUME PageInv, NEW r \in Reqs, CgiSteps(r)
  PROVE  AloneInv' /\ LeaveInv'
<1>1. page' = page /\ cause' = cause /\ crowded' = crowded /\ jqXHR' = jqXHR
  BY DEF CgiSteps, CgiTruncates, CgiAppends, CgiEnds, history
<1>2. Writing(r) /\ r \in Underway
  BY DEF CgiSteps, CgiTruncates, CgiAppends, CgiEnds, Writing, Underway
<1>3. /\ \A q \in Reqs \ {r} : cgi'[q] = cgi[q]
      /\ cgi'[r].form = cgi[r].form
  BY DEF CgiSteps, CgiTruncates, CgiAppends, CgiEnds, PageInv, TypeInv, PageTypes
<1>4. Underway' \subseteq Underway
  <2> SUFFICES ASSUME NEW q \in Reqs, q \in Underway', q # r
               PROVE  q \in Underway
    BY <1>2 DEF Underway
  <2> QED
    BY <1>1, <1>3 DEF Underway
<1>5. ASSUME r \notin crowded
      PROVE  /\ cgi'[r].at = "append" => file' = <<Part(cgi'[r].form, "first")>>
             /\ cgi'[r].at \in {"restart", "ended"} => file' = Whole(cgi'[r].form)
  <2>1. cgi[r].at = "append" => file = <<Part(cgi[r].form, "first")>>
    BY <1>2, <1>5 DEF PageInv, AloneInv
  <2>2. cgi[r].at = "restart" => file = Whole(cgi[r].form)
    BY <1>2, <1>5 DEF PageInv, AloneInv
  <2>3. CASE CgiTruncates(r)
    BY <1>3, <2>3 DEF CgiTruncates, PageInv, TypeInv, PageTypes
  <2>4. CASE CgiAppends(r)
    <3>1. /\ cgi'[r].at = "restart" /\ cgi[r].at = "append"
          /\ file' = Append(file, Part(cgi[r].form, "rest"))
      BY <2>4 DEF CgiAppends, PageInv, TypeInv, PageTypes
    <3>2. /\ Part(cgi[r].form, "first") \in Parts /\ Part(cgi[r].form, "rest") \in Parts
      BY PartTypes DEF PageInv, TypeInv, PageTypes
    <3> QED
      BY <1>3, <1>5, <2>1, <3>1, <3>2, TwoParts DEF Whole
  <2>5. CASE CgiEnds(r)
    <3>1. cgi'[r].at = "ended" /\ cgi[r].at = "restart" /\ file' = file
      BY <2>5 DEF CgiEnds, PageInv, TypeInv, PageTypes
    <3> QED
      BY <1>3, <2>2, <3>1
  <2> QED
    BY <2>3, <2>4, <2>5 DEF CgiSteps
<1>6. AloneInv'
  <2> SUFFICES ASSUME NEW q \in Underway' \ crowded'
               PROVE  /\ Underway' = {q}
                      /\ cgi'[q].at = "append" => file' = <<Part(cgi'[q].form, "first")>>
                      /\ cgi'[q].at \in {"restart", "ended"} => file' = Whole(cgi'[q].form)
    BY DEF AloneInv, Whole, Part
  <2>1. q \in Underway \ crowded
    BY <1>1, <1>4
  <2>2. Underway = {q} /\ q = r
    BY <1>2, <2>1 DEF PageInv, AloneInv
  <2> QED
    BY <1>4, <1>5, <2>1, <2>2
<1>7. LeaveInv'
  BY <1>1, <1>2 DEF PageInv, LeaveInv
<1> QED
  BY <1>6, <1>7

\* Every step keeps the invariant.
LEMMA PageInvStep == PageInv /\ [Next]_vars => PageInv'
<1> SUFFICES ASSUME PageInv, [Next]_vars PROVE PageInv'
  OBVIOUS
<1>1. TypeInv'
  BY TypeInvStep DEF PageInv
<1>2. CASE UNCHANGED vars
  <2>1. Underway' = Underway /\ UNCHANGED server /\ crowded' = crowded
    BY <1>2 DEF vars, server, history, Underway
  <2>2. AloneInv'
    BY <2>1, AloneKept DEF PageInv
  <2>3. LeaveInv'
    BY <1>2 DEF PageInv, LeaveInv, Writing, Whole, Part, vars, server, history
  <2> QED
    BY <1>1, <2>2, <2>3 DEF PageInv
<1>3. CASE Next
  <2>1. AloneInv' /\ LeaveInv'
    BY <1>3, PageSubmit, PageResponse, PageTimeout, PageBrowser, PageCgi DEF Next
  <2> QED
    BY <1>1, <2>1 DEF PageInv
<1> QED
  BY <1>2, <1>3

\* A page that was loaded because an answer came shows the form of that answer's
\* request, if no other request was on its way when it was sent or later.
THEOREM ShownIsSaved == Spec => ShowsSaved
<1>1. ASSUME PageInv, [Next]_vars
      PROVE  [page = "away" /\ page' = "up" /\ cause \in Reqs \ crowded
                => ant_data' = cgi[cause].form]_vars
  <2> SUFFICES ASSUME page = "away", page' = "up", cause \in Reqs \ crowded
               PROVE  ant_data' = cgi[cause].form
    OBVIOUS
  <2>1. Load
    <3>1. \A r \in Reqs : ~ (Response(r) \/ Timeout(r) \/ CgiSteps(r))
      BY DEF Response, Timeout, CgiSteps, CgiTruncates, CgiAppends, CgiEnds
    <3>2. ~ Unload /\ ~ UserReloads /\ ~ UNCHANGED vars
      BY DEF Unload, UserReloads, vars
    <3>3. \A r \in Reqs : \A form \in Forms : ~ Submit(r, form)
      BY DEF Submit
    <3> QED
      BY <1>1, <3>1, <3>2, <3>3 DEF Next
  <2>2. file = Whole(cgi[cause].form)
    <3>1. LeaveInv
      BY <1>1 DEF PageInv
    <3> QED
      BY <3>1 DEF LeaveInv
  <2>3. file[1].form = cgi[cause].form
    BY <2>2 DEF Whole, Part
  <2> QED
    BY <2>1, <2>2, <2>3 DEF Load
<1> QED
  BY <1>1, PageInvInit, PageInvStep, PTL DEF Spec, ShowsSaved
=============================================================================

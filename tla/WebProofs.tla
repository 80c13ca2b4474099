------------------------------- MODULE WebProofs -------------------------------
(***************************************************************************)
(* Proofs about the two ends of a connection.                              *)
(*                                                                         *)
(* Page, for every set of scroll positions and whichever scripts are       *)
(* missing: links to other pages are followed, custom.js has bound the     *)
(* window's handlers whenever it arrived behind jQuery, and the complete   *)
(* page is taking its overlay away.                                        *)
(*                                                                         *)
(* HttpContext, for every set of requests and files and every number of    *)
(* requests: however the bytes are cut into reads a form is verified at    *)
(* most once, and requests that are read whole get their own answer.       *)
(***************************************************************************)
EXTENDS Page, HttpContext, SequenceTheorems, WellFoundedInduction, TLAPS

(* A nonempty set of naturals has a least element. *)
LEMMA NatMin ==
  ASSUME NEW S \in SUBSET Nat, S # {}
  PROVE  \E m \in S : \A k \in S : m <= k
<1> DEFINE R == OpToRel(<, Nat)
<1>1. IsWellFoundedOn(R, Nat)
  BY NatLessThanWellFounded
<1>2. \E x \in S : \A y \in S : ~ (<<y, x>> \in R)
  BY <1>1, WFMin, Zenon
<1>3. \A x, y \in Nat : y < x => <<y, x>> \in R
  BY DEF OpToRel
<1> HIDE DEF R
<1>4. PICK m \in S : \A y \in S : ~ (<<y, m>> \in R)
  BY <1>2
<1>5. ASSUME NEW k \in S
      PROVE  m <= k
  <2>1. m \in Nat /\ k \in Nat
    OBVIOUS
  <2>2. ~(k < m)
    BY <2>1, <1>4, <1>3, Zenon
  <2> QED
    BY <2>1, <2>2
<1> QED
  BY <1>5

-------------------------------------------------------------------------------
(* What a round of callbacks computes.  A round is the function whose value at i
   is what the first i callbacks leave; it exists for every list.            *)

Handlers == {"collapse", "anchor"}

(* g is the round of the click handlers for the link h, up to the n-th. *)
ClickRound(g, n, e0, h) ==
  /\ g[0] = e0
  /\ \A i \in 1..n : g[i] = IF g[i - 1].threw THEN g[i - 1] ELSE Handle(bindings[i], g[i - 1], h)

(* g is the round of the callbacks for DOM ready, up to the n-th. *)
ReadyRound(g, n, e0) ==
  /\ g[0] = e0
  /\ \A i \in 1..n : g[i] = IF g[i - 1].threw THEN g[i - 1] ELSE ReadyCallback(g[i - 1], readyList[i])

(* The round of the click handlers exists. *)
LEMMA ClickRoundExists ==
  ASSUME NEW n \in Nat, NEW e0, NEW h
  PROVE  \E g : /\ g = [i \in 0..n |-> g[i]]
                /\ ClickRound(g, n, e0, h)
<1> DEFINE Good(k) == \E g : g = [i \in 0..k |-> g[i]] /\ ClickRound(g, k, e0, h)
           Bad == {k \in Nat : ~Good(k)}
<1> SUFFICES ASSUME Bad # {}
             PROVE  FALSE
  OBVIOUS
<1>1. PICK m \in Bad : \A k \in Bad : m <= k
  <2>1. Bad \in SUBSET Nat
    OBVIOUS
  <2> HIDE DEF Bad
  <2> QED
    BY <2>1, NatMin
<1>2. m \in Nat /\ ~Good(m)
  OBVIOUS
<1>3. CASE m = 0
  <2> DEFINE f == [i \in 0..0 |-> e0]
  <2>1. f = [i \in 0..0 |-> f[i]] /\ ClickRound(f, 0, e0, h)
    BY DEF ClickRound
  <2> QED
    BY <2>1, <1>2, <1>3
<1>4. CASE m # 0
  <2>1. m - 1 \in Nat /\ ~(m <= m - 1)
    BY <1>2, <1>4
  <2>2. Good(m - 1)
    <3>1. m - 1 \notin Bad
      <4> HIDE DEF Bad
      <4> QED
        BY <1>1, <2>1
    <3> HIDE DEF Good
    <3> QED
      BY <2>1, <3>1
  <2>3. PICK g : ClickRound(g, m - 1, e0, h)
    BY <2>2
  <2> HIDE DEF Good, Bad
  <2> DEFINE last == IF g[m - 1].threw THEN g[m - 1] ELSE Handle(bindings[m], g[m - 1], h)
             f == [i \in 0..m |-> IF i = m THEN last ELSE g[i]]
  <2>4. f = [i \in 0..m |-> f[i]]
    OBVIOUS
  <2>5. /\ f[0] = e0 /\ f[m] = last
        /\ \A i \in 0..(m - 1) : f[i] = g[i]
    BY <1>2, <1>4, <2>3 DEF ClickRound
  <2> HIDE DEF f
  <2>6. ASSUME NEW i \in 1..m
        PROVE  f[i] = IF f[i - 1].threw THEN f[i - 1] ELSE Handle(bindings[i], f[i - 1], h)
    <3>1. i - 1 \in 0..(m - 1) /\ f[i - 1] = g[i - 1]
      BY <1>2, <2>5
    <3>2. CASE i = m
      BY <2>5, <3>1, <3>2
    <3>3. CASE i # m
      <4>1. i \in 1..(m - 1) /\ i \in 0..(m - 1)
        BY <1>2, <3>3
      <4>2. g[i] = IF g[i - 1].threw THEN g[i - 1] ELSE Handle(bindings[i], g[i - 1], h)
        BY <2>3, <4>1, Zenon DEF ClickRound
      <4>3. f[i] = g[i]
        BY <2>5, <4>1
      <4> QED
        BY <3>1, <4>2, <4>3
    <3> QED
      BY <3>2, <3>3
  <2>7. ClickRound(f, m, e0, h)
    BY <2>5, <2>6 DEF ClickRound
  <2> QED
    BY <1>2, <2>4, <2>7 DEF Good
<1> QED
  BY <1>3, <1>4

(* Dispatch returns what the last click handler of the round leaves. *)
LEMMA DispatchIsRound ==
  ASSUME NEW S, bindings \in Seq(S), NEW e0, NEW h
  PROVE  \E g : ClickRound(g, Len(bindings), e0, h) /\ Dispatch(e0, h) = g[Len(bindings)]
<1> DEFINE n == Len(bindings)
           E(f) == [i \in 0..n |-> IF i = 0 THEN e0
                                   ELSE IF f[i - 1].threw THEN f[i - 1]
                                   ELSE Handle(bindings[i], f[i - 1], h)]
           after == CHOOSE f : f = E(f)
<1>1. n \in Nat
  OBVIOUS
<1>2. PICK g : g = [i \in 0..n |-> g[i]] /\ ClickRound(g, n, e0, h)
  BY <1>1, ClickRoundExists
<1>3. g = E(g)
  <2>1. \A i \in 0..n : i # 0 => i \in 1..n
    BY <1>1
  <2>2. \A i \in 0..n : g[i] = IF i = 0 THEN e0
                               ELSE IF g[i - 1].threw THEN g[i - 1]
                               ELSE Handle(bindings[i], g[i - 1], h)
    BY <1>2, <2>1 DEF ClickRound
  <2> QED
    BY <1>2, <2>2
<1>4. after = E(after)
  <2> HIDE DEF E
  <2> QED
    BY <1>3, Zenon
<1>5. Dispatch(e0, h) = after[n]
  BY Zenon DEF Dispatch, Called
<1> HIDE DEF after
<1>6. ClickRound(after, n, e0, h)
  BY <1>1, <1>4 DEF ClickRound
<1> QED
  BY <1>5, <1>6

(* The round of the callbacks for DOM ready exists. *)
LEMMA ReadyRoundExists ==
  ASSUME NEW n \in Nat, NEW e0
  PROVE  \E g : /\ g = [i \in 0..n |-> g[i]]
                /\ ReadyRound(g, n, e0)
<1> DEFINE Good(k) == \E g : g = [i \in 0..k |-> g[i]] /\ ReadyRound(g, k, e0)
           Bad == {k \in Nat : ~Good(k)}
<1> SUFFICES ASSUME Bad # {}
             PROVE  FALSE
  OBVIOUS
<1>1. PICK m \in Bad : \A k \in Bad : m <= k
  <2>1. Bad \in SUBSET Nat
    OBVIOUS
  <2> HIDE DEF Bad
  <2> QED
    BY <2>1, NatMin
<1>2. m \in Nat /\ ~Good(m)
  OBVIOUS
<1>3. CASE m = 0
  <2> DEFINE f == [i \in 0..0 |-> e0]
  <2>1. f = [i \in 0..0 |-> f[i]] /\ ReadyRound(f, 0, e0)
    BY DEF ReadyRound
  <2> QED
    BY <2>1, <1>2, <1>3
<1>4. CASE m # 0
  <2>1. m - 1 \in Nat /\ ~(m <= m - 1)
    BY <1>2, <1>4
  <2>2. Good(m - 1)
    <3>1. m - 1 \notin Bad
      <4> HIDE DEF Bad
      <4> QED
        BY <1>1, <2>1
    <3> HIDE DEF Good
    <3> QED
      BY <2>1, <3>1
  <2>3. PICK g : ReadyRound(g, m - 1, e0)
    BY <2>2
  <2> HIDE DEF Good, Bad
  <2> DEFINE last == IF g[m - 1].threw THEN g[m - 1] ELSE ReadyCallback(g[m - 1], readyList[m])
             f == [i \in 0..m |-> IF i = m THEN last ELSE g[i]]
  <2>4. f = [i \in 0..m |-> f[i]]
    OBVIOUS
  <2>5. /\ f[0] = e0 /\ f[m] = last
        /\ \A i \in 0..(m - 1) : f[i] = g[i]
    BY <1>2, <1>4, <2>3 DEF ReadyRound
  <2> HIDE DEF f
  <2>6. ASSUME NEW i \in 1..m
        PROVE  f[i] = IF f[i - 1].threw THEN f[i - 1] ELSE ReadyCallback(f[i - 1], readyList[i])
    <3>1. i - 1 \in 0..(m - 1) /\ f[i - 1] = g[i - 1]
      BY <1>2, <2>5
    <3>2. CASE i = m
      BY <2>5, <3>1, <3>2
    <3>3. CASE i # m
      <4>1. i \in 1..(m - 1) /\ i \in 0..(m - 1)
        BY <1>2, <3>3
      <4>2. g[i] = IF g[i - 1].threw THEN g[i - 1] ELSE ReadyCallback(g[i - 1], readyList[i])
        BY <2>3, <4>1, Zenon DEF ReadyRound
      <4>3. f[i] = g[i]
        BY <2>5, <4>1
      <4> QED
        BY <3>1, <4>2, <4>3
    <3> QED
      BY <3>2, <3>3
  <2>7. ReadyRound(f, m, e0)
    BY <2>5, <2>6 DEF ReadyRound
  <2> QED
    BY <1>2, <2>4, <2>7 DEF Good
<1> QED
  BY <1>3, <1>4

(* What the callbacks for DOM ready leave. *)
LEMMA ReadyIsRound ==
  ASSUME NEW S, readyList \in Seq(S), NEW e0
  PROVE  \E g : ReadyRound(g, Len(readyList), e0) /\ Called(readyList, e0, ReadyCallback) = g[Len(readyList)]
<1> DEFINE n == Len(readyList)
           E(f) == [i \in 0..n |-> IF i = 0 THEN e0
                                   ELSE IF f[i - 1].threw THEN f[i - 1]
                                   ELSE ReadyCallback(f[i - 1], readyList[i])]
           after == CHOOSE f : f = E(f)
<1>1. n \in Nat
  OBVIOUS
<1>2. PICK g : g = [i \in 0..n |-> g[i]] /\ ReadyRound(g, n, e0)
  BY <1>1, ReadyRoundExists
<1>3. g = E(g)
  <2>1. \A i \in 0..n : i # 0 => i \in 1..n
    BY <1>1
  <2>2. \A i \in 0..n : g[i] = IF i = 0 THEN e0
                               ELSE IF g[i - 1].threw THEN g[i - 1]
                               ELSE ReadyCallback(g[i - 1], readyList[i])
    BY <1>2, <2>1 DEF ReadyRound
  <2> QED
    BY <1>2, <2>2
<1>4. after = E(after)
  <2> HIDE DEF E
  <2> QED
    BY <1>3, Zenon
<1>5. Called(readyList, e0, ReadyCallback) = after[n]
  BY Zenon DEF Called
<1> HIDE DEF after
<1>6. ReadyRound(after, n, e0)
  BY <1>1, <1>4 DEF ReadyRound
<1> QED
  BY <1>5, <1>6

-------------------------------------------------------------------------------
(* Types.                                                                    *)

Effects == [threw : BOOLEAN, prevented : BOOLEAN]

(* A handler leaves an effect of a click, and never prevents the default action. *)
LEMMA HandleEffect ==
  ASSUME NEW c \in Handlers, NEW e \in Effects, NEW h
  PROVE  /\ Handle(c, e, h) \in Effects
         /\ ~e.prevented => ~Handle(c, e, h).prevented
<1>1. [e EXCEPT !.threw = TRUE] \in Effects /\ [e EXCEPT !.threw = TRUE].prevented = e.prevented
  BY DEF Effects
<1>2. CASE c = "collapse"
  <2>1. Handle(c, e, h) = CollapseHandler(e, h)
    BY <1>2 DEF Handle
  <2> QED
    BY <1>1, <2>1 DEF CollapseHandler
<1>3. CASE c = "anchor"
  <2>1. Handle(c, e, h) = AnchorHandler(e)
    BY <1>3 DEF Handle
  <2> QED
    BY <1>1, <2>1 DEF AnchorHandler
<1> QED
  BY <1>2, <1>3 DEF Handlers

(* A round of click handlers leaves the link its default action, whatever is bound
   to it. *)
LEMMA DispatchEffect ==
  ASSUME TypeOK, NEW e0 \in Effects, ~e0.prevented, NEW h
  PROVE  ~Dispatch(e0, h).prevented
<1> DEFINE n == Len(bindings)
<1>1. bindings \in Seq(Handlers)
  BY DEF TypeOK, Handlers
<1>2. PICK g : ClickRound(g, n, e0, h) /\ Dispatch(e0, h) = g[n]
  BY <1>1, DispatchIsRound
<1>3. n \in Nat /\ \A i \in 1..n : bindings[i] \in Handlers
  BY <1>1
<1> HIDE DEF n
<1> DEFINE Good(i) == /\ g[i] \in Effects
                      /\ ~g[i].prevented
           Bad == {i \in 0..n : ~Good(i)}
<1>4. SUFFICES ASSUME Bad # {}
               PROVE  FALSE
  <2>1. n \in 0..n
    BY <1>3
  <2>2. Good(n)
    BY <2>1
  <2> QED
    BY <1>2, <2>2
<1>5. PICK m \in Bad : \A k \in Bad : m <= k
  <2>1. Bad \in SUBSET Nat
    OBVIOUS
  <2> HIDE DEF Bad
  <2> QED
    BY <1>4, <2>1, NatMin
<1>6. m \in 0..n /\ ~Good(m)
  OBVIOUS
<1>7. Good(0)
  BY <1>2 DEF ClickRound
<1>8. m # 0
  BY <1>6, <1>7
<1>9. Good(m - 1)
  <2>1. m - 1 \in 0..n /\ ~(m <= m - 1)
    BY <1>3, <1>6, <1>8
  <2>2. m - 1 \notin Bad
    <3> HIDE DEF Bad
    <3> QED
      BY <1>5, <2>1
  <2> QED
    BY <2>1, <2>2
<1>10. m \in 1..n
  BY <1>3, <1>6, <1>8
<1>11. g[m] = IF g[m - 1].threw THEN g[m - 1] ELSE Handle(bindings[m], g[m - 1], h)
  BY <1>2, <1>10, Zenon DEF ClickRound
<1>12. Good(m)
  BY <1>3, <1>9, <1>10, <1>11, HandleEffect
<1> QED
  BY <1>6, <1>12

(* The callbacks for DOM ready bind handlers behind those there are. *)
LEMMA ReadyBinds ==
  ASSUME TypeOK
  PROVE  Called(readyList, [threw |-> FALSE, bindings |-> bindings], ReadyCallback).bindings
           \in Seq(Handlers)
<1> DEFINE n == Len(readyList)
           e0 == [threw |-> FALSE, bindings |-> bindings]
           Rounds == [threw : BOOLEAN, bindings : Seq(Handlers)]
<1>1. readyList \in Seq({"local", "popup", "anchor"}) /\ bindings \in Seq(Handlers)
  BY DEF TypeOK, Handlers
<1>e. e0 \in Rounds
  BY <1>1
<1> HIDE DEF e0
<1>2. PICK g : ReadyRound(g, n, e0) /\ Called(readyList, e0, ReadyCallback) = g[n]
  BY <1>1, ReadyIsRound
<1>3. n \in Nat /\ \A i \in 1..n : readyList[i] \in {"local", "popup", "anchor"}
  BY <1>1
<1> HIDE DEF n
<1> DEFINE Bad == {i \in 0..n : g[i] \notin Rounds}
<1>4. SUFFICES ASSUME Bad # {}
               PROVE  FALSE
  <2>1. n \in 0..n
    BY <1>3
  <2>2. g[n] \in Rounds
    BY <2>1
  <2>3. g[n].bindings \in Seq(Handlers)
    BY <2>2
  <2> QED
    BY <1>2, <2>3 DEF e0
<1>5. PICK m \in Bad : \A k \in Bad : m <= k
  <2>1. Bad \in SUBSET Nat
    OBVIOUS
  <2> HIDE DEF Bad
  <2> QED
    BY <1>4, <2>1, NatMin
<1>6. m \in 0..n /\ g[m] \notin Rounds
  OBVIOUS
<1>7. m # 0
  BY <1>e, <1>2, <1>6 DEF ReadyRound
<1>8. g[m - 1] \in Rounds
  <2>1. m - 1 \in 0..n /\ ~(m <= m - 1)
    BY <1>3, <1>6, <1>7
  <2>2. m - 1 \notin Bad
    <3> HIDE DEF Bad
    <3> QED
      BY <1>5, <2>1
  <2> QED
    BY <2>1, <2>2
<1>9. m \in 1..n
  BY <1>3, <1>6, <1>7
<1>10. g[m] = IF g[m - 1].threw THEN g[m - 1] ELSE ReadyCallback(g[m - 1], readyList[m])
  BY <1>2, <1>9, Zenon DEF ReadyRound
<1>11. ReadyCallback(g[m - 1], readyList[m]) \in Rounds
  <2> DEFINE e == g[m - 1]
             c == readyList[m]
  <2>1. e \in Rounds /\ c \in {"local", "popup", "anchor"}
    BY <1>3, <1>8, <1>9
  <2> HIDE DEF e, c
  <2>2. ASSUME c = "local"
        PROVE  ReadyCallback(e, c) \in Rounds
    <3>1. ReadyCallback(e, c) = e
      BY <2>2 DEF ReadyCallback, LocalScroll
    <3> QED
      BY <2>1, <3>1
  <2>3. ASSUME c = "popup"
        PROVE  ReadyCallback(e, c) \in Rounds
    <3>1. (~MagnificRuns(loaded)) \in BOOLEAN
      OBVIOUS
    <3>2. [e EXCEPT !.threw = ~MagnificRuns(loaded)] \in Rounds
      BY <2>1, <3>1
    <3>3. ReadyCallback(e, c) = [e EXCEPT !.threw = ~MagnificRuns(loaded)]
      BY <2>3 DEF ReadyCallback, MagnifPopup
    <3> QED
      BY <3>2, <3>3
  <2>4. ASSUME c = "anchor"
        PROVE  ReadyCallback(e, c) \in Rounds
    <3>1. e.bindings \in Seq(Handlers) /\ "anchor" \in Handlers
      BY <2>1 DEF Handlers
    <3>2. Append(e.bindings, "anchor") \in Seq(Handlers)
      BY <3>1
    <3>3. [e EXCEPT !.bindings = Append(@, "anchor")] \in Rounds
      BY <2>1, <3>2
    <3>4. ReadyCallback(e, c) = [e EXCEPT !.bindings = Append(@, "anchor")]
      BY <2>4 DEF ReadyCallback, BindAnchor
    <3> QED
      BY <3>3, <3>4
  <2>5. ReadyCallback(e, c) \in Rounds
    BY <2>1, <2>2, <2>3, <2>4
  <2> QED
    BY <2>5 DEF e, c
<1> QED
  BY <1>6, <1>8, <1>10, <1>11

(* What each script binds: custom.js its handlers if jQuery is there, the others
   at most a callback for DOM ready. *)
LEMMA BindsEach ==
  ASSUME NEW s, NEW have
  PROVE  /\ Binds(s, have).win \in SUBSET {"load", "scroll"}
         /\ Binds(s, have).click \in {<<>>, <<"collapse">>}
         /\ Binds(s, have).ready \in {<<>>, <<"local">>, <<"popup">>, <<"anchor">>}
         /\ s = "custom" /\ {"jquery", "custom"} \subseteq have =>
              Binds(s, have).win = {"load", "scroll"}
<1>1. /\ Nothing.win = {} /\ Nothing.click = <<>> /\ Nothing.ready = <<>>
      /\ \A r : /\ [Nothing EXCEPT !.ready = r].win = {}
                /\ [Nothing EXCEPT !.ready = r].click = <<>>
                /\ [Nothing EXCEPT !.ready = r].ready = r
  BY DEF Nothing
<1>2. CASE s \notin have \/ s \notin {"smoothscroll", "options", "custom"}
  <2>1. Binds(s, have) = Nothing
    BY <1>2 DEF Binds
  <2> QED
    BY <1>1, <1>2, <2>1
<1>3. CASE s \in have /\ s = "smoothscroll"
  <2>1. Binds(s, have) = SmoothscrollBinds(have)
    BY <1>3 DEF Binds
  <2> QED
    BY <1>1, <1>3, <2>1 DEF SmoothscrollBinds
<1>4. CASE s \in have /\ s = "options"
  <2>1. Binds(s, have) = OptionsBinds(have)
    BY <1>4 DEF Binds
  <2> QED
    BY <1>1, <1>4, <2>1 DEF OptionsBinds
<1>5. CASE s \in have /\ s = "custom"
  <2>1. Binds(s, have) = CustomBinds(have)
    BY <1>5 DEF Binds
  <2> QED
    BY <1>1, <1>5, <2>1 DEF CustomBinds
<1> QED
  BY <1>2, <1>3, <1>4, <1>5

(* A script that arrives leaves its handlers behind those there are. *)
LEMMA RunScriptIs ==
  ASSUME RunScript
  PROVE  \E have \in {loaded, loaded \cup {Scripts[next]}} :
           /\ loaded' = have
           /\ bound' = bound \cup Binds(Scripts[next], have).win
           /\ bindings' = bindings \o Binds(Scripts[next], have).click
           /\ readyList' = readyList \o Binds(Scripts[next], have).ready
           /\ phase' \in {"alert", "parsed", "parsing"}
           /\ phase' = "parsing" => next # Len(Scripts)
           /\ phase' = "alert" => Scripts[next] = "smoothscroll"
  BY DEF RunScript

(* Every variable keeps its type. *)
LEMMA NextTypeOK ==
  ASSUME TypeOK, Next
  PROVE  TypeOK'
<1> USE DEF scriptVars, scrollVars
<1>1. CASE RunScript
  <2> DEFINE s == Scripts[next]
  <2>1. /\ next \in 1..Len(Scripts) /\ s \in Range(Scripts)
        /\ next' \in 1..(Len(Scripts) + 1)
    BY <1>1, SMTT(30) DEF RunScript, TypeOK, Scripts, Range
  <2>2. PICK have \in {loaded, loaded \cup {s}} :
          /\ loaded' = have
          /\ bound' = bound \cup Binds(s, have).win
          /\ bindings' = bindings \o Binds(s, have).click
          /\ readyList' = readyList \o Binds(s, have).ready
          /\ phase' \in {"alert", "parsed", "parsing"}
    BY <1>1, RunScriptIs
  <2> HIDE DEF s
  <2>3. /\ Binds(s, have).win \in SUBSET {"load", "scroll"}
        /\ Binds(s, have).click \in Seq(Handlers)
        /\ Binds(s, have).ready \in Seq({"local", "popup", "anchor"})
    <3>1. /\ <<>> \in Seq(Handlers) /\ <<"collapse">> \in Seq(Handlers)
          /\ {<<>>, <<"local">>, <<"popup">>, <<"anchor">>} \subseteq Seq({"local", "popup", "anchor"})
      BY DEF Handlers
    <3> QED
      BY <3>1, BindsEach
  <2>4. bindings' \in Seq(Handlers) /\ readyList' \in Seq({"local", "popup", "anchor"})
    BY <2>2, <2>3 DEF TypeOK, Handlers
  <2>5. loaded' \subseteq Range(Scripts) /\ bound' \subseteq {"load", "scroll"}
    BY <2>1, <2>2, <2>3 DEF TypeOK
  <2> QED
    BY <1>1, <2>1, <2>2, <2>4, <2>5 DEF RunScript, TypeOK, Handlers
<1>2. CASE DomReady
  <2>1. bindings' \in Seq(Handlers)
    BY <1>2, ReadyBinds, Zenon DEF DomReady
  <2>2. readyList' \in Seq({"local", "popup", "anchor"})
    BY <1>2 DEF DomReady
  <2> QED
    BY <1>2, <2>1, <2>2 DEF DomReady, TypeOK, Handlers
<1>3. CASE DismissAlert \/ WindowLoad \/ FadeEnds
  BY <1>3, ZenonT(40) DEF DismissAlert, WindowLoad, FadeEnds, TypeOK
<1>4. ASSUME NEW h \in Links, Click(h)
      PROVE  TypeOK'
  <2>1. phase' \in {"left", phase} /\ clicked' = TRUE /\ UNCHANGED <<scriptVars, preloader, scrollVars>>
    BY <1>4 DEF Click
  <2> QED
    BY <2>1, ZenonT(40) DEF TypeOK
<1>5. ASSUME NEW p \in Stops, UserScroll(p)
      PROVE  TypeOK'
  BY <1>5, ZenonT(40) DEF UserScroll, TypeOK
<1>6. CASE HandleScroll
  <2>1. topNav' \in BOOLEAN
    <3>1. (pos > 50) \in BOOLEAN /\ topNav \in BOOLEAN
      BY DEF TypeOK
    <3> QED
      BY <1>6, <3>1, Zenon DEF HandleScroll
  <2> QED
    BY <1>6, <2>1, ZenonT(40) DEF HandleScroll, TypeOK
<1> QED
  BY <1>1, <1>2, <1>3, <1>4, <1>5, <1>6 DEF Next

-------------------------------------------------------------------------------
(* The inductive invariant.                                                  *)

(* While scripts are still to come custom.js, the last, has not arrived. *)
ScriptsToCome ==
  phase \in {"parsing", "alert"} => next <= 7 /\ "custom" \notin loaded

(* custom.js has bound the handlers of the window's load and scroll events whenever
   it arrived with jQuery there: the overlay and the navbar depend on it. *)
WindowBound == {"jquery", "custom"} \subseteq loaded => {"load", "scroll"} \subseteq bound

(* The overlay does not stay up once the page is complete: the part of
   PreloaderGoes that needs no fairness. *)
PreloaderTold ==
  phase = "complete" /\ {"jquery", "custom"} \subseteq loaded => preloader \in {"fading", "gone"}

PageInv == TypeOK /\ ScriptsToCome /\ WindowBound /\ PreloaderTold /\ PageLinksFollowed

(* Loading the scripts keeps the invariant. *)
LEMMA RunScriptKeeps ==
  ASSUME TypeOK, ScriptsToCome, WindowBound, RunScript
  PROVE  ScriptsToCome' /\ WindowBound' /\ PreloaderTold'
<1>1. phase = "parsing" /\ next \in 1..7 /\ next' = next + 1 /\ "custom" \notin loaded
  BY SMTT(30) DEF RunScript, ScriptsToCome, TypeOK
<1>2. PICK have \in {loaded, loaded \cup {Scripts[next]}} :
        /\ loaded' = have
        /\ bound' = bound \cup Binds(Scripts[next], have).win
        /\ phase' \in {"alert", "parsed", "parsing"}
        /\ phase' = "parsing" => next # Len(Scripts)
        /\ phase' = "alert" => Scripts[next] = "smoothscroll"
  BY RunScriptIs
<1>3. /\ Len(Scripts) = 7 /\ Scripts[7] = "custom"
      /\ \A i \in 1..6 : Scripts[i] # "custom"
  BY DEF Scripts
<1>4. Scripts[next] = "custom" => next = 7
  BY <1>1, <1>3
<1>5. ScriptsToCome'
  <2>1. phase' \in {"parsing", "alert"} => next # 7
    BY <1>2, <1>3
  <2>2. phase' \in {"parsing", "alert"} => next' <= 7 /\ "custom" \notin loaded'
    BY <1>1, <1>2, <1>3, <2>1
  <2> QED
    BY <2>2 DEF ScriptsToCome
<1>6. WindowBound'
  <2> SUFFICES ASSUME {"jquery", "custom"} \subseteq loaded'
               PROVE  {"load", "scroll"} \subseteq bound'
    BY DEF WindowBound
  <2>1. Scripts[next] = "custom"
    BY <1>1, <1>2
  <2>2. Binds(Scripts[next], have).win = {"load", "scroll"}
    BY <1>2, <2>1, BindsEach
  <2> QED
    BY <1>2, <2>2
<1> QED
  BY <1>2, <1>5, <1>6 DEF PreloaderTold

(* The load event finds its handler, and takes the overlay away; nothing else
   touches what the scripts have left. *)
LEMMA NextLoading ==
  ASSUME TypeOK, ScriptsToCome, WindowBound, PreloaderTold, Next
  PROVE  ScriptsToCome' /\ WindowBound' /\ PreloaderTold'
<1> USE DEF scriptVars, scrollVars, Here
<1>1. CASE RunScript
  BY <1>1, RunScriptKeeps
<1>2. CASE DismissAlert
  BY <1>2 DEF DismissAlert, ScriptsToCome, WindowBound, PreloaderTold
<1>3. CASE DomReady
  BY <1>3 DEF DomReady, ScriptsToCome, WindowBound, PreloaderTold
<1>4. CASE WindowLoad
  BY <1>4 DEF WindowLoad, ScriptsToCome, WindowBound, PreloaderTold
<1>5. CASE FadeEnds \/ HandleScroll
  BY <1>5 DEF FadeEnds, HandleScroll, ScriptsToCome, WindowBound, PreloaderTold
<1>6. ASSUME NEW h \in Links, Click(h)
      PROVE  ScriptsToCome' /\ WindowBound' /\ PreloaderTold'
  <2>1. UNCHANGED <<next, loaded, bound, preloader>> /\ phase' \in {phase, "left"}
    BY <1>6 DEF Click
  <2> QED
    BY <2>1 DEF ScriptsToCome, WindowBound, PreloaderTold
<1>7. ASSUME NEW p \in Stops, UserScroll(p)
      PROVE  ScriptsToCome' /\ WindowBound' /\ PreloaderTold'
  BY <1>7 DEF UserScroll, ScriptsToCome, WindowBound, PreloaderTold
<1> QED
  BY <1>1, <1>2, <1>3, <1>4, <1>5, <1>6, <1>7 DEF Next

(* A click leaves the page, and nobody returns to it. *)
LEMMA NextLinks ==
  ASSUME TypeOK, PageLinksFollowed, Next
  PROVE  PageLinksFollowed'
<1> USE DEF scriptVars, scrollVars, Here
<1>1. CASE RunScript \/ DismissAlert \/ DomReady \/ WindowLoad \/ FadeEnds \/ HandleScroll
  <2>1. phase # "left" /\ clicked' = clicked
    BY <1>1 DEF RunScript, DismissAlert, DomReady, WindowLoad, FadeEnds, HandleScroll
  <2> QED
    BY <2>1 DEF PageLinksFollowed
<1>2. ASSUME NEW h \in Links, Click(h)
      PROVE  PageLinksFollowed'
  <2> DEFINE e0 == [threw |-> FALSE, prevented |-> FALSE]
  <2>1. e0 \in Effects /\ ~e0.prevented
    BY DEF Effects
  <2>2. phase' = IF Dispatch(e0, h).prevented THEN phase ELSE "left"
    BY <1>2 DEF Click
  <2> HIDE DEF e0
  <2>3. ~Dispatch(e0, h).prevented
    BY <2>1, DispatchEffect
  <2> QED
    BY <2>2, <2>3 DEF PageLinksFollowed
<1>3. ASSUME NEW p \in Stops, UserScroll(p)
      PROVE  PageLinksFollowed'
  BY <1>3 DEF UserScroll, PageLinksFollowed
<1> QED
  BY <1>1, <1>2, <1>3 DEF Next

-------------------------------------------------------------------------------
(* The theorems.                                                             *)

(* The invariant holds in every state. *)
LEMMA PageInvariant == Spec => []PageInv
<1>1. Init => PageInv
  <2> SUFFICES ASSUME Init
               PROVE  PageInv
    OBVIOUS
  <2>1. <<>> \in Seq({"collapse", "anchor"}) /\ <<>> \in Seq({"local", "popup", "anchor"}) /\ Len(Scripts) = 7
    BY DEF Scripts
  <2>2. topNav \in BOOLEAN /\ clicked \in BOOLEAN
    BY DEF Init
  <2>3. TypeOK
    BY <2>1, <2>2, PageAssumption DEF Init, TypeOK
  <2> QED
    BY <2>3 DEF Init, PageInv, ScriptsToCome, WindowBound, PreloaderTold, PageLinksFollowed
<1>2. PageInv /\ [Next]_vars => PageInv'
  <2> SUFFICES ASSUME PageInv, Next \/ UNCHANGED vars
               PROVE  PageInv'
    OBVIOUS
  <2>1. CASE Next
    BY <2>1, NextTypeOK, NextLoading, NextLinks DEF PageInv
  <2>2. CASE UNCHANGED vars
    BY <2>2 DEF vars, scriptVars, scrollVars, PageInv, TypeOK, ScriptsToCome, WindowBound,
                PreloaderTold, PageLinksFollowed
  <2> QED
    BY <2>1, <2>2
<1> QED
  BY <1>1, <1>2, PTL DEF Spec

(* Every variable keeps its type, and the position is one the user scrolled to. *)
THEOREM TypeCorrect == Spec => []TypeOK
<1>1. PageInv => TypeOK
  BY DEF PageInv
<1> QED
  BY <1>1, PageInvariant, PTL

(* A link to another page is followed in every state of loading, whatever scripts
   are missing and whatever is bound to it. *)
THEOREM LinksFollowed == Spec => []PageLinksFollowed
<1>1. PageInv => PageLinksFollowed
  BY DEF PageInv
<1> QED
  BY <1>1, PageInvariant, PTL

(* The window's handlers are there whenever jquery.js and custom.js arrived: no
   scroll event after that is missed, whatever became of the other scripts. *)
THEOREM HandlersAreBound == Spec => []WindowBound
<1>1. PageInv => WindowBound
  BY DEF PageInv
<1> QED
  BY <1>1, PageInvariant, PTL

(* With jquery.js and custom.js there, the complete page is taking the overlay
   away, whatever became of the other scripts. *)
THEOREM PreloaderLeaves == Spec => []PreloaderTold
<1>1. PageInv => PreloaderTold
  BY DEF PageInv
<1> QED
  BY <1>1, PageInvariant, PTL

-------------------------------------------------------------------------------
(* The kinds of the pieces of a request, by their place in it. *)
KindAt == <<"r1", "r2", "cr", "lf", "h1", "h2", "cr", "lf", "cr", "lf", "b1", "b2">>

AllPieces == [k : {"r1", "r2", "cr", "lf", "h1", "h2", "b1", "b2"}, r : Nat, n : Nat]
Calls == [r : Nat, all : BOOLEAN]

(* How many pieces request r has. *)
Length(reqs, r) == IF reqs[r].method = "POST" THEN 12 ELSE 10

(* p is a piece of one of the requests, and nxt the piece the client sends after it. *)
PieceOf(reqs, p) ==
  /\ p.r \in 1..Len(reqs) /\ p.n \in 1..Length(reqs, p.r)
  /\ p.k = KindAt[p.n]

Follows(reqs, p, nxt) ==
  IF p.n < Length(reqs, p.r) THEN nxt.r = p.r /\ nxt.n = p.n + 1 ELSE nxt.r = p.r + 1 /\ nxt.n = 1

(* S is what the client has sent from some piece on. *)
Stream(reqs, S) ==
  /\ S \in Seq(AllPieces)
  /\ \A i \in 1..Len(S) : PieceOf(reqs, S[i])
  /\ \A i \in 1..(Len(S) - 1) : Follows(reqs, S[i], S[i + 1])
  /\ Len(S) > 0 => S[Len(S)].r = Len(reqs) /\ S[Len(S)].n = Length(reqs, Len(reqs))

(* What is in the buffer and on the wire. *)
Unread == readBuff_ \o wire

BytesInv ==
  /\ requests \in Seq(Requests) /\ Len(requests) <= MaxRequests
  /\ readBuff_ \in Seq(AllPieces) /\ wire \in Seq(AllPieces)
  /\ Stream(requests, Unread)

(* The forms that were verified, in order: the request line of each has been read. *)
VerifiedInv ==
  /\ verified \in Seq(Calls)
  /\ \A i \in 1..Len(verified) :
       /\ verified[i].r \in i..Len(requests)
       /\ requests[verified[i].r].method = "POST"
       /\ Len(Unread) > 0 => \/ verified[i].r < Unread[1].r
                             \/ verified[i].r = Unread[1].r /\ Unread[1].n > 1
       /\ \A j \in 1..Len(verified) : i < j => verified[i].r < verified[j].r

(* While reads bring whole requests, the wire starts with one and the buffer holds the
   body of the last one if that was a form. *)
WholeInv ==
  whole =>
    /\ Len(wire) > 0 => wire[1].n = 1
    /\ IF LastRead \in Forms(LastRead)
       THEN Len(readBuff_) = 2 /\ readBuff_[1].k = "b1" /\ readBuff_[2].k = "b2"
       ELSE readBuff_ = <<>>
    /\ answer # NoAnswer => LastRead > 0

(* An answer carries a code that MakeResponse can leave, or none yet. *)
AnswerInv == answer.code \in {0, 200, 400, 403, 404} /\ whole \in BOOLEAN

HttpInv == BytesInv /\ VerifiedInv /\ WholeInv /\ AnswerInv /\ WholeRequestsAnswered

-------------------------------------------------------------------------------
(* The smallest of a set of naturals. *)
LEMMA MinOf ==
  ASSUME NEW S \in SUBSET Nat, S # {}
  PROVE  Min(S) \in S /\ \A k \in S : Min(S) <= k
<1>1. \E m \in S : \A k \in S : m <= k
  BY NatMin
<1>2. Min(S) = CHOOSE x \in S : \A y \in S : x <= y
  BY DEF Min
<1> DEFINE m == CHOOSE x \in S : \A y \in S : x <= y
<1>3. m \in S /\ \A y \in S : m <= y
  BY <1>1, Zenon
<1> HIDE DEF m
<1> QED BY <1>2, <1>3 DEF m

(* The first CRLF of a buffer. *)
LEMMA LineEndFirst ==
  ASSUME NEW buf \in Seq(AllPieces)
  PROVE  /\ LineEnd(buf) \in 1..(Len(buf) + 1)
         /\ LineEnd(buf) <= Len(buf) => /\ LineEnd(buf) + 1 <= Len(buf)
                                        /\ buf[LineEnd(buf)].k = "cr"
                                        /\ buf[LineEnd(buf) + 1].k = "lf"
         /\ \A i \in 1..(Len(buf) - 1) :
              buf[i].k = "cr" /\ buf[i + 1].k = "lf" => LineEnd(buf) <= i
<1> DEFINE at == {i \in 1..(Len(buf) - 1) : buf[i].k = "cr" /\ buf[i + 1].k = "lf"}
           S == at \cup {Len(buf) + 1}
<1>1. S \in SUBSET Nat /\ S # {} /\ Len(buf) \in Nat
  OBVIOUS
<1>2. LineEnd(buf) = Min(S)
  BY DEF LineEnd
<1>3. LineEnd(buf) \in S /\ \A k \in S : LineEnd(buf) <= k
  <2> HIDE DEF S
  <2> QED BY <1>1, <1>2, MinOf
<1> QED BY <1>1, <1>3

(* A line of pieces none of which is a CR ends at the first CRLF. *)
LEMMA LineEndAt ==
  ASSUME NEW buf \in Seq(AllPieces), NEW e \in 1..(Len(buf) - 1),
         buf[e].k = "cr", buf[e + 1].k = "lf", \A i \in 1..(e - 1) : buf[i].k # "cr"
  PROVE  LineEnd(buf) = e
<1>1. LineEnd(buf) <= e
  BY LineEndFirst
<1>2. LineEnd(buf) \in 1..(Len(buf) + 1) /\ Len(buf) \in Nat
  BY LineEndFirst
<1>3. buf[LineEnd(buf)].k = "cr"
  BY <1>1, <1>2, LineEndFirst
<1> QED BY <1>1, <1>2, <1>3

(* A buffer without CRLF is one line. *)
LEMMA LineEndNone ==
  ASSUME NEW buf \in Seq(AllPieces),
         \A i \in 1..(Len(buf) - 1) : ~(buf[i].k = "cr" /\ buf[i + 1].k = "lf")
  PROVE  LineEnd(buf) = Len(buf) + 1
<1>1. LineEnd(buf) \in 1..(Len(buf) + 1) /\ Len(buf) \in Nat
  BY LineEndFirst
<1>2. ASSUME LineEnd(buf) <= Len(buf)
      PROVE  FALSE
  <2>1. LineEnd(buf) \in 1..(Len(buf) - 1) /\ buf[LineEnd(buf)].k = "cr" /\ buf[LineEnd(buf) + 1].k = "lf"
    BY <1>1, <1>2, LineEndFirst
  <2> QED BY <2>1
<1> QED BY <1>1, <1>2

-------------------------------------------------------------------------------
(* The request under construction. *)
Fields == {"state", "post", "path", "form", "buf", "call", "ok", "done"}

IsParse(q) ==
  /\ DOMAIN q = Fields
  /\ q.state \in {"REQUEST_LINE", "HEADERS", "BODY", "FINISH"}
  /\ q.post \in BOOLEAN /\ q.form \in BOOLEAN /\ q.ok \in BOOLEAN /\ q.done \in BOOLEAN
  /\ q.buf \in Seq(AllPieces) /\ q.call \in Seq(Calls)

(* The line in hand. *)
LineOf(q) == SubSeq(q.buf, 1, LineEnd(q.buf) - 1)

(* The line in hand is a prefix of the buffer, short of the first line end. *)
LEMMA LineOfPieces ==
  ASSUME NEW q, IsParse(q)
  PROVE  /\ LineOf(q) \in Seq(AllPieces) /\ Len(LineOf(q)) = LineEnd(q.buf) - 1
         /\ Len(LineOf(q)) <= Len(q.buf)
         /\ \A i \in 1..Len(LineOf(q)) : LineOf(q)[i] = q.buf[i]
<1> DEFINE e == LineEnd(q.buf)
           B == q.buf
<1>1. B \in Seq(AllPieces) /\ e \in 1..(Len(B) + 1)
  BY LineEndFirst DEF IsParse
<1> HIDE DEF e, B
<1>2. /\ SubSeq(B, 1, e - 1) \in Seq(AllPieces) /\ Len(SubSeq(B, 1, e - 1)) = e - 1
      /\ \A i \in 1..(e - 1) : SubSeq(B, 1, e - 1)[i] = B[i]
  BY <1>1
<1>3. LineOf(q) = SubSeq(B, 1, e - 1)
  BY DEF LineOf, e, B
<1>4. e - 1 <= Len(B)
  BY <1>1
<1> QED BY <1>2, <1>3, <1>4 DEF e, B

(* A request line that matches. *)
LEMMA RequestLineFields ==
  ASSUME NEW q, IsParse(q), NEW line \in Seq(AllPieces), RequestLineAt(line) # {},
         NEW s, s = ParseRequestLine_(q, line)
  PROVE  /\ IsParse(s) /\ s.state = "HEADERS"
         /\ s.form = q.form /\ s.buf = q.buf /\ s.call = q.call /\ s.ok = q.ok /\ s.done = q.done
         /\ \E i \in RequestLineAt(line) :
              /\ s.path = ParsePath_(requests[line[i].r].path)
              /\ s.post = (i = 1 /\ requests[line[i].r].method = "POST")
<1> DEFINE i == Min(RequestLineAt(line))
           a == ParsePath_(requests[line[i].r].path)
           b == (i = 1 /\ requests[line[i].r].method = "POST")
<1>1. i \in RequestLineAt(line)
  <2>1. RequestLineAt(line) \in SUBSET Nat
    BY DEF RequestLineAt
  <2> QED BY <2>1, MinOf
<1>2. s = [q EXCEPT !.state = "HEADERS", !.path = a, !.post = b]
  BY DEF ParseRequestLine_
<1>3. b \in BOOLEAN
  OBVIOUS
<1> HIDE DEF a, b
<1>4. /\ s.state = "HEADERS" /\ s.path = a /\ s.post = b /\ DOMAIN s = DOMAIN q
      /\ s.form = q.form /\ s.buf = q.buf /\ s.call = q.call /\ s.ok = q.ok /\ s.done = q.done
  BY <1>2 DEF IsParse, Fields
<1>5. IsParse(s)
  BY <1>3, <1>4 DEF IsParse
<1> HIDE DEF i
<1> QED BY <1>1, <1>4, <1>5 DEF a, b

(* A header line. *)
LEMMA HeaderFields ==
  ASSUME NEW q, IsParse(q), NEW line, NEW s, s = ParseHeader_(q, line)
  PROVE  /\ IsParse(s)
         /\ s.form = (q.form \/ Kinds(line) = <<"h1", "h2">>)
         /\ s.state = IF AtMostTwoBytes(q.buf) THEN "FINISH"
                      ELSE IF IsHeader(line) THEN q.state ELSE "BODY"
         /\ s.post = q.post /\ s.path = q.path
         /\ s.buf = q.buf /\ s.call = q.call /\ s.ok = q.ok /\ s.done = q.done
<1> DEFINE a == (q.form \/ Kinds(line) = <<"h1", "h2">>)
           b == IF AtMostTwoBytes(q.buf) THEN "FINISH"
                ELSE IF IsHeader(line) THEN q.state ELSE "BODY"
<1>1. s = [q EXCEPT !.form = a, !.state = b]
  BY DEF ParseHeader_
<1>2. a \in BOOLEAN
  BY Zenon
<1>3. b \in {"REQUEST_LINE", "HEADERS", "BODY", "FINISH"}
  BY DEF IsParse
<1> HIDE DEF a, b
<1>4. /\ s.form = a /\ s.state = b /\ DOMAIN s = DOMAIN q /\ s.post = q.post /\ s.path = q.path
      /\ s.buf = q.buf /\ s.call = q.call /\ s.ok = q.ok /\ s.done = q.done
  BY <1>1 DEF IsParse, Fields
<1>5. IsParse(s)
  BY <1>2, <1>3, <1>4 DEF IsParse
<1> QED BY <1>4, <1>5 DEF a, b

(* The body. *)
LEMMA BodyFields ==
  ASSUME NEW q, IsParse(q), NEW line \in Seq(AllPieces), NEW s, s = ParseBody_(q, line),
         q.post => Len(line) > 0
  PROVE  /\ IsParse(s) /\ s.state = "FINISH"
         /\ s.call = IF q.post /\ q.form /\ q.path \in DEFAULT_HTML_TAG
                     THEN <<[r |-> line[1].r, all |-> Kinds(line) = <<"b1", "b2">>]>>
                     ELSE q.call
         /\ s.form = q.form /\ s.post = q.post /\ s.path = q.path
         /\ s.buf = q.buf /\ s.ok = q.ok /\ s.done = q.done
<1> DEFINE c == [r |-> line[1].r, all |-> Kinds(line) = <<"b1", "b2">>]
           a == IF q.post /\ q.form /\ q.path \in DEFAULT_HTML_TAG THEN <<c>> ELSE q.call
<1>1. s = [q EXCEPT !.state = "FINISH", !.call = a]
  BY DEF ParseBody_
<1>2. a \in Seq(Calls)
  <2>1. CASE q.post /\ q.form /\ q.path \in DEFAULT_HTML_TAG
    <3>1. line[1] \in AllPieces
      BY <2>1
    <3>2. line[1].r \in Nat
      BY <3>1 DEF AllPieces
    <3>3. (Kinds(line) = <<"b1", "b2">>) \in BOOLEAN
      BY Zenon
    <3>4. c \in Calls
      BY <3>2, <3>3, Zenon DEF Calls
    <3> HIDE DEF c
    <3>5. a = <<c>>
      BY <2>1
    <3>6. <<c>> \in Seq(Calls)
      BY <3>4
    <3> HIDE DEF a
    <3> QED BY <3>5, <3>6
  <2>2. CASE ~(q.post /\ q.form /\ q.path \in DEFAULT_HTML_TAG)
    <3>1. a = q.call
      BY <2>2
    <3> QED BY <3>1 DEF IsParse
  <2> QED BY <2>1, <2>2
<1> HIDE DEF a
<1>3. /\ s.state = "FINISH" /\ s.call = a /\ DOMAIN s = DOMAIN q /\ s.form = q.form /\ s.post = q.post
      /\ s.path = q.path /\ s.buf = q.buf /\ s.ok = q.ok /\ s.done = q.done
  BY <1>1 DEF IsParse, Fields
<1>4. IsParse(s)
  BY <1>2, <1>3 DEF IsParse
<1> QED BY <1>3, <1>4 DEF a

(* A round after the loop has ended changes nothing. *)
LEMMA RoundDone ==
  ASSUME NEW q, q.done
  PROVE  Round(q) = q
BY DEF Round

(* The condition of the loop is false. *)
LEMMA RoundEnds ==
  ASSUME NEW q, IsParse(q), ~q.done, q.buf = <<>> \/ q.state = "FINISH", NEW s, s = Round(q)
  PROVE  /\ IsParse(s) /\ s.done /\ s.ok
         /\ s.state = q.state /\ s.post = q.post /\ s.path = q.path /\ s.form = q.form
         /\ s.buf = q.buf /\ s.call = q.call
<1>1. s = [q EXCEPT !.done = TRUE, !.ok = TRUE]
  BY DEF Round
<1>2. /\ s.done = TRUE /\ s.ok = TRUE /\ DOMAIN s = DOMAIN q
      /\ s.state = q.state /\ s.post = q.post /\ s.path = q.path /\ s.form = q.form
      /\ s.buf = q.buf /\ s.call = q.call
  BY <1>1 DEF IsParse, Fields
<1>3. IsParse(s)
  BY <1>2 DEF IsParse
<1> QED BY <1>2, <1>3

(* The request line does not match. *)
LEMMA RoundFails ==
  ASSUME NEW q, IsParse(q), ~q.done, q.buf # <<>>, q.state = "REQUEST_LINE",
         RequestLineAt(LineOf(q)) = {}, NEW s, s = Round(q)
  PROVE  /\ IsParse(s) /\ s.done /\ s.ok = q.ok
         /\ s.state = q.state /\ s.post = q.post /\ s.path = q.path /\ s.form = q.form
         /\ s.buf = q.buf /\ s.call = q.call
<1>1. s = [q EXCEPT !.done = TRUE]
  BY DEF Round, LineOf
<1>2. /\ s.done = TRUE /\ s.ok = q.ok /\ DOMAIN s = DOMAIN q
      /\ s.state = q.state /\ s.post = q.post /\ s.path = q.path /\ s.form = q.form
      /\ s.buf = q.buf /\ s.call = q.call
  BY <1>1 DEF IsParse, Fields
<1>3. IsParse(s)
  BY <1>2 DEF IsParse
<1> QED BY <1>2, <1>3

(* A line is parsed to p: without CRLF the loop ends, else the line is retrieved. *)
LEMMA RoundLine ==
  ASSUME NEW q, IsParse(q), ~q.done, q.buf # <<>>, q.state # "FINISH",
         q.state = "REQUEST_LINE" => RequestLineAt(LineOf(q)) # {},
         NEW p, p = ParseLine(q, LineOf(q)), IsParse(p), p.buf = q.buf, p.ok = q.ok, p.done = q.done,
         NEW s, s = Round(q)
  PROVE  /\ IsParse(s)
         /\ s.state = p.state /\ s.post = p.post /\ s.path = p.path /\ s.form = p.form
         /\ s.call = p.call
         /\ LineEnd(q.buf) > Len(q.buf) => s.done /\ s.ok /\ s.buf = q.buf
         /\ LineEnd(q.buf) <= Len(q.buf) => /\ ~s.done /\ s.ok = q.ok
                                            /\ s.buf = SubSeq(q.buf, LineEnd(q.buf) + 2, Len(q.buf))
<1>1. LineEnd(q.buf) \in Int /\ Len(q.buf) \in Int
  BY LineEndFirst DEF IsParse
<1>2. CASE LineEnd(q.buf) > Len(q.buf)
  <2>1. s = [p EXCEPT !.done = TRUE, !.ok = TRUE]
    BY <1>2 DEF Round, LineOf
  <2>2. /\ s.done = TRUE /\ s.ok = TRUE /\ DOMAIN s = DOMAIN p
        /\ s.state = p.state /\ s.post = p.post /\ s.path = p.path /\ s.form = p.form
        /\ s.buf = p.buf /\ s.call = p.call
    BY <2>1 DEF IsParse, Fields
  <2>3. IsParse(s)
    BY <2>2 DEF IsParse
  <2> QED BY <1>1, <1>2, <2>2, <2>3
<1>3. CASE LineEnd(q.buf) <= Len(q.buf)
  <2> DEFINE b == SubSeq(q.buf, LineEnd(q.buf) + 2, Len(q.buf))
  <2>1. s = Retrieve(p, LineEnd(q.buf))
    BY <1>1, <1>3 DEF Round, LineOf
  <2>2. s = [p EXCEPT !.buf = b]
    BY <2>1 DEF Retrieve
  <2>3. b \in Seq(AllPieces)
    <3> DEFINE e == LineEnd(q.buf)
               B == q.buf
    <3>1. B \in Seq(AllPieces) /\ e + 1 \in 0..Len(B)
      BY <1>1, <1>3, LineEndFirst DEF IsParse
    <3> HIDE DEF e, B
    <3>2. SubSeq(B, (e + 1) + 1, Len(B)) \in Seq(AllPieces)
      BY <3>1
    <3>3. (e + 1) + 1 = e + 2
      BY <1>1 DEF e
    <3> QED BY <3>2, <3>3 DEF e, B
  <2> HIDE DEF b
  <2>4. /\ s.done = p.done /\ s.ok = p.ok /\ DOMAIN s = DOMAIN p
        /\ s.state = p.state /\ s.post = p.post /\ s.path = p.path /\ s.form = p.form
        /\ s.buf = b /\ s.call = p.call
    BY <2>2 DEF IsParse, Fields
  <2>5. IsParse(s)
    BY <2>3, <2>4 DEF IsParse
  <2> QED BY <1>1, <1>3, <2>4, <2>5 DEF b
<1> QED BY <1>1, <1>2, <1>3

-------------------------------------------------------------------------------
(* Induction up to n. *)
LEMMA UpTo ==
  ASSUME NEW n \in Nat, NEW S, 0 \in S, \A k \in 1..n : k - 1 \in S => k \in S
  PROVE  n \in S
<1> DEFINE Bad == {k \in 0..n : k \notin S}
<1> SUFFICES ASSUME Bad # {} PROVE FALSE
  OBVIOUS
<1>1. PICK m \in Bad : \A k \in Bad : m <= k
  <2>1. Bad \in SUBSET Nat
    OBVIOUS
  <2> HIDE DEF Bad
  <2> QED BY <2>1, NatMin
<1>2. m \in 1..n /\ m - 1 \in 0..n /\ ~(m <= m - 1) /\ m \notin S
  BY <1>1
<1>3. m - 1 \in S
  BY <1>1, <1>2
<1> QED BY <1>2, <1>3

(* The rounds of parse: g[i] is the request after i of them. *)
Start(buf) ==
  [state |-> "REQUEST_LINE", post |-> FALSE, path |-> "", form |-> FALSE,
   buf |-> buf, call |-> <<>>, ok |-> FALSE, done |-> FALSE]

Rounds(g, n, buf) == g[0] = Start(buf) /\ \A i \in 1..n : g[i] = Round(g[i - 1])

(* There are rounds of any number. *)
LEMMA RoundsExist ==
  ASSUME NEW n \in Nat, NEW buf
  PROVE  \E g : g = [i \in 0..n |-> g[i]] /\ Rounds(g, n, buf)
<1> DEFINE Good(k) == \E g : g = [i \in 0..k |-> g[i]] /\ Rounds(g, k, buf)
           Bad == {k \in Nat : ~Good(k)}
<1> SUFFICES ASSUME Bad # {}
             PROVE  FALSE
  OBVIOUS
<1>1. PICK m \in Bad : \A k \in Bad : m <= k
  <2>1. Bad \in SUBSET Nat
    OBVIOUS
  <2> HIDE DEF Bad
  <2> QED BY <2>1, NatMin
<1>2. m \in Nat /\ ~Good(m)
  OBVIOUS
<1>3. CASE m = 0
  <2> DEFINE f == [i \in 0..0 |-> Start(buf)]
  <2>1. f = [i \in 0..0 |-> f[i]] /\ Rounds(f, 0, buf)
    BY DEF Rounds
  <2> QED BY <2>1, <1>2, <1>3
<1>4. CASE m # 0
  <2>1. m - 1 \in Nat /\ ~(m <= m - 1)
    BY <1>2, <1>4
  <2>2. Good(m - 1)
    <3>1. m - 1 \notin Bad
      <4> HIDE DEF Bad
      <4> QED BY <1>1, <2>1
    <3> HIDE DEF Good
    <3> QED BY <2>1, <3>1
  <2>3. PICK g : Rounds(g, m - 1, buf)
    BY <2>2
  <2> HIDE DEF Good, Bad
  <2> DEFINE f == [i \in 0..m |-> IF i = m THEN Round(g[m - 1]) ELSE g[i]]
  <2>4. f = [i \in 0..m |-> f[i]]
    OBVIOUS
  <2>5. /\ f[0] = Start(buf) /\ f[m] = Round(g[m - 1])
        /\ \A i \in 0..(m - 1) : f[i] = g[i]
    BY <1>2, <1>4, <2>3 DEF Rounds
  <2> HIDE DEF f
  <2>6. ASSUME NEW i \in 1..m
        PROVE  f[i] = Round(f[i - 1])
    <3>1. i - 1 \in 0..(m - 1) /\ f[i - 1] = g[i - 1]
      BY <1>2, <2>5
    <3>2. CASE i = m
      BY <2>5, <3>1, <3>2
    <3>3. CASE i # m
      <4>1. i \in 1..(m - 1) /\ i \in 0..(m - 1)
        BY <1>2, <3>3
      <4>2. g[i] = Round(g[i - 1])
        BY <2>3, <4>1, Zenon DEF Rounds
      <4>3. f[i] = g[i]
        BY <2>5, <4>1
      <4> QED BY <3>1, <4>2, <4>3
    <3> QED BY <3>2, <3>3
  <2>7. Rounds(f, m, buf)
    BY <2>5, <2>6 DEF Rounds
  <2> QED BY <1>2, <2>4, <2>7 DEF Good
<1> QED BY <1>3, <1>4

(* parse returns what the last round leaves. *)
LEMMA ParseIsRounds ==
  ASSUME NEW buf \in Seq(AllPieces)
  PROVE  \E g : Rounds(g, Len(buf) + 1, buf) /\ parse(buf) = g[Len(buf) + 1]
<1> DEFINE n == Len(buf) + 1
           E(f) == [i \in 0..n |-> IF i = 0 THEN Start(buf) ELSE Round(f[i - 1])]
           after == CHOOSE f : f = E(f)
<1>1. n \in Nat /\ n \in 0..n /\ 0 \in 0..n
  OBVIOUS
<1>2. PICK g : g = [i \in 0..n |-> g[i]] /\ Rounds(g, n, buf)
  BY <1>1, RoundsExist
<1>3. g = E(g)
  <2> HIDE DEF n
  <2>1. \A i \in 0..n : i # 0 => i \in 1..n
    BY <1>1
  <2>2. \A i \in 0..n : g[i] = IF i = 0 THEN Start(buf) ELSE Round(g[i - 1])
    BY <1>2, <2>1 DEF Rounds
  <2> QED BY <1>2, <2>2
<1>4. after = E(after)
  <2> HIDE DEF E
  <2> QED BY <1>3, Zenon
<1>5. parse(buf) = after[n]
  BY Zenon DEF parse, Start
<1> HIDE DEF after, n
<1>6. Rounds(after, n, buf)
  BY <1>1, <1>4 DEF Rounds
<1> QED BY <1>5, <1>6 DEF n


-------------------------------------------------------------------------------
(* b is what is left of B after its first m pieces. *)
Rest(B, b, m) ==
  /\ b \in Seq(AllPieces) /\ m \in 0..Len(B) /\ Len(b) = Len(B) - m
  /\ \A i \in 1..Len(b) : b[i] = B[m + i]

(* Retrieving e + 1 pieces more. *)
LEMMA RestOfRest ==
  ASSUME NEW B \in Seq(AllPieces), NEW b, NEW m, Rest(B, b, m), NEW e \in 1..(Len(b) - 1)
  PROVE  Rest(B, SubSeq(b, e + 2, Len(b)), m + e + 1)
<1>1. b \in Seq(AllPieces) /\ m \in Nat /\ m <= Len(B) /\ Len(b) = Len(B) - m
  BY DEF Rest
<1> DEFINE d == e + 1
           c == SubSeq(b, d + 1, Len(b))
<1>2. d \in 0..Len(b) /\ d \in Int
  BY <1>1
<1> HIDE DEF d
<1>3. c \in Seq(AllPieces) /\ Len(c) = Len(b) - d /\ \A i \in 1..(Len(b) - d) : c[i] = b[d + i]
  BY <1>1, <1>2
<1> HIDE DEF c
<1>4. m + d \in 0..Len(B) /\ Len(c) = Len(B) - (m + d)
  BY <1>1, <1>2, <1>3
<1>5. ASSUME NEW i \in 1..Len(c)
      PROVE  c[i] = B[(m + d) + i]
  <2>1. d + i \in 1..Len(b) /\ m + (d + i) = (m + d) + i
    BY <1>1, <1>2, <1>3
  <2>2. b[d + i] = B[m + (d + i)]
    BY <2>1 DEF Rest
  <2> QED BY <1>3, <2>1, <2>2
<1>6. Rest(B, c, m + d)
  BY <1>3, <1>4, <1>5 DEF Rest
<1>7. c = SubSeq(b, e + 2, Len(b)) /\ m + d = m + e + 1
  BY <1>1 DEF c, d
<1> QED BY <1>6, <1>7

(* A buffer whose first piece starts the request line of a form. *)
StartsForm(B) == Len(B) > 0 /\ B[1].k = "r1" /\ requests[B[1].r].method = "POST"

(* Without one there is no call of UserVerify. *)
Quiet(B, q) ==
  /\ IsParse(q) /\ (\E m \in 0..Len(B) : Rest(B, q.buf, m))
  /\ ~q.post /\ q.call = <<>>
  /\ q.state = "REQUEST_LINE" => q.buf = B

(* Outside a form, a round of parse's loop neither marks a POST nor verifies. *)
LEMMA RoundQuiet ==
  ASSUME NEW B \in Seq(AllPieces), ~StartsForm(B), NEW q, Quiet(B, q)
  PROVE  Quiet(B, Round(q))
<1> DEFINE s == Round(q)
           line == LineOf(q)
           e == LineEnd(q.buf)
<1>1. IsParse(q) /\ ~q.post /\ q.call = <<>> /\ Len(B) \in Nat
  BY DEF Quiet
<1>2. PICK m \in 0..Len(B) : Rest(B, q.buf, m)
  BY DEF Quiet
<1>3. CASE q.done
  BY <1>3, RoundDone
<1>4. CASE ~q.done /\ (q.buf = <<>> \/ q.state = "FINISH")
  <2>1. IsParse(s) /\ s.state = q.state /\ s.post = q.post /\ s.buf = q.buf /\ s.call = q.call
    BY <1>1, <1>4, RoundEnds
  <2> HIDE DEF s
  <2>2. Quiet(B, s)
    BY <2>1 DEF Quiet
  <2> QED BY <2>2 DEF s
<1>5. CASE ~q.done /\ q.buf # <<>> /\ q.state = "REQUEST_LINE" /\ RequestLineAt(line) = {}
  <2>1. IsParse(s) /\ s.state = q.state /\ s.post = q.post /\ s.buf = q.buf /\ s.call = q.call
    BY <1>1, <1>5, RoundFails
  <2> HIDE DEF s
  <2>2. Quiet(B, s)
    BY <2>1 DEF Quiet
  <2> QED BY <2>2 DEF s
<1>6. CASE /\ ~q.done /\ q.buf # <<>> /\ q.state # "FINISH"
           /\ q.state = "REQUEST_LINE" => RequestLineAt(line) # {}
  <2> DEFINE p == ParseLine(q, line)
  <2>1. line \in Seq(AllPieces) /\ Len(line) <= Len(q.buf) /\ \A i \in 1..Len(line) : line[i] = q.buf[i]
    BY <1>1, LineOfPieces
  <2>2. /\ IsParse(p) /\ p.buf = q.buf /\ p.ok = q.ok /\ p.done = q.done
        /\ ~p.post /\ p.call = <<>> /\ p.state # "REQUEST_LINE"
    <3>1. CASE q.state = "REQUEST_LINE"
      <4>1. p = ParseRequestLine_(q, line)
        BY <3>1 DEF ParseLine
      <4> HIDE DEF p, line
      <4>2. /\ IsParse(p) /\ p.state = "HEADERS"
            /\ p.form = q.form /\ p.buf = q.buf /\ p.call = q.call /\ p.ok = q.ok /\ p.done = q.done
            /\ \E i \in RequestLineAt(line) :
                 p.post = (i = 1 /\ requests[line[i].r].method = "POST")
        BY <1>1, <1>6, <2>1, <3>1, <4>1, RequestLineFields
      <4>3. PICK i \in RequestLineAt(line) :
              p.post = (i = 1 /\ requests[line[i].r].method = "POST")
        BY <4>2
      <4>4. ASSUME i = 1, requests[line[1].r].method = "POST"
            PROVE  FALSE
        <5>1. 1 \in 1..Len(line) /\ line[1].k = "r1"
          BY <2>1, <4>4 DEF RequestLineAt
        <5>2. q.buf = B /\ line[1] = B[1] /\ Len(B) > 0
          BY <2>1, <3>1, <5>1 DEF Quiet
        <5> QED BY <4>4, <5>1, <5>2 DEF StartsForm
      <4>5. ~p.post
        BY <4>3, <4>4
      <4> QED BY <1>1, <4>2, <4>5
    <3>2. CASE q.state = "HEADERS"
      <4>1. p = ParseHeader_(q, line)
        BY <3>2 DEF ParseLine
      <4> HIDE DEF p, line
      <4>2. /\ IsParse(p) /\ p.post = q.post
            /\ p.state = IF AtMostTwoBytes(q.buf) THEN "FINISH"
                         ELSE IF IsHeader(line) THEN q.state ELSE "BODY"
            /\ p.buf = q.buf /\ p.call = q.call /\ p.ok = q.ok /\ p.done = q.done
        BY <1>1, <4>1, HeaderFields
      <4> QED BY <1>1, <3>2, <4>2
    <3>3. CASE q.state = "BODY"
      <4>1. p = ParseBody_(q, line)
        BY <3>3 DEF ParseLine
      <4> HIDE DEF p, line
      <4>2. q.post => Len(line) > 0
        BY <1>1
      <4>3. /\ IsParse(p) /\ p.state = "FINISH"
            /\ p.post = q.post /\ p.buf = q.buf /\ p.ok = q.ok /\ p.done = q.done
        <5>1. line \in Seq(AllPieces) /\ IsParse(q)
          BY <1>1, <2>1
        <5>2. IsParse(p)
          BY <4>1, <4>2, <5>1, BodyFields, Zenon
        <5>3. p.state = "FINISH"
          BY <4>1, <4>2, <5>1, BodyFields, Zenon
        <5>4. p.post = q.post
          BY <4>1, <4>2, <5>1, BodyFields, Zenon
        <5>5. p.buf = q.buf
          BY <4>1, <4>2, <5>1, BodyFields, Zenon
        <5>6. p.ok = q.ok
          BY <4>1, <4>2, <5>1, BodyFields, Zenon
        <5>7. p.done = q.done
          BY <4>1, <4>2, <5>1, BodyFields, Zenon
        <5> QED BY <5>2, <5>3, <5>4, <5>5, <5>6, <5>7
      <4>4. p.call = IF q.post /\ q.form /\ q.path \in DEFAULT_HTML_TAG
                     THEN <<[r |-> line[1].r, all |-> Kinds(line) = <<"b1", "b2">>]>>
                     ELSE q.call
        BY <1>1, <2>1, <4>1, <4>2, BodyFields, Zenon
      <4> QED BY <1>1, <4>3, <4>4
    <3> QED BY <1>1, <1>6, <3>1, <3>2, <3>3 DEF IsParse
  <2> HIDE DEF p
  <2>3. /\ IsParse(s) /\ s.state = p.state /\ s.post = p.post /\ s.call = p.call
        /\ e > Len(q.buf) => s.buf = q.buf
        /\ e <= Len(q.buf) => s.buf = SubSeq(q.buf, e + 2, Len(q.buf))
    BY <1>1, <1>6, <2>2, RoundLine DEF p
  <2>4. e \in 1..(Len(q.buf) + 1) /\ (e <= Len(q.buf) => e + 1 <= Len(q.buf)) /\ Len(q.buf) \in Nat
    BY <1>1, LineEndFirst DEF IsParse
  <2> HIDE DEF s, e
  <2>5. \E k \in 0..Len(B) : Rest(B, s.buf, k)
    <3>1. CASE e > Len(q.buf)
      BY <1>2, <2>3, <3>1
    <3>2. CASE e <= Len(q.buf)
      <4>1. e \in 1..(Len(q.buf) - 1)
        BY <2>4, <3>2
      <4>2. Rest(B, SubSeq(q.buf, e + 2, Len(q.buf)), m + e + 1)
        BY <1>2, <4>1, RestOfRest
      <4>3. m + e + 1 \in 0..Len(B)
        BY <4>2 DEF Rest
      <4> QED BY <2>3, <3>2, <4>2, <4>3
    <3> QED BY <2>4, <3>1, <3>2
  <2>6. Quiet(B, s)
    BY <2>2, <2>3, <2>5 DEF Quiet
  <2> QED BY <2>6 DEF s
<1> QED BY <1>3, <1>4, <1>5, <1>6

(* The kinds one by one. *)
LEMMA KindAtValues ==
  /\ KindAt[1] = "r1" /\ KindAt[2] = "r2" /\ KindAt[3] = "cr" /\ KindAt[4] = "lf"
  /\ KindAt[5] = "h1" /\ KindAt[6] = "h2" /\ KindAt[7] = "cr" /\ KindAt[8] = "lf"
  /\ KindAt[9] = "cr" /\ KindAt[10] = "lf" /\ KindAt[11] = "b1" /\ KindAt[12] = "b2"
BY DEF KindAt

(* B starts with a request, as far as it goes. *)
RequestFirst(B) ==
  \A j \in 1..Len(B) : j <= 12 => B[j].k = KindAt[j] /\ B[j].r = B[1].r

(* The parser in a buffer that starts with a form: where each state has its line, and
   that the call is for this form. *)
InForm(B, q) ==
  /\ IsParse(q)
  /\ \E m \in 0..Len(B) :
       /\ Rest(B, q.buf, m)
       /\ q.state = "REQUEST_LINE" => m = 0
       /\ q.state = "HEADERS" /\ ~q.done => m \in {4, 8}
       /\ q.state = "BODY" /\ ~q.done => m = 10
       /\ q.call # <<>> => /\ q.state = "FINISH" /\ m >= 10
                           /\ \E all \in BOOLEAN : q.call = <<[r |-> B[1].r, all |-> all]>>

(* A round of parse's loop over a form stays in that form: it verifies only the
   user of the request the buffer starts with, and only after its headers. *)
LEMMA RoundInForm ==
  ASSUME NEW B \in Seq(AllPieces), RequestFirst(B), NEW q, InForm(B, q)
  PROVE  InForm(B, Round(q))
<1> DEFINE s == Round(q)
           line == LineOf(q)
           e == LineEnd(q.buf)
           n == Len(q.buf)
           k(j) == B[j].k
<1>1. IsParse(q) /\ Len(B) \in Nat
  BY DEF InForm
<1>2. PICK m \in 0..Len(B) :
       /\ Rest(B, q.buf, m)
       /\ q.state = "REQUEST_LINE" => m = 0
       /\ q.state = "HEADERS" /\ ~q.done => m \in {4, 8}
       /\ q.state = "BODY" /\ ~q.done => m = 10
       /\ q.call # <<>> => /\ q.state = "FINISH" /\ m >= 10
                           /\ \E all \in BOOLEAN : q.call = <<[r |-> B[1].r, all |-> all]>>
  BY DEF InForm
<1>3. CASE q.done
  BY <1>3, RoundDone
<1>4. CASE ~q.done /\ (q.buf = <<>> \/ q.state = "FINISH")
  <2>1. IsParse(s) /\ s.done /\ s.state = q.state /\ s.buf = q.buf /\ s.call = q.call
    BY <1>1, <1>4, RoundEnds
  <2> HIDE DEF s
  <2>2. InForm(B, s)
    BY <1>2, <2>1 DEF InForm
  <2> QED BY <2>2 DEF s
<1>5. CASE ~q.done /\ q.buf # <<>> /\ q.state = "REQUEST_LINE" /\ RequestLineAt(line) = {}
  <2>1. IsParse(s) /\ s.done /\ s.state = q.state /\ s.buf = q.buf /\ s.call = q.call
    BY <1>1, <1>5, RoundFails
  <2> HIDE DEF s
  <2>2. InForm(B, s)
    BY <1>2, <2>1 DEF InForm
  <2> QED BY <2>2 DEF s
<1>6. CASE /\ ~q.done /\ q.buf # <<>> /\ q.state # "FINISH"
           /\ q.state = "REQUEST_LINE" => RequestLineAt(line) # {}
  <2> DEFINE p == ParseLine(q, line)
  <2>1. line \in Seq(AllPieces) /\ Len(line) = e - 1 /\ \A i \in 1..Len(line) : line[i] = q.buf[i]
    BY <1>1, LineOfPieces
  <2>2. /\ e \in 1..(n + 1) /\ n \in Nat /\ n > 0
        /\ e <= n => e + 1 <= n /\ q.buf[e].k = "cr" /\ q.buf[e + 1].k = "lf"
        /\ \A i \in 1..(n - 1) : q.buf[i].k = "cr" /\ q.buf[i + 1].k = "lf" => e <= i
    <3>1. q.buf \in Seq(AllPieces)
      BY <1>1 DEF IsParse
    <3>2. n \in Nat /\ n > 0
      BY <1>6, <3>1
    <3>3. e \in 1..(n + 1) /\ \A i \in 1..(n - 1) : q.buf[i].k = "cr" /\ q.buf[i + 1].k = "lf" => e <= i
      BY <3>1, LineEndFirst
    <3>4. e <= n => e + 1 <= n /\ q.buf[e].k = "cr" /\ q.buf[e + 1].k = "lf"
      BY <3>1, LineEndFirst
    <3> QED BY <3>2, <3>3, <3>4
  <2>3. q.call = <<>>
    BY <1>2, <1>6
  <2>4. n = Len(B) - m /\ \A i \in 1..n : q.buf[i] = B[m + i]
    BY <1>2 DEF Rest
  <2>5. \A j \in 1..Len(B) : j <= 12 => k(j) = KindAt[j] /\ B[j].r = B[1].r
    BY DEF RequestFirst
  \* what a round does that parses to p
  <2>6. ASSUME IsParse(p), p.buf = q.buf, p.ok = q.ok, p.done = q.done
        PROVE  /\ IsParse(s) /\ s.state = p.state /\ s.call = p.call
               /\ e > n => s.done /\ s.buf = q.buf
               /\ e <= n => ~s.done /\ s.buf = SubSeq(q.buf, e + 2, n)
    BY <1>1, <1>6, <2>6, RoundLine
  <2>7. e <= n => Rest(B, SubSeq(q.buf, e + 2, n), m + e + 1) /\ m + e + 1 \in 0..Len(B)
    <3> SUFFICES ASSUME e <= n
                 PROVE  Rest(B, SubSeq(q.buf, e + 2, n), m + e + 1) /\ m + e + 1 \in 0..Len(B)
      OBVIOUS
    <3>1. e \in 1..(n - 1)
      BY <2>2
    <3>2. Rest(B, SubSeq(q.buf, e + 2, n), m + e + 1)
      BY <1>2, <3>1, RestOfRest
    <3> QED BY <3>2 DEF Rest
  <2> HIDE DEF p, line, e, n, s
  <2>8. CASE q.state = "REQUEST_LINE"
    <3>1. p = ParseRequestLine_(q, line)
      BY <2>8 DEF ParseLine, p
    <3>2. /\ IsParse(p) /\ p.state = "HEADERS"
          /\ p.buf = q.buf /\ p.call = q.call /\ p.ok = q.ok /\ p.done = q.done
      BY <1>1, <1>6, <2>1, <2>8, <3>1, RequestLineFields
    <3>3. /\ IsParse(s) /\ s.state = "HEADERS" /\ s.call = <<>>
          /\ e > n => s.done /\ s.buf = q.buf
          /\ e <= n => ~s.done /\ s.buf = SubSeq(q.buf, e + 2, n)
      BY <2>3, <2>6, <3>2
    <3>4. m = 0
      BY <1>2, <2>8
    <3>5. CASE e > n
      BY <1>2, <3>3, <3>5 DEF InForm, s
    <3>6. CASE e <= n
      <4>1. e # 1 /\ e # 2
        BY <2>2, <2>4, <2>5, <3>4, <3>6, KindAtValues, SMTT(30)
      <4>2. e <= 3
        <5>1. 3 \in 1..(n - 1) /\ q.buf[3] = B[3] /\ q.buf[4] = B[4] /\ 3 \in 1..Len(B) /\ 4 \in 1..Len(B)
          BY <2>2, <2>4, <3>4, <3>6, <4>1
        <5> QED BY <2>2, <2>5, <5>1, KindAtValues, SMTT(30)
      <4>3. e = 3 /\ m + e + 1 = 4
        BY <2>2, <3>4, <4>1, <4>2
      <4>4. InForm(B, s)
        BY <2>7, <3>3, <3>6, <4>3 DEF InForm
      <4> QED BY <4>4 DEF s
    <3> QED BY <2>2, <3>5, <3>6
  <2>9. CASE q.state = "HEADERS"
    <3>1. p = ParseHeader_(q, line)
      BY <2>9 DEF ParseLine, p
    <3>2. /\ IsParse(p)
          /\ p.state = IF AtMostTwoBytes(q.buf) THEN "FINISH"
                       ELSE IF IsHeader(line) THEN q.state ELSE "BODY"
          /\ p.buf = q.buf /\ p.call = q.call /\ p.ok = q.ok /\ p.done = q.done
      BY <1>1, <3>1, HeaderFields
    <3>3. /\ IsParse(s) /\ s.state = p.state /\ s.call = <<>>
          /\ e > n => s.done /\ s.buf = q.buf
          /\ e <= n => ~s.done /\ s.buf = SubSeq(q.buf, e + 2, n)
      BY <2>3, <2>6, <3>2
    <3>4. m \in {4, 8} /\ s.state # "REQUEST_LINE"
      BY <1>2, <1>6, <2>9, <3>2, <3>3
    <3>5. CASE e > n
      <4>1. InForm(B, s)
        BY <1>2, <3>3, <3>4, <3>5 DEF InForm
      <4> QED BY <4>1 DEF s
    <3>6. CASE e <= n /\ m = 4
      <4>1. e # 1 /\ e # 2
        BY <2>2, <2>4, <2>5, <3>6, KindAtValues, SMTT(30)
      <4>2. e <= 3
        <5>1. /\ 3 \in 1..(n - 1) /\ q.buf[3] = B[7] /\ q.buf[4] = B[8]
              /\ 7 \in 1..Len(B) /\ 8 \in 1..Len(B)
          BY <2>2, <2>4, <3>6, <4>1
        <5> QED BY <2>2, <2>5, <5>1, KindAtValues
      <4>3. e = 3 /\ m + e + 1 = 8
        BY <2>2, <3>6, <4>1, <4>2
      <4>4. q.buf[1] = B[5] /\ q.buf[2] = B[6] /\ 5 \in 1..Len(B) /\ 6 \in 1..Len(B)
        BY <2>2, <2>4, <3>6, <4>3
      <4>5. q.buf[1].k = "h1" /\ q.buf[2].k = "h2"
        BY <2>5, <4>4, KindAtValues
      <4>6. ~AtMostTwoBytes(q.buf)
        <5>1. 1 \in DOMAIN q.buf
          BY <1>1, <2>2 DEF IsParse, n
        <5> QED BY <4>5, <5>1 DEF AtMostTwoBytes
      <4>7. IsHeader(line)
        <5>1. DOMAIN line = 1..2 /\ line[2].k = "h2"
          BY <2>1, <4>3, <4>5
        <5> QED BY <5>1 DEF IsHeader
      <4>8. s.state = "HEADERS"
        BY <2>9, <3>2, <3>3, <4>6, <4>7
      <4>9. InForm(B, s)
        BY <2>7, <3>3, <3>6, <4>3, <4>8 DEF InForm
      <4> QED BY <4>9 DEF s
    <3>7. CASE e <= n /\ m = 8
      <4>1. /\ 1 \in 1..(n - 1) /\ q.buf[1] = B[9] /\ q.buf[2] = B[10]
            /\ 9 \in 1..Len(B) /\ 10 \in 1..Len(B)
        BY <2>2, <2>4, <3>7
      <4>2. e <= 1
        <5>1. B[9].k = "cr" /\ B[10].k = "lf"
          BY <2>5, <4>1, KindAtValues
        <5>2. q.buf[1].k = "cr" /\ q.buf[1 + 1].k = "lf"
          BY <4>1, <5>1
        <5> QED BY <2>2, <4>1, <5>2
      <4>3. e = 1 /\ m + e + 1 = 10
        BY <2>2, <3>7, <4>2
      <4>4. ~IsHeader(line)
        <5>1. DOMAIN line = {}
          BY <2>1, <4>3
        <5> QED BY <5>1 DEF IsHeader
      <4>5. s.state \in {"BODY", "FINISH"}
        BY <3>2, <3>3, <4>4
      <4>6. InForm(B, s)
        BY <2>7, <3>3, <3>7, <4>3, <4>5 DEF InForm
      <4> QED BY <4>6 DEF s
    <3> QED BY <2>2, <3>4, <3>5, <3>6, <3>7
  <2>10. CASE q.state = "BODY"
    <3>1. m = 10
      BY <1>2, <1>6, <2>10
    <3>2. q.buf[1] = B[11] /\ 11 \in 1..Len(B)
      BY <1>1, <2>2, <2>4, <3>1
    <3>3. q.buf[1].k = "b1" /\ q.buf[1].r = B[1].r
      BY <2>5, <3>2, KindAtValues
    <3>4. e # 1
      BY <2>2, <3>3
    <3>5. Len(line) > 0 /\ line[1].r = B[1].r
      BY <2>1, <2>2, <3>3, <3>4
    <3>6. p = ParseBody_(q, line)
      BY <2>10 DEF ParseLine, p
    <3>13. q.post => Len(line) > 0
      BY <3>5
    <3>7. /\ IsParse(p) /\ p.state = "FINISH"
          /\ p.buf = q.buf /\ p.ok = q.ok /\ p.done = q.done
      <4>1. line \in Seq(AllPieces)
        BY <2>1
      <4>2. IsParse(q)
        BY <1>1
      <4>3. IsParse(p)
        BY <3>6, <3>13, <4>1, <4>2, BodyFields, Zenon
      <4>4. p.state = "FINISH"
        BY <3>6, <3>13, <4>1, <4>2, BodyFields, Zenon
      <4>5. p.buf = q.buf
        BY <3>6, <3>13, <4>1, <4>2, BodyFields, Zenon
      <4>6. p.ok = q.ok
        BY <3>6, <3>13, <4>1, <4>2, BodyFields, Zenon
      <4>7. p.done = q.done
        BY <3>6, <3>13, <4>1, <4>2, BodyFields, Zenon
      <4> QED BY <4>3, <4>4, <4>5, <4>6, <4>7
    <3>8. p.call = IF q.post /\ q.form /\ q.path \in DEFAULT_HTML_TAG
                   THEN <<[r |-> line[1].r, all |-> Kinds(line) = <<"b1", "b2">>]>>
                   ELSE q.call
      BY <1>1, <2>1, <3>6, <3>13, BodyFields, Zenon
    <3>9. p.call # <<>> => \E all \in BOOLEAN : p.call = <<[r |-> B[1].r, all |-> all]>>
      <4> DEFINE all == Kinds(line) = <<"b1", "b2">>
      <4>1. all \in BOOLEAN
        BY Zenon
      <4> HIDE DEF all
      <4>2. p.call = <<>> \/ p.call = <<[r |-> B[1].r, all |-> all]>>
        BY <2>3, <3>5, <3>8 DEF all
      <4> QED BY <4>1, <4>2
    <3>10. /\ IsParse(s) /\ s.state = "FINISH" /\ s.call = p.call
           /\ e > n => s.done /\ s.buf = q.buf
           /\ e <= n => ~s.done /\ s.buf = SubSeq(q.buf, e + 2, n)
      BY <2>6, <3>7
    <3>11. CASE e > n
      <4>2. Rest(B, s.buf, 10) /\ 10 \in 0..Len(B) /\ 10 >= 10
        BY <1>2, <3>1, <3>10, <3>11
      <4>3. s.call # <<>> => \E all \in BOOLEAN : s.call = <<[r |-> B[1].r, all |-> all]>>
        BY <3>9, <3>10
      <4>4. IsParse(s) /\ s.state = "FINISH"
        BY <3>10
      <4>1. InForm(B, s)
        BY <4>2, <4>3, <4>4 DEF InForm
      <4> QED BY <4>1 DEF s
    <3>12. CASE e <= n
      <4>1. m + e + 1 >= 10
        BY <2>2, <3>1
      <4>2. InForm(B, s)
        BY <2>7, <3>9, <3>10, <3>12, <4>1 DEF InForm
      <4> QED BY <4>2 DEF s
    <3> QED BY <2>2, <3>11, <3>12
  <2> QED BY <1>1, <1>6, <2>8, <2>9, <2>10 DEF IsParse
<1> QED BY <1>3, <1>4, <1>5, <1>6

(* Where parse starts. *)
LEMMA StartFields ==
  ASSUME NEW B \in Seq(AllPieces)
  PROVE  /\ IsParse(Start(B)) /\ Rest(B, Start(B).buf, 0)
         /\ Start(B).state = "REQUEST_LINE" /\ Start(B).post = FALSE /\ Start(B).form = FALSE
         /\ Start(B).call = <<>> /\ Start(B).buf = B /\ Start(B).done = FALSE
<1> DEFINE q == Start(B)
<1>1. /\ q.state = "REQUEST_LINE" /\ q.post = FALSE /\ q.form = FALSE /\ q.buf = B /\ q.call = <<>>
      /\ q.ok = FALSE /\ q.done = FALSE /\ DOMAIN q = Fields
  BY DEF Start, Fields
<1>2. <<>> \in Seq(Calls)
  OBVIOUS
<1> HIDE DEF q
<1>3. IsParse(q)
  BY <1>1, <1>2 DEF IsParse
<1>4. Rest(B, B, 0)
  BY DEF Rest
<1> QED BY <1>1, <1>3, <1>4 DEF q

(* parse calls UserVerify only if the buffer starts with a form. *)
LEMMA ParseQuiet ==
  ASSUME NEW B \in Seq(AllPieces), ~StartsForm(B)
  PROVE  Quiet(B, parse(B))
<1> DEFINE n == Len(B) + 1
<1>1. n \in Nat
  OBVIOUS
<1>2. PICK g : Rounds(g, n, B) /\ parse(B) = g[n]
  BY ParseIsRounds
<1> HIDE DEF n
<1> DEFINE S == {k \in 0..n : Quiet(B, g[k])}
<1>3. 0 \in S
  <2>1. Quiet(B, Start(B))
    <3>1. 0 \in 0..Len(B)
      OBVIOUS
    <3> QED BY <3>1, StartFields DEF Quiet
  <2> QED BY <1>1, <1>2, <2>1 DEF Rounds
<1>4. ASSUME NEW k \in 1..n, k - 1 \in S
      PROVE  k \in S
  <2>1. g[k] = Round(g[k - 1])
    BY <1>2 DEF Rounds
  <2>2. Quiet(B, g[k])
    BY <1>4, <2>1, RoundQuiet
  <2> QED BY <1>1, <2>2
<1>5. n \in S
  <2> HIDE DEF S
  <2> QED BY <1>1, <1>3, <1>4, UpTo
<1> QED BY <1>2, <1>5

(* The call that parse makes is for the form the buffer starts with. *)
LEMMA ParseInForm ==
  ASSUME NEW B \in Seq(AllPieces), RequestFirst(B)
  PROVE  InForm(B, parse(B))
<1> DEFINE n == Len(B) + 1
<1>1. n \in Nat
  OBVIOUS
<1>2. PICK g : Rounds(g, n, B) /\ parse(B) = g[n]
  BY ParseIsRounds
<1> HIDE DEF n
<1> DEFINE S == {k \in 0..n : InForm(B, g[k])}
<1>3. 0 \in S
  <2>1. InForm(B, Start(B))
    <3>1. 0 \in 0..Len(B)
      OBVIOUS
    <3> QED BY <3>1, StartFields DEF InForm
  <2> QED BY <1>1, <1>2, <2>1 DEF Rounds
<1>4. ASSUME NEW k \in 1..n, k - 1 \in S
      PROVE  k \in S
  <2>1. g[k] = Round(g[k - 1])
    BY <1>2 DEF Rounds
  <2>2. InForm(B, g[k])
    BY <1>4, <2>1, RoundInForm
  <2> QED BY <1>1, <2>2
<1>5. n \in S
  <2> HIDE DEF S
  <2> QED BY <1>1, <1>3, <1>4, UpTo
<1> QED BY <1>2, <1>5

(* Once the loop has ended nothing more changes. *)
LEMMA ParseEnds ==
  ASSUME NEW B \in Seq(AllPieces), NEW g, Rounds(g, Len(B) + 1, B),
         NEW m \in 0..(Len(B) + 1), g[m].done
  PROVE  g[Len(B) + 1] = g[m]
<1> DEFINE n == Len(B) + 1
           S == {k \in 0..n : k >= m => g[k] = g[m]}
<1>1. n \in Nat /\ m \in 0..n
  OBVIOUS
<1>2. 0 \in S
  OBVIOUS
<1>3. ASSUME NEW k \in 1..n, k - 1 \in S
      PROVE  k \in S
  <2>1. g[k] = Round(g[k - 1])
    BY DEF Rounds
  <2>2. ASSUME k > m
        PROVE  g[k] = g[m]
    <3>1. g[k - 1] = g[m]
      BY <1>1, <1>3, <2>2
    <3> QED BY <2>1, <3>1, RoundDone
  <2> QED BY <1>1, <2>2
<1>4. n \in S
  <2> HIDE DEF S, n
  <2> QED BY <1>1, <1>2, <1>3, UpTo
<1> QED BY <1>1, <1>4

-------------------------------------------------------------------------------
(* The client sends its requests in order, and the pieces of each in order. *)
LEMMA StreamOrder ==
  ASSUME NEW reqs, NEW S, Stream(reqs, S),
         NEW i \in 1..Len(S), NEW j \in 1..Len(S), i <= j
  PROVE  S[i].r < S[j].r \/ (S[i].r = S[j].r /\ S[i].n <= S[j].n)
<1> DEFINE Le(x) == S[i].r < S[x].r \/ (S[i].r = S[x].r /\ S[i].n <= S[x].n)
           T == {d \in 0..(j - i) : Le(i + d)}
<1>1. S \in Seq(AllPieces) /\ Len(S) \in Nat
  BY DEF Stream
<1>2. \A x \in 1..Len(S) : S[x].r \in Nat /\ S[x].n \in Nat
  <2>1. \A x \in 1..Len(S) : S[x] \in AllPieces
    BY <1>1
  <2> QED BY <2>1 DEF AllPieces
<1>3. j - i \in Nat /\ i + 0 = i /\ i + (j - i) = j
  BY <1>1
<1>4. 0 \in T
  BY <1>2, <1>3
<1>5. ASSUME NEW d \in 1..(j - i), d - 1 \in T
      PROVE  d \in T
  <2> DEFINE x == i + (d - 1)
  <2>1. x \in 1..(Len(S) - 1) /\ x \in 1..Len(S) /\ x + 1 \in 1..Len(S) /\ x + 1 = i + d
    BY <1>1, <1>3
  <2>2. Le(x)
    BY <1>5
  <2>3. Follows(reqs, S[x], S[x + 1])
    BY <2>1 DEF Stream
  <2> HIDE DEF x
  <2>4. \/ S[x + 1].r = S[x].r /\ S[x + 1].n = S[x].n + 1
        \/ S[x + 1].r = S[x].r + 1
    BY <2>3 DEF Follows
  <2>5. Le(x + 1)
    BY <1>2, <2>1, <2>2, <2>4
  <2> QED BY <2>1, <2>5
<1>6. j - i \in T
  <2> HIDE DEF T
  <2> QED BY <1>3, <1>4, <1>5, UpTo
<1> QED BY <1>3, <1>6

(* Where a request starts, it goes on to its end. *)
LEMMA StreamRequest ==
  ASSUME NEW reqs, NEW S, Stream(reqs, S), Len(S) > 0, S[1].n = 1
  PROVE  /\ \A j \in 1..Len(S) : j <= Length(reqs, S[1].r) =>
              S[j].r = S[1].r /\ S[j].n = j /\ S[j].k = KindAt[j]
         /\ Length(reqs, S[1].r) \in {10, 12}
<1> DEFINE N == Length(reqs, S[1].r)
           T == {d \in 0..(Len(S) - 1) : d + 1 <= N => S[d + 1].r = S[1].r /\ S[d + 1].n = d + 1}
<1>1. S \in Seq(AllPieces) /\ Len(S) \in Nat
  BY DEF Stream
<1>2. N \in {10, 12}
  BY DEF Length
<1>3. 0 \in T
  BY <1>1
<1>4. ASSUME NEW d \in 1..(Len(S) - 1), d - 1 \in T
      PROVE  d \in T
  <2>1. CASE d + 1 <= N
    <3>1. S[d].r = S[1].r /\ S[d].n = d /\ d < N
      <4>1. (d - 1) + 1 = d /\ d <= N /\ d < N
        BY <1>2, <2>1
      <4> QED BY <1>4, <4>1
    <3>2. Follows(reqs, S[d], S[d + 1])
      BY DEF Stream
    <3>3. S[d + 1].r = S[d].r /\ S[d + 1].n = S[d].n + 1
      BY <3>1, <3>2 DEF Follows
    <3> QED BY <1>1, <3>1, <3>3
  <2>2. CASE ~(d + 1 <= N)
    BY <1>1, <2>2
  <2> QED BY <2>1, <2>2
<1>5. ASSUME NEW j \in 1..Len(S)
      PROVE  j - 1 \in T
  <2>1. j - 1 \in Nat /\ \A k \in 1..(j - 1) : k \in 1..(Len(S) - 1)
    BY <1>1
  <2> HIDE DEF T
  <2> QED BY <1>3, <1>4, <2>1, UpTo
<1>6. ASSUME NEW j \in 1..Len(S), j <= N
      PROVE  S[j].r = S[1].r /\ S[j].n = j /\ S[j].k = KindAt[j]
  <2>1. j - 1 \in T /\ (j - 1) + 1 = j
    BY <1>1, <1>5
  <2>2. S[j].r = S[1].r /\ S[j].n = j
    BY <1>6, <2>1
  <2>3. S[j].k = KindAt[S[j].n]
    BY DEF Stream, PieceOf
  <2> QED BY <2>2, <2>3
<1> QED BY <1>2, <1>6

(* What is left of a stream is one. *)
LEMMA StreamRest ==
  ASSUME NEW reqs, NEW S, Stream(reqs, S), NEW R, NEW m, Rest(S, R, m)
  PROVE  Stream(reqs, R)
<1>1. /\ S \in Seq(AllPieces) /\ Len(S) \in Nat /\ R \in Seq(AllPieces) /\ Len(R) = Len(S) - m
      /\ m \in Nat /\ Len(R) \in Nat
  BY DEF Stream, Rest
<1>2. \A i \in 1..Len(R) : R[i] = S[m + i] /\ m + i \in 1..Len(S)
  BY <1>1 DEF Rest
<1>3. ASSUME NEW i \in 1..Len(R)
      PROVE  PieceOf(reqs, R[i])
  BY <1>2 DEF Stream
<1>4. ASSUME NEW i \in 1..(Len(R) - 1)
      PROVE  Follows(reqs, R[i], R[i + 1])
  <2>1. /\ i \in 1..Len(R) /\ i + 1 \in 1..Len(R) /\ m + (i + 1) = (m + i) + 1
        /\ m + i \in 1..(Len(S) - 1)
    BY <1>1
  <2>2. R[i] = S[m + i] /\ R[i + 1] = S[(m + i) + 1]
    BY <1>2, <2>1
  <2>3. Follows(reqs, S[m + i], S[(m + i) + 1])
    BY <2>1 DEF Stream
  <2> QED BY <2>2, <2>3
<1>5. ASSUME Len(R) > 0
      PROVE  R[Len(R)].r = Len(reqs) /\ R[Len(R)].n = Length(reqs, Len(reqs))
  <2>1. Len(R) \in 1..Len(R) /\ m + Len(R) = Len(S) /\ Len(S) > 0
    BY <1>1, <1>5
  <2>2. R[Len(R)] = S[Len(S)]
    BY <1>2, <2>1
  <2> QED BY <2>1, <2>2 DEF Stream
<1> QED BY <1>1, <1>3, <1>4, <1>5 DEF Stream

(* The pieces of a request. *)
Numbered(P, r) == \A i \in 1..Len(P) : P[i].k = KindAt[i] /\ P[i].r = r /\ P[i].n = i

(* A request is its pieces in order, twelve with a body and ten without. *)
LEMMA PiecesFields ==
  ASSUME NEW req, NEW r \in Nat, NEW P, P = Pieces(req, r)
  PROVE  /\ P \in Seq(AllPieces) /\ Len(P) = IF req.method = "POST" THEN 12 ELSE 10
         /\ Numbered(P, r)
<1> DEFINE N == IF req.method = "POST" THEN 12 ELSE 10
           x(i) == [k |-> KindAt[i], r |-> r, n |-> i]
<1>1. P = [i \in 1..N |-> x(i)]
  BY DEF Pieces, KindAt
<1>2. N \in {10, 12} /\ N \in Nat
  OBVIOUS
<1> HIDE DEF N
<1>3. ASSUME NEW i \in 1..N
      PROVE  x(i) \in AllPieces /\ x(i).k = KindAt[i] /\ x(i).r = r /\ x(i).n = i
  <2>1. i \in 1..12 /\ i \in Nat
    BY <1>2
  <2>2. KindAt[i] \in {"r1", "r2", "cr", "lf", "h1", "h2", "b1", "b2"}
    <3>1. i \in {1, 2, 3, 4, 5, 6, 7, 8, 9, 10, 11, 12}
      BY <2>1
    <3> QED BY <3>1, KindAtValues
  <2> QED BY <2>1, <2>2 DEF AllPieces
<1> HIDE DEF x
<1>4. P \in Seq(AllPieces) /\ Len(P) = N /\ \A i \in 1..N : P[i] = x(i)
  <2>1. \A i \in 1..N : x(i) \in AllPieces
    BY <1>3
  <2> QED BY <1>1, <1>2, <2>1
<1>5. \A i \in 1..Len(P) : P[i].k = KindAt[i] /\ P[i].r = r /\ P[i].n = i
  BY <1>3, <1>4
<1>6. Len(P) = IF req.method = "POST" THEN 12 ELSE 10
  BY <1>4 DEF N
<1> QED BY <1>4, <1>5, <1>6 DEF Numbered

(* One sequence after another. *)
LEMMA Joined ==
  ASSUME NEW X, NEW S \in Seq(X), NEW R \in Seq(X)
  PROVE  /\ S \o R \in Seq(X) /\ Len(S \o R) = Len(S) + Len(R)
         /\ \A i \in 1..Len(S) : (S \o R)[i] = S[i]
         /\ \A i \in 1..Len(R) : (S \o R)[Len(S) + i] = R[i]
OBVIOUS

(* The next request is sent after all the others. *)
LEMMA StreamSend ==
  ASSUME NEW reqs \in Seq(Requests), NEW req \in Requests, NEW S, Stream(reqs, S)
  PROVE  Stream(Append(reqs, req), S \o Pieces(req, Len(reqs) + 1))
<1> DEFINE rq == Append(reqs, req)
           r == Len(reqs) + 1
           P == Pieces(req, r)
           T == S \o P
           s == Len(S)
           N == Len(P)
<1>1. /\ Len(reqs) \in Nat /\ r \in Nat /\ Len(rq) = r /\ rq[r] = req
      /\ \A i \in 1..Len(reqs) : rq[i] = reqs[i]
  OBVIOUS
<1>2. /\ P \in Seq(AllPieces) /\ N = (IF req.method = "POST" THEN 12 ELSE 10)
      /\ \A i \in 1..N : P[i].k = KindAt[i] /\ P[i].r = r /\ P[i].n = i
  <2> HIDE DEF r
  <2>1. r \in Nat /\ P = Pieces(req, r)
    BY <1>1
  <2> HIDE DEF P
  <2>2. P \in Seq(AllPieces) /\ Numbered(P, r) /\ Len(P) = IF req.method = "POST" THEN 12 ELSE 10
    BY <2>1, PiecesFields
  <2> QED BY <2>2 DEF Numbered
<1>3. N = Length(rq, r) /\ N \in {10, 12}
  BY <1>1, <1>2 DEF Length
<1>4. S \in Seq(AllPieces) /\ s \in Nat
  BY DEF Stream
<1> HIDE DEF P
<1>5. /\ T \in Seq(AllPieces) /\ Len(T) = s + N
      /\ \A i \in 1..s : T[i] = S[i]
      /\ \A i \in 1..N : T[s + i] = P[i]
  <2>1. P \in Seq(AllPieces)
    BY <1>2
  <2>2. S \o P \in Seq(AllPieces)
    BY <1>4, <2>1, Joined, Zenon
  <2>3. Len(S \o P) = Len(S) + Len(P)
    BY <1>4, <2>1, Joined, Zenon
  <2>4. \A i \in 1..Len(S) : (S \o P)[i] = S[i]
    BY <1>4, <2>1, Joined, Zenon
  <2>5. \A i \in 1..Len(P) : (S \o P)[Len(S) + i] = P[i]
    <3> HIDE DEF P
    <3> QED BY <1>4, <2>1, Joined
  <2> QED BY <2>2, <2>3, <2>4, <2>5, Zenon
<1> HIDE DEF T, N, s, rq, r
<1>6. ASSUME NEW i \in 1..s
      PROVE  /\ T[i] = S[i] /\ PieceOf(rq, S[i]) /\ Length(rq, S[i].r) = Length(reqs, S[i].r)
             /\ S[i].r \in 1..Len(reqs)
  <2>1. PieceOf(reqs, S[i])
    BY DEF Stream, s
  <2>2. S[i].r \in 1..Len(reqs)
    BY <2>1 DEF PieceOf
  <2>3. Length(rq, S[i].r) = Length(reqs, S[i].r)
    BY <1>1, <2>2 DEF Length
  <2>4. S[i].r \in 1..Len(rq)
    BY <1>1, <2>2 DEF r
  <2> QED BY <1>5, <2>1, <2>2, <2>3, <2>4 DEF PieceOf
<1>7. ASSUME NEW i \in 1..N
      PROVE  T[s + i] = P[i] /\ PieceOf(rq, P[i])
  <2>1. P[i].r \in 1..Len(rq)
    BY <1>1, <1>2 DEF r
  <2>2. P[i].n \in 1..Length(rq, P[i].r) /\ P[i].k = KindAt[P[i].n]
    BY <1>2, <1>3
  <2> QED BY <1>5, <2>1, <2>2 DEF PieceOf
<1>8. ASSUME NEW i \in 1..Len(T)
      PROVE  PieceOf(rq, T[i])
  <2>1. CASE i <= s
    BY <1>4, <1>5, <1>6, <2>1
  <2>2. CASE i > s
    <3>1. i - s \in 1..N /\ s + (i - s) = i
      BY <1>3, <1>4, <1>5, <2>2
    <3> QED BY <1>7, <3>1
  <2> QED BY <1>4, <2>1, <2>2
<1>9. ASSUME NEW i \in 1..(Len(T) - 1)
      PROVE  Follows(rq, T[i], T[i + 1])
  <2>1. CASE i < s
    <3>1. i \in 1..s /\ i + 1 \in 1..s /\ i \in 1..(s - 1)
      BY <1>4, <2>1
    <3>2. Follows(reqs, S[i], S[i + 1])
      BY <3>1 DEF Stream, s
    <3>3. T[i] = S[i] /\ T[i + 1] = S[i + 1] /\ Length(rq, S[i].r) = Length(reqs, S[i].r)
      BY <1>6, <3>1
    <3> QED BY <3>2, <3>3 DEF Follows
  <2>2. CASE i = s
    <3>1. i \in 1..s /\ s > 0 /\ 1 \in 1..N /\ s + 1 = i + 1
      BY <1>3, <1>4, <2>2
    <3>2. S[s].r = Len(reqs) /\ S[s].n = Length(reqs, Len(reqs))
      BY <3>1 DEF Stream, s
    <3>3. T[i] = S[s] /\ Length(rq, S[s].r) = Length(reqs, S[s].r)
      BY <1>6, <2>2, <3>1
    <3>4. T[i + 1].r = r /\ T[i + 1].n = 1
      BY <1>2, <1>7, <3>1
    <3>5. ~(T[i].n < Length(rq, T[i].r)) /\ T[i + 1].r = T[i].r + 1
      <4>1. Length(reqs, Len(reqs)) \in {10, 12}
        BY DEF Length
      <4> QED BY <3>2, <3>3, <3>4, <4>1 DEF r
    <3> QED BY <3>4, <3>5 DEF Follows
  <2>3. CASE i > s
    <3> DEFINE j == i - s
    <3>1. j \in 1..N /\ j + 1 \in 1..N /\ s + j = i /\ s + (j + 1) = i + 1 /\ j < N
      BY <1>3, <1>4, <1>5, <2>3
    <3> HIDE DEF j
    <3>2. T[i].r = r /\ T[i].n = j /\ T[i + 1].r = r /\ T[i + 1].n = j + 1
      BY <1>2, <1>7, <3>1
    <3> QED BY <1>3, <3>1, <3>2 DEF Follows
  <2> QED BY <1>4, <1>5, <2>1, <2>2, <2>3
<1>10. T[Len(T)].r = Len(rq) /\ T[Len(T)].n = Length(rq, Len(rq))
  <2>1. N \in 1..N
    BY <1>3
  <2> QED BY <1>1, <1>2, <1>3, <1>5, <1>7, <2>1
<1>11. Stream(rq, T)
  BY <1>5, <1>8, <1>9, <1>10 DEF Stream
<1> QED BY <1>11 DEF T, rq, P, r

(* The bytes that a read puts in the buffer, and what is unread after it. *)
LEMMA CutStart ==
  ASSUME NEW rb \in Seq(AllPieces), NEW w \in Seq(AllPieces), NEW n \in 1..Len(w),
         NEW B, B = rb \o SubSeq(w, 1, n)
  PROVE  /\ B \in Seq(AllPieces) /\ Len(B) = Len(rb) + n /\ Len(B) > 0
         /\ Len(B) <= Len(rb \o w) /\ Len(rb \o w) = Len(rb) + Len(w)
         /\ \A i \in 1..Len(B) : B[i] = (rb \o w)[i]
<1> DEFINE x == SubSeq(w, 1, n)
           U == rb \o w
<1>1. Len(w) \in Nat /\ n <= Len(w) /\ n \in Nat /\ n > 0 /\ Len(rb) \in Nat
  OBVIOUS
<1>2. x \in Seq(AllPieces) /\ Len(x) = n /\ \A i \in 1..n : x[i] = w[i]
  BY <1>1
<1>3. B = rb \o x
  OBVIOUS
<1> HIDE DEF x
<1>4. /\ B \in Seq(AllPieces) /\ Len(B) = Len(rb) + n
      /\ \A i \in 1..Len(rb) : B[i] = rb[i]
  BY <1>2, <1>3, Joined
<1>5. \A i \in 1..Len(x) : B[Len(rb) + i] = x[i]
  BY <1>2, <1>3, Joined
<1>6. /\ Len(U) = Len(rb) + Len(w)
      /\ \A i \in 1..Len(rb) : U[i] = rb[i]
  BY Joined
<1>7. \A i \in 1..Len(w) : U[Len(rb) + i] = w[i]
  BY Joined
<1> HIDE DEF U
<1>8. ASSUME NEW i \in 1..Len(B)
      PROVE  B[i] = U[i]
  <2>1. CASE i <= Len(rb)
    BY <1>1, <1>4, <1>6, <2>1
  <2>2. CASE i > Len(rb)
    <3> DEFINE j == i - Len(rb)
    <3>1. j \in 1..n /\ j \in 1..Len(w) /\ Len(rb) + j = i
      BY <1>1, <1>4, <2>2
    <3> HIDE DEF j
    <3>2. B[i] = x[j] /\ U[i] = w[j]
      BY <1>2, <1>5, <1>7, <3>1
    <3> QED BY <1>2, <3>1, <3>2
  <2> QED BY <1>1, <1>4, <2>1, <2>2
<1>9. Len(B) <= Len(U) /\ Len(B) > 0
  BY <1>1, <1>4, <1>6
<1> QED BY <1>4, <1>6, <1>8, <1>9 DEF U

(* What parse leaves of the bytes so far, followed by the bytes still on the
   wire, is what it would leave of all of them. *)
LEMMA CutRest ==
  ASSUME NEW rb \in Seq(AllPieces), NEW w \in Seq(AllPieces), NEW n \in 1..Len(w),
         NEW B, B = rb \o SubSeq(w, 1, n), NEW b, NEW m, Rest(B, b, m)
  PROVE  /\ SubSeq(w, n + 1, Len(w)) \in Seq(AllPieces)
         /\ Len(SubSeq(w, n + 1, Len(w))) = Len(w) - n
         /\ Rest(rb \o w, b \o SubSeq(w, n + 1, Len(w)), m)
<1> DEFINE y == SubSeq(w, n + 1, Len(w))
           U == rb \o w
           V == b \o y
<1>1. Len(w) \in Nat /\ n <= Len(w) /\ n \in Nat /\ n > 0 /\ Len(rb) \in Nat
  OBVIOUS
<1>2. y \in Seq(AllPieces) /\ Len(y) = Len(w) - n /\ \A i \in 1..(Len(w) - n) : y[i] = w[n + i]
  BY <1>1
<1>3. /\ B \in Seq(AllPieces) /\ Len(B) = Len(rb) + n /\ Len(B) <= Len(U)
      /\ Len(U) = Len(rb) + Len(w)
      /\ \A i \in 1..Len(B) : B[i] = U[i]
  BY CutStart
<1>4. \A i \in 1..Len(w) : U[Len(rb) + i] = w[i]
  BY Joined
<1>5. /\ b \in Seq(AllPieces) /\ m \in 0..Len(B) /\ Len(b) = Len(B) - m
      /\ \A i \in 1..Len(b) : b[i] = B[m + i]
  BY DEF Rest
<1> HIDE DEF y, U
<1>6. V \in Seq(AllPieces) /\ Len(V) = Len(b) + Len(y) /\ \A i \in 1..Len(b) : V[i] = b[i]
  BY <1>2, <1>5, Joined, ZenonT(40)
<1>7. \A i \in 1..Len(y) : V[Len(b) + i] = y[i]
  BY <1>2, <1>5, Joined, SMTT(30)
<1> HIDE DEF V
<1>8. m \in 0..Len(U) /\ Len(V) = Len(U) - m
  BY <1>1, <1>2, <1>3, <1>5, <1>6
<1>9. ASSUME NEW i \in 1..Len(V)
      PROVE  V[i] = U[m + i]
  <2>1. CASE i <= Len(b)
    <3>1. i \in 1..Len(b) /\ m + i \in 1..Len(B)
      BY <1>1, <1>3, <1>5, <2>1
    <3> QED BY <1>3, <1>5, <1>6, <3>1
  <2>2. CASE i > Len(b)
    <3> DEFINE j == i - Len(b)
    <3>1. j \in 1..Len(y) /\ j \in 1..(Len(w) - n) /\ Len(b) + j = i
          /\ n + j \in 1..Len(w) /\ Len(rb) + (n + j) = m + i
      <4>1. /\ Len(b) \in Nat /\ Len(V) = Len(b) + (Len(w) - n) /\ Len(b) = (Len(rb) + n) - m
            /\ Len(y) = Len(w) - n /\ m \in Nat /\ i \in Int /\ i <= Len(V)
        BY <1>1, <1>2, <1>3, <1>5, <1>6
      <4> QED BY <1>1, <2>2, <4>1
    <3> HIDE DEF j
    <3>2. V[i] = y[j] /\ y[j] = w[n + j] /\ U[m + i] = w[n + j]
      BY <1>2, <1>4, <1>7, <3>1
    <3> QED BY <3>2
  <2> QED BY <1>1, <1>3, <1>5, <2>1, <2>2
<1>10. Rest(U, V, m)
  BY <1>6, <1>8, <1>9 DEF Rest
<1> QED BY <1>2, <1>10 DEF U, V, y

-------------------------------------------------------------------------------
(* B is one whole request, number r, behind a pieces of a body. *)
WholeIn(B, a, r) ==
  /\ B \in Seq(AllPieces) /\ a \in {0, 2} /\ r \in Nat
  /\ Len(B) = a + Length(requests, r)
  /\ \A j \in 1..a : B[j].k \in {"b1", "b2"}
  /\ \A j \in 1..Length(requests, r) : B[a + j].k = KindAt[j] /\ B[a + j].r = r

(* The kinds of its pieces, one by one. *)
LEMMA WholeKinds ==
  ASSUME NEW B, NEW a, NEW r, WholeIn(B, a, r)
  PROVE  /\ Len(B) \in {a + 10, a + 12} /\ (Len(B) = a + 12 <=> requests[r].method = "POST")
         /\ B[a + 1].k = "r1" /\ B[a + 2].k = "r2" /\ B[a + 3].k = "cr" /\ B[a + 4].k = "lf"
         /\ B[a + 5].k = "h1" /\ B[a + 6].k = "h2" /\ B[a + 7].k = "cr" /\ B[a + 8].k = "lf"
         /\ B[a + 9].k = "cr" /\ B[a + 10].k = "lf" /\ B[a + 1].r = r
         /\ Len(B) = a + 12 => B[a + 11].k = "b1" /\ B[a + 12].k = "b2" /\ B[a + 11].r = r
<1> DEFINE N == Length(requests, r)
           x(j) == B[a + j]
<1>1. N \in {10, 12} /\ (N = 12 <=> requests[r].method = "POST")
  BY DEF Length
<1>2. a \in {0, 2} /\ Len(B) = a + N /\ \A j \in 1..N : x(j).k = KindAt[j] /\ x(j).r = r
  BY DEF WholeIn
<1> HIDE DEF N, x
<1>3. Len(B) \in {a + 10, a + 12} /\ (Len(B) = a + 12 <=> N = 12)
  BY <1>1, <1>2
<1>4. \A j \in {1, 2, 3, 4, 5, 6, 7, 8, 9, 10} : j \in 1..N
  BY <1>1
<1>5. \A j \in {1, 2, 3, 4, 5, 6, 7, 8, 9, 10} : x(j).k = KindAt[j] /\ x(j).r = r
  BY <1>2, <1>4
<1>6. N = 12 => 11 \in 1..N /\ 12 \in 1..N
  OBVIOUS
<1>7. N = 12 => x(11).k = KindAt[11] /\ x(12).k = KindAt[12] /\ x(11).r = r
  BY <1>2, <1>6
<1> QED BY <1>1, <1>3, <1>5, <1>7, KindAtValues DEF x

(* The first round takes the request line. *)
LEMMA WholeLine ==
  ASSUME NEW B, NEW a, NEW r, WholeIn(B, a, r), NEW s, s = Round(Start(B))
  PROVE  /\ IsParse(s) /\ ~s.done /\ s.state = "HEADERS" /\ s.call = <<>>
         /\ s.path = ParsePath_(requests[r].path)
         /\ s.post = (a = 0 /\ requests[r].method = "POST")
         /\ Rest(B, s.buf, a + 4)
<1> DEFINE q == Start(B)
           line == LineOf(q)
           p == ParseLine(q, line)
<1>1. B \in Seq(AllPieces) /\ a \in {0, 2} /\ Len(B) \in Nat
  BY DEF WholeIn
<1>2. /\ IsParse(q) /\ Rest(B, q.buf, 0) /\ q.state = "REQUEST_LINE" /\ q.post = FALSE
      /\ q.call = <<>> /\ q.buf = B /\ q.done = FALSE
  BY <1>1, StartFields
<1> HIDE DEF q
<1>3. /\ B[a + 1].k = "r1" /\ B[a + 2].k = "r2" /\ B[a + 3].k = "cr" /\ B[a + 4].k = "lf"
      /\ B[a + 1].r = r /\ a + 4 \in 1..Len(B)
  <2>1. Len(B) \in {a + 10, a + 12}
    BY WholeKinds
  <2>2. a + 4 \in 1..Len(B)
    BY <1>1, <2>1
  <2>3. /\ B[a + 1].k = "r1" /\ B[a + 2].k = "r2" /\ B[a + 3].k = "cr" /\ B[a + 4].k = "lf"
        /\ B[a + 1].r = r
    BY WholeKinds
  <2> QED BY <2>2, <2>3
<1>4. LineEnd(B) = a + 3
  <2> DEFINE e == a + 3
  <2>1. /\ e \in 1..(Len(B) - 1) /\ B[e].k = "cr" /\ B[e + 1].k = "lf" /\ e + 1 = a + 4
    BY <1>1, <1>3
  <2>2. \A i \in 1..(e - 1) : B[i].k # "cr"
    <3> SUFFICES ASSUME NEW i \in 1..(e - 1) PROVE B[i].k # "cr"
      OBVIOUS
    <3>1. i \in 1..a \/ i = a + 1 \/ i = a + 2
      BY <1>1
    <3>2. \A j \in 1..a : B[j].k \in {"b1", "b2"}
      BY DEF WholeIn
    <3> QED BY <1>3, <3>1, <3>2
  <2> HIDE DEF e
  <2>3. LineEnd(B) = e
    BY <1>1, <2>1, <2>2, LineEndAt
  <2> QED BY <2>3 DEF e
<1>5. /\ line \in Seq(AllPieces) /\ Len(line) = a + 2
      /\ \A i \in 1..(a + 2) : line[i] = B[i]
  <2>1. /\ line \in Seq(AllPieces) /\ Len(line) = LineEnd(B) - 1
        /\ \A i \in 1..Len(line) : line[i] = B[i]
    BY <1>2, LineOfPieces
  <2>2. Len(line) = a + 2
    BY <1>1, <1>4, <2>1
  <2> QED BY <2>1, <2>2
<1> HIDE DEF line
<1>6. RequestLineAt(line) = {a + 1}
  <2>1. ASSUME NEW i \in RequestLineAt(line)
        PROVE  i = a + 1
    <3>1. i \in 1..(a + 1) /\ line[i].k = "r1"
      BY <1>1, <1>5 DEF RequestLineAt
    <3>2. i \in 1..a \/ i = a + 1
      BY <1>1, <3>1
    <3>3. i \in 1..(a + 2)
      BY <1>1, <3>1
    <3>4. \A j \in 1..a : B[j].k \in {"b1", "b2"}
      BY DEF WholeIn
    <3> QED BY <1>5, <3>1, <3>2, <3>3, <3>4
  <2>2. a + 1 \in RequestLineAt(line)
    <3>1. a + 1 \in 1..(Len(line) - 1) /\ DOMAIN line = 1..(a + 2) /\ (a + 1) + 1 = a + 2
      BY <1>1, <1>5
    <3>2. line[a + 1].k = "r1" /\ line[a + 2].k = "r2"
      BY <1>1, <1>3, <1>5
    <3>3. ASSUME NEW j \in DOMAIN line \ {a + 1, a + 2}
          PROVE  line[j].k \in {"b1", "b2", "cr", "lf"}
      <4>1. j \in 1..a /\ j \in 1..(a + 2)
        BY <1>1, <3>1
      <4>2. B[j].k \in {"b1", "b2"}
        BY <4>1 DEF WholeIn
      <4> QED BY <1>5, <4>1, <4>2
    <3> QED BY <3>1, <3>2, <3>3 DEF RequestLineAt
  <2> QED BY <2>1, <2>2
<1>7. p = ParseRequestLine_(q, line)
  BY <1>2 DEF ParseLine
<1> HIDE DEF p
<1>8. /\ IsParse(p) /\ p.state = "HEADERS"
      /\ p.buf = q.buf /\ p.call = q.call /\ p.ok = q.ok /\ p.done = q.done
      /\ \E i \in RequestLineAt(line) :
           /\ p.path = ParsePath_(requests[line[i].r].path)
           /\ p.post = (i = 1 /\ requests[line[i].r].method = "POST")
  <2>1. RequestLineAt(line) # {}
    BY <1>6
  <2> QED BY <1>2, <1>5, <1>7, <2>1, RequestLineFields
<1>9. line[a + 1].r = r /\ (a + 1 = 1 <=> a = 0)
  BY <1>1, <1>3, <1>5
<1>10. /\ p.path = ParsePath_(requests[r].path)
       /\ p.post = (a = 0 /\ requests[r].method = "POST")
  BY <1>6, <1>8, <1>9
<1>11. B # <<>> /\ LineEnd(B) <= Len(B)
  BY <1>1, <1>3, <1>4
<1>12. /\ IsParse(s) /\ s.state = p.state /\ s.post = p.post /\ s.path = p.path /\ s.call = p.call
       /\ ~s.done /\ s.buf = SubSeq(q.buf, LineEnd(q.buf) + 2, Len(q.buf))
  <2>1. q.state = "REQUEST_LINE" => RequestLineAt(LineOf(q)) # {}
    BY <1>6 DEF line
  <2>2. p = ParseLine(q, LineOf(q)) /\ s = Round(q) /\ q.buf # <<>> /\ q.state # "FINISH" /\ ~q.done
    BY <1>2, <1>11 DEF p, line, q
  <2> QED BY <1>2, <1>8, <1>11, <2>1, <2>2, RoundLine
<1>13. Rest(B, SubSeq(B, (a + 3) + 2, Len(B)), 0 + (a + 3) + 1)
  <2>1. a + 3 \in 1..(Len(B) - 1)
    BY <1>1, <1>3
  <2>2. Rest(B, B, 0)
    BY <1>2
  <2> QED BY <1>1, <2>1, <2>2, RestOfRest
<1>14. 0 + (a + 3) + 1 = a + 4
  BY <1>1
<1>15. s.buf = SubSeq(B, (a + 3) + 2, Len(B))
  BY <1>2, <1>4, <1>12
<1> QED BY <1>2, <1>8, <1>10, <1>12, <1>13, <1>14, <1>15

(* The second round takes the header. *)
LEMMA WholeHeader ==
  ASSUME NEW B, NEW a, NEW r, WholeIn(B, a, r),
         NEW q, IsParse(q), ~q.done, q.state = "HEADERS", Rest(B, q.buf, a + 4), NEW s, s = Round(q)
  PROVE  /\ IsParse(s) /\ ~s.done /\ s.state = "HEADERS" /\ s.form /\ s.call = q.call
         /\ s.path = q.path /\ s.post = q.post
         /\ Rest(B, s.buf, a + 8)
<1> DEFINE line == LineOf(q)
           p == ParseLine(q, line)
           b == q.buf
<1>1. B \in Seq(AllPieces) /\ a \in {0, 2} /\ Len(B) \in {a + 10, a + 12}
  <2>1. B \in Seq(AllPieces) /\ a \in {0, 2}
    BY DEF WholeIn
  <2>2. Len(B) \in {a + 10, a + 12}
    BY WholeKinds
  <2> QED BY <2>1, <2>2
<1>2. /\ b \in Seq(AllPieces) /\ Len(b) = Len(B) - (a + 4)
      /\ \A i \in 1..Len(b) : b[i] = B[(a + 4) + i]
  BY DEF Rest
<1>3. 3 \in 1..(Len(b) - 1) /\ 3 <= Len(b) /\ b # <<>> /\ ~(Len(b) <= 2) /\ Len(b) \in {6, 8}
  BY <1>1, <1>2
<1> HIDE DEF b
<1>4. b[1].k = "h1" /\ b[2].k = "h2" /\ b[3].k = "cr" /\ b[4].k = "lf"
  <2>1. b[1] = B[a + 5] /\ b[2] = B[a + 6] /\ b[3] = B[a + 7] /\ b[4] = B[a + 8]
    <3>1. (a + 4) + 1 = a + 5 /\ (a + 4) + 2 = a + 6 /\ (a + 4) + 3 = a + 7 /\ (a + 4) + 4 = a + 8
      BY <1>1
    <3> QED BY <1>2, <1>3, <3>1
  <2> QED BY <2>1, WholeKinds
<1>5. LineEnd(b) = 3
  <2>1. 3 \in 1..(Len(b) - 1) /\ \A i \in 1..(3 - 1) : b[i].k # "cr"
    BY <1>3, <1>4
  <2> QED BY <1>2, <1>4, <2>1, LineEndAt
<1>6. line \in Seq(AllPieces) /\ Len(line) = 2 /\ line[1] = b[1] /\ line[2] = b[2]
  <2>1. /\ line \in Seq(AllPieces) /\ Len(line) = LineEnd(b) - 1
        /\ \A i \in 1..Len(line) : line[i] = b[i]
    BY LineOfPieces DEF b
  <2> QED BY <1>5, <2>1
<1> HIDE DEF line
<1>7. p = ParseHeader_(q, line)
  BY DEF ParseLine
<1> HIDE DEF p
<1>8. /\ IsParse(p) /\ p.form = (q.form \/ Kinds(line) = <<"h1", "h2">>)
      /\ p.state = IF AtMostTwoBytes(q.buf) THEN "FINISH"
                   ELSE IF IsHeader(line) THEN q.state ELSE "BODY"
      /\ p.post = q.post /\ p.path = q.path
      /\ p.buf = q.buf /\ p.call = q.call /\ p.ok = q.ok /\ p.done = q.done
  BY <1>7, HeaderFields
<1>9. Kinds(line) = <<"h1", "h2">>
  <2>1. DOMAIN line = 1..2 /\ line[1].k = "h1" /\ line[2].k = "h2"
    BY <1>4, <1>6
  <2>2. Kinds(line) = [i \in 1..2 |-> line[i].k]
    BY <2>1 DEF Kinds
  <2>3. [i \in 1..2 |-> line[i].k] = <<"h1", "h2">>
    BY <2>1
  <2> QED BY <2>2, <2>3
<1>10. p.state = "HEADERS"
  <2>1. ~AtMostTwoBytes(q.buf)
    <3>1. ~AtMostTwoBytes(b)
      BY <1>3 DEF AtMostTwoBytes
    <3> QED BY <3>1 DEF b
  <2>2. IsHeader(line)
    <3>1. DOMAIN line = 1..2 /\ line[2].k = "h2"
      BY <1>4, <1>6
    <3> QED BY <3>1 DEF IsHeader
  <2> QED BY <1>8, <2>1, <2>2
<1>11. /\ IsParse(s) /\ s.state = p.state /\ s.post = p.post /\ s.path = p.path /\ s.form = p.form
       /\ s.call = p.call /\ ~s.done /\ s.buf = SubSeq(b, 3 + 2, Len(b))
  <2>1. b # <<>> /\ LineEnd(b) <= Len(b)
    BY <1>3, <1>5
  <2>2. p = ParseLine(q, LineOf(q))
    BY DEF p, line
  <2>3. /\ q.state # "FINISH" /\ (q.state = "REQUEST_LINE" => RequestLineAt(LineOf(q)) # {})
        /\ q.buf # <<>> /\ LineEnd(q.buf) <= Len(q.buf)
    BY <2>1 DEF b
  <2>4. /\ IsParse(s) /\ s.state = p.state /\ s.post = p.post /\ s.path = p.path /\ s.form = p.form
        /\ s.call = p.call /\ ~s.done /\ s.buf = SubSeq(q.buf, LineEnd(q.buf) + 2, Len(q.buf))
    BY <1>8, <2>2, <2>3, RoundLine
  <2> QED BY <1>5, <2>4 DEF b
<1>12. Rest(B, SubSeq(b, 3 + 2, Len(b)), (a + 4) + 3 + 1)
  <2>1. 3 \in 1..(Len(b) - 1)
    BY <1>3
  <2>2. Rest(B, b, a + 4)
    BY DEF b
  <2> QED BY <1>1, <2>1, <2>2, RestOfRest
<1>13. (a + 4) + 3 + 1 = a + 8
  BY <1>1
<1> QED BY <1>8, <1>9, <1>10, <1>11, <1>12, <1>13

(* The third round takes the blank line. *)
LEMMA WholeBlank ==
  ASSUME NEW B, NEW a, NEW r, WholeIn(B, a, r),
         NEW q, IsParse(q), ~q.done, q.state = "HEADERS", Rest(B, q.buf, a + 8), NEW s, s = Round(q)
  PROVE  /\ IsParse(s) /\ ~s.done /\ (q.form => s.form) /\ s.call = q.call
         /\ s.path = q.path /\ s.post = q.post
         /\ Rest(B, s.buf, a + 10)
         /\ s.state = IF requests[r].method = "POST" THEN "BODY" ELSE "FINISH"
<1> DEFINE line == LineOf(q)
           p == ParseLine(q, line)
           b == q.buf
<1>1. /\ B \in Seq(AllPieces) /\ a \in {0, 2} /\ Len(B) \in {a + 10, a + 12}
      /\ (Len(B) = a + 12 <=> requests[r].method = "POST")
  <2>1. B \in Seq(AllPieces) /\ a \in {0, 2}
    BY DEF WholeIn
  <2>2. Len(B) \in {a + 10, a + 12} /\ (Len(B) = a + 12 <=> requests[r].method = "POST")
    BY WholeKinds
  <2> QED BY <2>1, <2>2
<1>2. /\ b \in Seq(AllPieces) /\ Len(b) = Len(B) - (a + 8)
      /\ \A i \in 1..Len(b) : b[i] = B[(a + 8) + i]
  BY DEF Rest
<1>3. Len(b) \in {2, 4} /\ (Len(b) = 4 <=> requests[r].method = "POST")
  BY <1>1, <1>2
<1> HIDE DEF b
<1>4. b[1].k = "cr" /\ b[2].k = "lf"
  <2>1. b[1] = B[a + 9] /\ b[2] = B[a + 10]
    <3>1. (a + 8) + 1 = a + 9 /\ (a + 8) + 2 = a + 10
      BY <1>1
    <3> QED BY <1>2, <1>3, <3>1
  <2> QED BY <2>1, WholeKinds
<1>5. LineEnd(b) = 1
  <2>1. 1 \in 1..(Len(b) - 1) /\ \A i \in 1..(1 - 1) : b[i].k # "cr"
    BY <1>3, <1>4
  <2> QED BY <1>2, <1>4, <2>1, LineEndAt
<1>6. line \in Seq(AllPieces) /\ Len(line) = 0
  BY <1>5, LineOfPieces DEF b
<1> HIDE DEF line
<1>7. p = ParseHeader_(q, line)
  BY DEF ParseLine
<1> HIDE DEF p
<1>8. /\ IsParse(p) /\ p.form = (q.form \/ Kinds(line) = <<"h1", "h2">>)
      /\ p.state = IF AtMostTwoBytes(q.buf) THEN "FINISH"
                   ELSE IF IsHeader(line) THEN q.state ELSE "BODY"
      /\ p.post = q.post /\ p.path = q.path
      /\ p.buf = q.buf /\ p.call = q.call /\ p.ok = q.ok /\ p.done = q.done
  BY <1>7, HeaderFields
<1>9. p.state = IF requests[r].method = "POST" THEN "BODY" ELSE "FINISH"
  <2>1. AtMostTwoBytes(q.buf) <=> Len(b) = 2
    <3>1. DOMAIN b = 1..Len(b)
      BY <1>2
    <3>2. Len(b) = 2 => AtMostTwoBytes(b)
      BY <1>4, <3>1 DEF AtMostTwoBytes
    <3>3. Len(b) = 4 => ~AtMostTwoBytes(b)
      BY DEF AtMostTwoBytes
    <3> QED BY <1>3, <3>2, <3>3 DEF b
  <2>2. ~IsHeader(line)
    <3>1. DOMAIN line = {}
      BY <1>6
    <3> QED BY <3>1 DEF IsHeader
  <2> QED BY <1>3, <1>8, <2>1, <2>2
<1>10. /\ IsParse(s) /\ s.state = p.state /\ s.post = p.post /\ s.path = p.path /\ s.form = p.form
       /\ s.call = p.call /\ ~s.done /\ s.buf = SubSeq(b, 1 + 2, Len(b))
  <2>1. b # <<>> /\ LineEnd(b) <= Len(b)
    BY <1>3, <1>5, SMTT(30)
  <2>2. p = ParseLine(q, LineOf(q))
    BY DEF p, line
  <2>3. /\ q.state # "FINISH" /\ (q.state = "REQUEST_LINE" => RequestLineAt(LineOf(q)) # {})
        /\ q.buf # <<>> /\ LineEnd(q.buf) <= Len(q.buf)
    BY <2>1 DEF b
  <2>4. /\ IsParse(s) /\ s.state = p.state /\ s.post = p.post /\ s.path = p.path /\ s.form = p.form
        /\ s.call = p.call /\ ~s.done /\ s.buf = SubSeq(q.buf, LineEnd(q.buf) + 2, Len(q.buf))
    BY <1>8, <2>2, <2>3, RoundLine
  <2> QED BY <1>5, <2>4 DEF b
<1>11. Rest(B, SubSeq(b, 1 + 2, Len(b)), (a + 8) + 1 + 1)
  <2>1. 1 \in 1..(Len(b) - 1)
    BY <1>3
  <2>2. Rest(B, b, a + 8)
    BY DEF b
  <2> QED BY <1>1, <2>1, <2>2, RestOfRest
<1>12. (a + 8) + 1 + 1 = a + 10
  BY <1>1
<1> QED BY <1>8, <1>9, <1>10, <1>11, <1>12

(* The fourth round takes the body of a form, which stays in the buffer. *)
LEMMA WholeBody ==
  ASSUME NEW B, NEW a, NEW r, WholeIn(B, a, r), requests[r].method = "POST",
         NEW q, IsParse(q), ~q.done, q.state = "BODY", q.form, q.call = <<>>,
         Rest(B, q.buf, a + 10), NEW s, s = Round(q)
  PROVE  /\ IsParse(s) /\ s.done /\ s.ok /\ s.path = q.path
         /\ s.buf \in Seq(AllPieces) /\ Len(s.buf) = 2 /\ s.buf[1].k = "b1" /\ s.buf[2].k = "b2"
         /\ q.post /\ q.path \in DEFAULT_HTML_TAG => s.call = <<[r |-> r, all |-> TRUE]>>
<1> DEFINE line == LineOf(q)
           p == ParseLine(q, line)
           b == q.buf
<1>1. B \in Seq(AllPieces) /\ a \in {0, 2} /\ Len(B) = a + 12
  <2>1. B \in Seq(AllPieces) /\ a \in {0, 2}
    BY DEF WholeIn
  <2>2. Len(B) = a + 12
    BY WholeKinds
  <2> QED BY <2>1, <2>2
<1>2. /\ b \in Seq(AllPieces) /\ Len(b) = Len(B) - (a + 10)
      /\ \A i \in 1..Len(b) : b[i] = B[(a + 10) + i]
  BY DEF Rest
<1>3. Len(b) = 2 /\ b # <<>> /\ 1 \in 1..Len(b) /\ 2 \in 1..Len(b)
  BY <1>1, <1>2
<1> HIDE DEF b
<1>4. b[1].k = "b1" /\ b[2].k = "b2" /\ b[1].r = r
  <2>1. b[1] = B[a + 11] /\ b[2] = B[a + 12]
    <3>1. (a + 10) + 1 = a + 11 /\ (a + 10) + 2 = a + 12
      BY <1>1
    <3> QED BY <1>2, <1>3, <3>1
  <2>2. B[a + 11].k = "b1" /\ B[a + 12].k = "b2" /\ B[a + 11].r = r
    BY <1>1, WholeKinds, ZenonT(40)
  <2> QED BY <2>1, <2>2
<1>5. LineEnd(b) = 3
  <2>1. \A i \in 1..(Len(b) - 1) : ~(b[i].k = "cr" /\ b[i + 1].k = "lf")
    BY <1>3, <1>4
  <2>2. LineEnd(b) = Len(b) + 1
    BY <1>2, <2>1, LineEndNone
  <2> QED BY <1>3, <2>2
<1>6. line \in Seq(AllPieces) /\ Len(line) = 2 /\ line[1] = b[1] /\ line[2] = b[2]
  <2>1. /\ line \in Seq(AllPieces) /\ Len(line) = LineEnd(b) - 1
        /\ \A i \in 1..Len(line) : line[i] = b[i]
    BY LineOfPieces DEF b
  <2> QED BY <1>5, <2>1
<1> HIDE DEF line
<1>7. p = ParseBody_(q, line)
  BY DEF ParseLine
<1> HIDE DEF p
<1>8. q.post => Len(line) > 0
  BY <1>6
<1>9. line \in Seq(AllPieces)
  BY <1>6
<1>10. /\ IsParse(p) /\ p.path = q.path /\ p.buf = q.buf /\ p.ok = q.ok /\ p.done = q.done
  <2>1. IsParse(p)
    BY <1>7, <1>8, <1>9, BodyFields, Zenon
  <2>2. p.path = q.path
    BY <1>7, <1>8, <1>9, BodyFields, Zenon
  <2>3. p.buf = q.buf
    BY <1>7, <1>8, <1>9, BodyFields, Zenon
  <2>4. p.ok = q.ok
    BY <1>7, <1>8, <1>9, BodyFields, Zenon
  <2>5. p.done = q.done
    BY <1>7, <1>8, <1>9, BodyFields, Zenon
  <2> QED BY <2>1, <2>2, <2>3, <2>4, <2>5
<1>11. p.call = IF q.post /\ q.form /\ q.path \in DEFAULT_HTML_TAG
                THEN <<[r |-> line[1].r, all |-> Kinds(line) = <<"b1", "b2">>]>>
                ELSE q.call
  BY <1>7, <1>8, <1>9, BodyFields, Zenon
<1>12. Kinds(line) = <<"b1", "b2">>
  <2>1. DOMAIN line = 1..2 /\ line[1].k = "b1" /\ line[2].k = "b2"
    BY <1>4, <1>6
  <2>2. Kinds(line) = [i \in 1..2 |-> line[i].k]
    BY <2>1 DEF Kinds
  <2>3. [i \in 1..2 |-> line[i].k] = <<"b1", "b2">>
    BY <2>1
  <2> QED BY <2>2, <2>3
<1>13. q.post /\ q.path \in DEFAULT_HTML_TAG => p.call = <<[r |-> r, all |-> TRUE]>>
  <2>1. line[1].r = r
    BY <1>4, <1>6
  <2>2. (Kinds(line) = <<"b1", "b2">>) = TRUE
    BY <1>12
  <2> QED BY <1>11, <2>1, <2>2
<1>14. /\ IsParse(s) /\ s.path = p.path /\ s.call = p.call /\ s.done /\ s.ok /\ s.buf = b
  <2>1. b # <<>> /\ LineEnd(b) > Len(b)
    BY <1>3, <1>5
  <2>2. p = ParseLine(q, LineOf(q))
    BY DEF p, line
  <2>3. /\ q.state # "FINISH" /\ (q.state = "REQUEST_LINE" => RequestLineAt(LineOf(q)) # {})
        /\ q.buf # <<>> /\ LineEnd(q.buf) > Len(q.buf)
    BY <2>1 DEF b
  <2>4. /\ IsParse(s) /\ s.path = p.path /\ s.call = p.call /\ s.done /\ s.ok /\ s.buf = q.buf
    BY <1>10, <2>2, <2>3, RoundLine
  <2> QED BY <2>4 DEF b
<1> QED BY <1>2, <1>3, <1>4, <1>10, <1>13, <1>14

(* A whole request, behind nothing or a body that an earlier form left: a GET leaves an
   empty buffer, a form leaves its body and is verified if nothing stood before it. *)
LEMMA ParseWhole ==
  ASSUME NEW B, NEW a, NEW r, WholeIn(B, a, r), NEW q, q = parse(B)
  PROVE  /\ q.ok
         /\ requests[r].method # "POST" =>
              q.buf = <<>> /\ q.call = <<>> /\ q.path = ParsePath_(requests[r].path)
         /\ requests[r].method = "POST" =>
              /\ q.buf \in Seq(AllPieces) /\ Len(q.buf) = 2 /\ q.buf[1].k = "b1" /\ q.buf[2].k = "b2"
              /\ a = 0 /\ ParsePath_(requests[r].path) \in DEFAULT_HTML_TAG =>
                   q.call = <<[r |-> r, all |-> TRUE]>>
<1>1. B \in Seq(AllPieces) /\ a \in {0, 2} /\ Len(B) \in {a + 10, a + 12}
  <2>1. B \in Seq(AllPieces) /\ a \in {0, 2}
    BY DEF WholeIn
  <2>2. Len(B) \in {a + 10, a + 12}
    BY WholeKinds
  <2> QED BY <2>1, <2>2
<1>2. PICK g : Rounds(g, Len(B) + 1, B) /\ q = g[Len(B) + 1]
  BY <1>1, ParseIsRounds
<1>3. 4 \in 0..(Len(B) + 1) /\ {1, 2, 3, 4} \subseteq 1..(Len(B) + 1)
  BY <1>1
<1>4. g[1] = Round(Start(B)) /\ g[2] = Round(g[1]) /\ g[3] = Round(g[2]) /\ g[4] = Round(g[3])
  <2>1. \A i \in {1, 2, 3, 4} : g[i] = Round(g[i - 1])
    BY <1>2, <1>3 DEF Rounds
  <2> QED BY <1>2, <2>1 DEF Rounds
<1>5. /\ IsParse(g[1]) /\ ~g[1].done /\ g[1].state = "HEADERS" /\ g[1].call = <<>>
      /\ g[1].path = ParsePath_(requests[r].path)
      /\ g[1].post = (a = 0 /\ requests[r].method = "POST")
      /\ Rest(B, g[1].buf, a + 4)
  BY <1>4, WholeLine
<1>6. /\ IsParse(g[2]) /\ ~g[2].done /\ g[2].state = "HEADERS" /\ g[2].form /\ g[2].call = g[1].call
      /\ g[2].path = g[1].path /\ g[2].post = g[1].post
      /\ Rest(B, g[2].buf, a + 8)
  BY <1>4, <1>5, WholeHeader
<1>7. /\ IsParse(g[3]) /\ ~g[3].done /\ g[3].form /\ g[3].call = g[2].call
      /\ g[3].path = g[2].path /\ g[3].post = g[2].post
      /\ Rest(B, g[3].buf, a + 10)
      /\ g[3].state = IF requests[r].method = "POST" THEN "BODY" ELSE "FINISH"
  BY <1>4, <1>6, WholeBlank
<1>8. ASSUME g[4].done
      PROVE  q = g[4]
  BY <1>1, <1>2, <1>3, <1>8, ParseEnds
<1>9. CASE requests[r].method # "POST"
  <2>1. g[3].state = "FINISH"
    BY <1>7, <1>9
  <2>2. g[4].done /\ g[4].ok /\ g[4].path = g[3].path /\ g[4].buf = g[3].buf /\ g[4].call = g[3].call
    BY <1>4, <1>7, <2>1, RoundEnds
  <2>3. g[3].buf = <<>>
    <3>1. g[3].buf \in Seq(AllPieces) /\ Len(g[3].buf) = Len(B) - (a + 10)
      BY <1>7 DEF Rest
    <3>2. Len(B) # a + 12
      BY <1>9, WholeKinds
    <3>3. Len(g[3].buf) = 0
      BY <1>1, <3>1, <3>2
    <3> QED BY <3>1, <3>3
  <2> QED BY <1>5, <1>6, <1>7, <1>8, <1>9, <2>2, <2>3
<1>10. CASE requests[r].method = "POST"
  <2>1. g[3].state = "BODY" /\ g[3].call = <<>>
    BY <1>5, <1>6, <1>7, <1>10
  <2>2. /\ g[4].done /\ g[4].ok
        /\ g[4].buf \in Seq(AllPieces) /\ Len(g[4].buf) = 2
        /\ g[4].buf[1].k = "b1" /\ g[4].buf[2].k = "b2"
        /\ g[3].post /\ g[3].path \in DEFAULT_HTML_TAG => g[4].call = <<[r |-> r, all |-> TRUE]>>
    BY <1>4, <1>7, <1>10, <2>1, WholeBody
  <2>3. a = 0 => g[3].post
    BY <1>5, <1>6, <1>7, <1>10
  <2>4. g[3].path = ParsePath_(requests[r].path)
    BY <1>5, <1>6, <1>7
  <2> QED BY <1>8, <1>10, <2>2, <2>3, <2>4
<1> QED BY <1>9, <1>10

-------------------------------------------------------------------------------
(* What one read does to the bytes, and that it verifies at most the form which the
   unread bytes start with, whose request line is then read. *)
LEMMA ReadParse ==
  ASSUME BytesInv, NEW n \in 1..Len(wire),
         NEW B, B = readBuff_ \o SubSeq(wire, 1, n), NEW q, q = parse(B)
  PROVE  /\ IsParse(q) /\ B \in Seq(AllPieces) /\ Len(Unread) > 0
         /\ \E m \in 0..Len(B) :
              /\ Rest(B, q.buf, m)
              /\ q.call # <<>> =>
                   /\ m >= 10 /\ Unread[1].n = 1 /\ requests[Unread[1].r].method = "POST"
                   /\ \E all \in BOOLEAN : q.call = <<[r |-> Unread[1].r, all |-> all]>>
<1>1. readBuff_ \in Seq(AllPieces) /\ wire \in Seq(AllPieces) /\ Stream(requests, Unread)
  BY DEF BytesInv
<1>2. /\ B \in Seq(AllPieces) /\ Len(B) > 0 /\ Len(B) <= Len(Unread)
      /\ \A i \in 1..Len(B) : B[i] = Unread[i]
  BY <1>1, CutStart DEF Unread
<1>3. Unread \in Seq(AllPieces) /\ Len(Unread) \in Nat /\ Len(B) \in Nat
  BY <1>1, <1>2 DEF Stream
<1>4. Len(Unread) > 0 /\ 1 \in 1..Len(Unread) /\ B[1] = Unread[1]
  <2>1. Len(B) > 0 /\ Len(B) <= Len(Unread)
    BY <1>2
  <2>2. Len(Unread) > 0 /\ 1 \in 1..Len(Unread) /\ 1 \in 1..Len(B)
    BY <1>3, <2>1
  <2> QED BY <1>2, <2>2
<1>5. CASE ~StartsForm(B)
  <2>1. Quiet(B, q)
    BY <1>2, <1>5, ParseQuiet
  <2> QED BY <1>2, <1>4, <2>1 DEF Quiet
<1>6. CASE StartsForm(B)
  <2>1. Unread[1].k = "r1" /\ requests[Unread[1].r].method = "POST"
    BY <1>4, <1>6 DEF StartsForm
  <2>2. Unread[1].n = 1
    <3>1. PieceOf(requests, Unread[1])
      BY <1>1, <1>4 DEF Stream
    <3>2. Unread[1].n \in 1..12 /\ KindAt[Unread[1].n] = "r1"
      BY <2>1, <3>1 DEF PieceOf, Length
    <3>3. Unread[1].n \in {1, 2, 3, 4, 5, 6, 7, 8, 9, 10, 11, 12}
      BY <3>2
    <3> QED BY <3>2, <3>3, KindAtValues
  <2>3. Length(requests, Unread[1].r) = 12
    BY <2>1 DEF Length
  <2>4. \A j \in 1..Len(Unread) : j <= 12 => Unread[j].r = Unread[1].r /\ Unread[j].k = KindAt[j]
    <3>1. \A j \in 1..Len(Unread) : j <= Length(requests, Unread[1].r) =>
            Unread[j].r = Unread[1].r /\ Unread[j].n = j /\ Unread[j].k = KindAt[j]
      <4>1. Stream(requests, Unread) /\ Len(Unread) > 0 /\ Unread[1].n = 1
        BY <1>1, <1>4, <2>2
      <4> QED BY <4>1, StreamRequest
    <3> QED BY <2>3, <3>1
  <2>5. RequestFirst(B)
    <3> SUFFICES ASSUME NEW j \in 1..Len(B), j <= 12
                 PROVE  B[j].k = KindAt[j] /\ B[j].r = B[1].r
      BY DEF RequestFirst
    <3>1. Len(B) <= Len(Unread)
      BY <1>2
    <3>2. j \in 1..Len(Unread)
      BY <1>3, <3>1
    <3>3. B[j] = Unread[j]
      BY <1>2
    <3>4. Unread[j].r = Unread[1].r /\ Unread[j].k = KindAt[j]
      BY <2>4, <3>2
    <3> QED BY <1>4, <3>3, <3>4
  <2>6. InForm(B, q)
    BY <1>2, <2>5, ParseInForm
  <2>7. PICK m \in 0..Len(B) :
          /\ Rest(B, q.buf, m)
          /\ q.call # <<>> => /\ m >= 10
                              /\ \E all \in BOOLEAN : q.call = <<[r |-> B[1].r, all |-> all]>>
    BY <2>6 DEF InForm
  <2> QED BY <1>2, <1>4, <2>1, <2>2, <2>6, <2>7 DEF InForm
<1> QED BY <1>5, <1>6

(* A read keeps the stream. *)
LEMMA ReadBytes ==
  ASSUME BytesInv, NEW n \in 1..Len(wire), Read(n)
  PROVE  /\ BytesInv' /\ Len(Unread) > 0
         /\ \E m \in Nat, c \in Seq(Calls) :
              /\ Rest(Unread, Unread', m) /\ verified' = verified \o c
              /\ c # <<>> =>
                   /\ m >= 10 /\ Unread[1].n = 1 /\ requests[Unread[1].r].method = "POST"
                   /\ \E all \in BOOLEAN : c = <<[r |-> Unread[1].r, all |-> all]>>
<1> DEFINE B == readBuff_ \o SubSeq(wire, 1, n)
           q == parse(B)
<1>1. /\ readBuff_' = q.buf /\ wire' = SubSeq(wire, n + 1, Len(wire)) /\ requests' = requests
      /\ verified' = verified \o q.call
  BY DEF Read, Left
<1>2. readBuff_ \in Seq(AllPieces) /\ wire \in Seq(AllPieces) /\ Stream(requests, Unread)
  BY DEF BytesInv
<1>3. /\ IsParse(q) /\ B \in Seq(AllPieces) /\ Len(Unread) > 0
      /\ \E m \in 0..Len(B) :
           /\ Rest(B, q.buf, m)
           /\ q.call # <<>> =>
                /\ m >= 10 /\ Unread[1].n = 1 /\ requests[Unread[1].r].method = "POST"
                /\ \E all \in BOOLEAN : q.call = <<[r |-> Unread[1].r, all |-> all]>>
  BY ReadParse
<1>4. PICK m \in 0..Len(B) :
        /\ Rest(B, q.buf, m)
        /\ q.call # <<>> =>
             /\ m >= 10 /\ Unread[1].n = 1 /\ requests[Unread[1].r].method = "POST"
             /\ \E all \in BOOLEAN : q.call = <<[r |-> Unread[1].r, all |-> all]>>
  BY <1>3
<1>5. q.buf \in Seq(AllPieces) /\ m \in Nat /\ q.call \in Seq(Calls)
  BY <1>3, <1>4 DEF Rest, IsParse
<1> HIDE DEF q
<1>6. /\ SubSeq(wire, n + 1, Len(wire)) \in Seq(AllPieces)
      /\ Rest(readBuff_ \o wire, q.buf \o SubSeq(wire, n + 1, Len(wire)), m)
  BY <1>2, <1>4, CutRest
<1>7. Rest(Unread, Unread', m)
  BY <1>1, <1>6 DEF Unread
<1>8. Stream(requests, Unread')
  BY <1>2, <1>7, StreamRest
<1>9. BytesInv'
  BY <1>1, <1>5, <1>6, <1>8 DEF BytesInv
<1> HIDE DEF B
<1> QED BY <1>1, <1>3, <1>4, <1>5, <1>7, <1>9

(* The first unread piece only moves on. *)
LEMMA ReadMovesOn ==
  ASSUME NEW reqs, NEW S, Stream(reqs, S), NEW V, NEW m \in Nat, Rest(S, V, m), Len(V) > 0, Len(S) > 0
  PROVE  /\ S[1].r < V[1].r \/ (S[1].r = V[1].r /\ S[1].n <= V[1].n)
         /\ m >= 10 /\ S[1].n = 1 => S[1].r < V[1].r \/ (S[1].r = V[1].r /\ V[1].n > 1)
         /\ S[1].r \in Nat /\ S[1].n \in Nat /\ V[1].r \in Nat /\ V[1].n \in Nat
<1>1. S \in Seq(AllPieces) /\ Len(S) \in Nat /\ V \in Seq(AllPieces) /\ Len(V) \in Nat
  BY DEF Stream, Rest
<1>2. Len(V) = Len(S) - m /\ m <= Len(S) /\ \A i \in 1..Len(V) : V[i] = S[m + i]
  BY DEF Rest
<1>3. 1 \in 1..Len(V) /\ m + 1 \in 1..Len(S) /\ 1 \in 1..Len(S) /\ 1 <= m + 1
  BY <1>1, <1>2
<1>4. V[1] = S[m + 1]
  BY <1>2, <1>3
<1>5. S[1].r \in Nat /\ S[1].n \in Nat /\ V[1].r \in Nat /\ V[1].n \in Nat
  <2>1. S[1] \in AllPieces /\ V[1] \in AllPieces
    BY <1>1, <1>3
  <2> QED BY <2>1 DEF AllPieces
<1>6. S[1].r < V[1].r \/ (S[1].r = V[1].r /\ S[1].n <= V[1].n)
  BY <1>3, <1>4, StreamOrder
<1>7. ASSUME m >= 10, S[1].n = 1
      PROVE  S[1].r < V[1].r \/ (S[1].r = V[1].r /\ V[1].n > 1)
  <2>1. 2 \in 1..Len(S) /\ 2 <= m + 1 /\ 1 \in 1..(Len(S) - 1)
    BY <1>1, <1>3, <1>7
  <2>2. S[2].r < V[1].r \/ (S[2].r = V[1].r /\ S[2].n <= V[1].n)
    BY <1>3, <1>4, <2>1, StreamOrder
  <2>3. S[2].r = S[1].r /\ S[2].n = 2
    <3>1. Follows(reqs, S[1], S[1 + 1])
      BY <2>1 DEF Stream
    <3>2. S[1].n < Length(reqs, S[1].r)
      BY <1>7 DEF Length
    <3> QED BY <1>7, <3>1, <3>2 DEF Follows
  <2> QED BY <1>5, <2>2, <2>3
<1> QED BY <1>5, <1>6, <1>7

(* A read verifies only a form that none of the earlier calls was for. *)
LEMMA ReadVerified ==
  ASSUME BytesInv, VerifiedInv, NEW n \in 1..Len(wire), Read(n)
  PROVE  VerifiedInv'
<1> DEFINE U == Unread
           V == Unread'
           x == Len(verified)
           before(p, v) == v < p.r \/ (v = p.r /\ p.n > 1)
<1>1. /\ BytesInv' /\ Len(U) > 0
      /\ \E m \in Nat, c \in Seq(Calls) :
           /\ Rest(U, V, m) /\ verified' = verified \o c
           /\ c # <<>> =>
                /\ m >= 10 /\ U[1].n = 1 /\ requests[U[1].r].method = "POST"
                /\ \E all \in BOOLEAN : c = <<[r |-> U[1].r, all |-> all]>>
  BY ReadBytes
<1>2. PICK m \in Nat, c \in Seq(Calls) :
        /\ Rest(U, V, m) /\ verified' = verified \o c
        /\ c # <<>> =>
             /\ m >= 10 /\ U[1].n = 1 /\ requests[U[1].r].method = "POST"
             /\ \E all \in BOOLEAN : c = <<[r |-> U[1].r, all |-> all]>>
  BY <1>1
<1>3. requests' = requests /\ Stream(requests, U) /\ requests \in Seq(Requests) /\ Len(requests) \in Nat
  <2>1. requests' = requests
    BY DEF Read
  <2>2. Stream(requests, U) /\ requests \in Seq(Requests)
    BY DEF BytesInv
  <2> QED BY <2>1, <2>2
<1>4. U[1].r \in 1..Len(requests) /\ U[1].n \in Nat
  <2>1. 1 \in 1..Len(U) /\ U[1] \in AllPieces
    BY <1>1, <1>3 DEF Stream
  <2> QED BY <1>3, <2>1 DEF Stream, PieceOf, AllPieces
<1>5. /\ verified \in Seq(Calls) /\ x \in Nat
      /\ \A i \in 1..x : /\ verified[i].r \in i..Len(requests)
                         /\ requests[verified[i].r].method = "POST"
                         /\ before(U[1], verified[i].r)
      /\ \A i, j \in 1..x : i < j => verified[i].r < verified[j].r
  BY <1>1 DEF VerifiedInv
<1>6. Len(V) > 0 =>
        /\ U[1].r < V[1].r \/ (U[1].r = V[1].r /\ U[1].n <= V[1].n)
        /\ m >= 10 /\ U[1].n = 1 => before(V[1], U[1].r)
        /\ V[1].r \in Nat /\ V[1].n \in Nat
  BY <1>1, <1>2, <1>3, ReadMovesOn
<1> HIDE DEF U, V, x
<1>7. ASSUME NEW i \in 1..x, Len(V) > 0
      PROVE  before(V[1], verified[i].r)
  BY <1>4, <1>5, <1>6, <1>7, SMTT(30)
<1>8. CASE c = <<>>
  <2>1. verified' = verified
    BY <1>2, <1>5, <1>8
  <2> QED BY <1>3, <1>5, <1>7, <2>1 DEF VerifiedInv, V, x
<1>9. CASE c # <<>>
  <2>1. /\ m >= 10 /\ U[1].n = 1 /\ requests[U[1].r].method = "POST"
        /\ \E all \in BOOLEAN : c = <<[r |-> U[1].r, all |-> all]>>
    BY <1>2, <1>9
  <2>2. Len(c) = 1 /\ c[1].r = U[1].r
    BY <2>1
  <2> DEFINE w == verified \o c
             v(i) == w[i].r
  <2>3. /\ w \in Seq(Calls) /\ Len(w) = x + 1
        /\ \A i \in 1..x : w[i] = verified[i]
        /\ w[x + 1] = c[1]
    <3>1. w \in Seq(Calls) /\ Len(w) = x + 1 /\ \A i \in 1..x : w[i] = verified[i]
      <4>1. verified \in Seq(Calls) /\ c \in Seq(Calls)
        BY <1>5
      <4>2. /\ w \in Seq(Calls) /\ Len(w) = Len(verified) + Len(c)
            /\ \A i \in 1..Len(verified) : w[i] = verified[i]
        BY <4>1, Joined
      <4> HIDE DEF w
      <4> QED BY <2>2, <4>2 DEF x
    <3>2. \A i \in 1..Len(c) : w[Len(verified) + i] = c[i]
      BY <1>5, Joined
    <3>3. 1 \in 1..Len(c)
      BY <2>2
    <3>4. w[Len(verified) + 1] = c[1]
      BY <3>2, <3>3, Zenon
    <3> QED BY <3>1, <3>4 DEF x
  <2> HIDE DEF w
  <2>4. \A i \in 1..x : v(i) = verified[i].r /\ v(i) < U[1].r /\ v(i) \in Nat
    <3> SUFFICES ASSUME NEW i \in 1..x
                 PROVE  v(i) = verified[i].r /\ v(i) < U[1].r /\ v(i) \in Nat
      OBVIOUS
    <3>1. verified[i].r \in i..Len(requests) /\ before(U[1], verified[i].r)
      BY <1>5
    <3> QED BY <1>3, <2>1, <2>3, <3>1
  <2>5. v(x + 1) = U[1].r
    BY <2>2, <2>3
  <2>6. x < U[1].r
    <3>1. CASE x = 0
      BY <1>4, <3>1
    <3>2. CASE x # 0
      <4>1. x \in 1..x
        BY <1>5, <3>2
      <4>2. verified[x].r \in x..Len(requests) /\ verified[x].r < U[1].r
        BY <1>5, <2>4, <4>1
      <4> QED BY <1>3, <1>4, <1>5, <4>2
    <3> QED BY <3>1, <3>2
  <2>7. ASSUME NEW i \in 1..(x + 1)
        PROVE  /\ v(i) \in i..Len(requests)
               /\ requests[v(i)].method = "POST"
               /\ Len(V) > 0 => before(V[1], v(i))
    <3>1. CASE i <= x
      <4>1. i \in 1..x
        BY <1>5, <3>1
      <4> QED BY <1>5, <1>7, <2>4, <4>1
    <3>2. CASE i = x + 1
      <4>1. v(i) \in i..Len(requests)
        BY <1>3, <1>4, <1>5, <2>5, <2>6, <3>2
      <4>2. requests[v(i)].method = "POST"
        BY <2>1, <2>5, <3>2
      <4>3. Len(V) > 0 => before(V[1], v(i))
        BY <1>6, <2>1, <2>5, <3>2
      <4> QED BY <4>1, <4>2, <4>3
    <3> QED BY <1>5, <3>1, <3>2
  <2>8. ASSUME NEW i \in 1..(x + 1), NEW j \in 1..(x + 1), i < j
        PROVE  v(i) < v(j)
    <3>1. i \in 1..x
      BY <1>5, <2>8
    <3>2. CASE j = x + 1
      BY <2>4, <2>5, <3>1, <3>2
    <3>3. CASE j # x + 1
      <4>1. j \in 1..x
        BY <1>5, <3>3
      <4> QED BY <1>5, <2>4, <2>8, <3>1, <4>1
    <3> QED BY <3>2, <3>3
  <2>9. verified' = w /\ Len(verified') = x + 1
    BY <1>2, <2>3 DEF w
  <2> QED BY <1>3, <2>3, <2>7, <2>8, <2>9 DEF VerifiedInv, V
<1> QED BY <1>8, <1>9

-------------------------------------------------------------------------------
(* What is on the wire is a stream of its own. *)
LEMMA WireStream ==
  ASSUME BytesInv
  PROVE  Stream(requests, wire)
<1>1. readBuff_ \in Seq(AllPieces) /\ wire \in Seq(AllPieces) /\ Stream(requests, Unread)
  BY DEF BytesInv
<1> DEFINE a == Len(readBuff_)
<1>2. Len(Unread) = a + Len(wire) /\ \A i \in 1..Len(wire) : Unread[a + i] = wire[i]
  <2>1. Len(Unread) = a + Len(wire)
    BY <1>1, Joined DEF Unread
  <2>2. \A i \in 1..Len(wire) : Unread[a + i] = wire[i]
    BY <1>1, Joined DEF Unread
  <2> QED BY <2>1, <2>2
<1>3. a \in Nat /\ Len(wire) \in Nat
  BY <1>1
<1> HIDE DEF a
<1>4. Rest(Unread, wire, a)
  BY <1>1, <1>2, <1>3 DEF Rest
<1> QED BY <1>1, <1>4, StreamRest

(* A read brings one whole request, number r. *)
ReadsOne(n, r) == r = wire[1].r /\ SubSeq(wire, 1, n) = Pieces(requests[r], r)

(* What parse sees. *)
Seen(n) == readBuff_ \o SubSeq(wire, 1, n)

(* A read of one whole request makes it the last one read. *)
LEMMA WholeNext ==
  ASSUME BytesInv, NEW n \in 1..Len(wire), Read(n),
         NEW r, ReadsOne(n, r)
  PROVE  /\ r \in 1..Len(requests) /\ n = Length(requests, r)
         /\ LastRead' = r /\ (Len(wire') > 0 => wire'[1].n = 1)
<1> DEFINE P == Pieces(requests[r], r)
           w == SubSeq(wire, n + 1, Len(wire))
<1>1. Stream(requests, wire) /\ wire \in Seq(AllPieces) /\ Len(wire) \in Nat /\ n \in 1..Len(wire)
  BY WireStream DEF BytesInv
<1>2. PieceOf(requests, wire[1]) /\ 1 \in 1..Len(wire)
  BY <1>1 DEF Stream
<1>3. r \in 1..Len(requests) /\ r \in Nat
  <2>1. r \in 1..Len(requests)
    BY <1>2 DEF PieceOf, ReadsOne
  <2> QED BY <2>1
<1>4. Len(P) = n /\ \A i \in 1..n : P[i] = wire[i]
  <2>1. Len(SubSeq(wire, 1, n)) = n /\ \A i \in 1..n : SubSeq(wire, 1, n)[i] = wire[i]
    BY <1>1
  <2> QED BY <2>1 DEF ReadsOne
<1>5. /\ Len(P) = (IF requests[r].method = "POST" THEN 12 ELSE 10)
      /\ \A i \in 1..Len(P) : P[i].k = KindAt[i] /\ P[i].r = r /\ P[i].n = i
  <2>1. P = Pieces(requests[r], r)
    OBVIOUS
  <2>2. ASSUME NEW req, NEW Q, Q = Pieces(req, r)
        PROVE  /\ Q \in Seq(AllPieces) /\ Len(Q) = (IF req.method = "POST" THEN 12 ELSE 10)
               /\ Numbered(Q, r)
    BY <1>3, <2>2, PiecesFields
  <2> HIDE DEF P
  <2>3. P \in Seq(AllPieces)
    BY <2>1, <2>2, Zenon
  <2>4. Len(P) = (IF requests[r].method = "POST" THEN 12 ELSE 10)
    BY <2>1, <2>2, Zenon
  <2>5. Numbered(P, r)
    BY <2>1, <2>2, Zenon
  <2> QED BY <2>3, <2>4, <2>5 DEF Numbered
<1> HIDE DEF P
<1>6. n = Length(requests, r) /\ n \in {10, 12}
  BY <1>4, <1>5 DEF Length
<1>7. wire[n].r = r /\ wire[n].n = n
  <2>1. n \in 1..n /\ n \in 1..Len(P)
    BY <1>4, <1>6
  <2> QED BY <1>4, <1>5, <2>1
<1>8. wire' = w /\ requests' = requests
  BY DEF Read
<1>9. w \in Seq(AllPieces) /\ Len(w) = Len(wire) - n /\ \A i \in 1..(Len(wire) - n) : w[i] = wire[n + i]
  BY <1>1
<1> HIDE DEF w
<1>10. CASE n = Len(wire)
  <2>1. w = <<>> /\ Len(w) = 0
    BY <1>1, <1>9, <1>10
  <2>2. wire[n].r = Len(requests)
    BY <1>1, <1>10 DEF Stream
  <2>3. LastRead' = r
    BY <1>7, <1>8, <2>1, <2>2 DEF LastRead
  <2> QED BY <1>3, <1>6, <1>8, <2>1, <2>3
<1>11. CASE n # Len(wire)
  <2>1. n \in 1..(Len(wire) - 1) /\ 1 \in 1..(Len(wire) - n) /\ Len(w) > 0
    BY <1>1, <1>9, <1>11
  <2>2. Follows(requests, wire[n], wire[n + 1])
    BY <1>1, <2>1 DEF Stream
  <2>3. ~(wire[n].n < Length(requests, wire[n].r))
    BY <1>6, <1>7
  <2>4. wire[n + 1].r = r + 1 /\ wire[n + 1].n = 1
    BY <1>7, <2>2, <2>3 DEF Follows
  <2>5. w[1] = wire[n + 1] /\ w # <<>>
    BY <1>9, <2>1
  <2>6. LastRead' = r
    BY <1>3, <1>8, <2>4, <2>5 DEF LastRead
  <2> QED BY <1>3, <1>6, <1>8, <2>4, <2>5, <2>6
<1> QED BY <1>10, <1>11

(* What parse sees then: the request, behind what an earlier form left. *)
LEMMA WholeSeen ==
  ASSUME BytesInv, WholeInv, whole, NEW n \in 1..Len(wire),
         NEW r \in 1..Len(requests), ReadsOne(n, r), n = Length(requests, r)
  PROVE  /\ WholeIn(Seen(n), Len(readBuff_), r)
         /\ Forms(r) = {r} => Len(readBuff_) = 0
<1> DEFINE P == Pieces(requests[r], r)
           a == Len(readBuff_)
           B == Seen(n)
<1>1. /\ readBuff_ \in Seq(AllPieces) /\ wire \in Seq(AllPieces) /\ r \in Nat /\ Len(wire) \in Nat
      /\ requests \in Seq(Requests) /\ Len(requests) \in Nat
  <2>1. readBuff_ \in Seq(AllPieces) /\ wire \in Seq(AllPieces) /\ requests \in Seq(Requests)
    BY DEF BytesInv
  <2>2. r \in Nat
    OBVIOUS
  <2> QED BY <2>1, <2>2
<1>2. /\ P \in Seq(AllPieces) /\ Len(P) = (IF requests[r].method = "POST" THEN 12 ELSE 10)
      /\ \A i \in 1..Len(P) : P[i].k = KindAt[i] /\ P[i].r = r /\ P[i].n = i
  <2>2. ASSUME NEW req, NEW Q, Q = Pieces(req, r)
        PROVE  /\ Q \in Seq(AllPieces) /\ Len(Q) = (IF req.method = "POST" THEN 12 ELSE 10)
               /\ Numbered(Q, r)
    BY <1>1, <2>2, PiecesFields
  <2>1. P = Pieces(requests[r], r)
    OBVIOUS
  <2> HIDE DEF P
  <2>3. P \in Seq(AllPieces)
    BY <2>1, <2>2, Zenon
  <2>4. Len(P) = (IF requests[r].method = "POST" THEN 12 ELSE 10)
    BY <2>1, <2>2, Zenon
  <2>5. Numbered(P, r)
    BY <2>1, <2>2, Zenon
  <2> QED BY <2>3, <2>4, <2>5 DEF Numbered
<1>3. Len(P) = Length(requests, r)
  BY <1>2 DEF Length
<1>4. LastRead = r - 1
  <2>1. wire # <<>>
    BY <1>1
  <2> QED BY <2>1 DEF LastRead, ReadsOne
<1>5. IF LastRead \in Forms(LastRead)
      THEN a = 2 /\ readBuff_[1].k = "b1" /\ readBuff_[2].k = "b2"
      ELSE readBuff_ = <<>>
  BY DEF WholeInv
<1>6. a \in {0, 2} /\ \A j \in 1..a : readBuff_[j].k \in {"b1", "b2"}
  <2>1. CASE LastRead \in Forms(LastRead)
    <3>1. a = 2 /\ readBuff_[1].k = "b1" /\ readBuff_[2].k = "b2"
      BY <1>5, <2>1
    <3> HIDE DEF a
    <3> QED BY <3>1
  <2>2. CASE LastRead \notin Forms(LastRead)
    <3>1. a = 0
      BY <1>5, <2>2
    <3> HIDE DEF a
    <3> QED BY <3>1
  <2> QED BY <2>1, <2>2
<1>7. B = readBuff_ \o P
  BY DEF Seen, ReadsOne
<1> HIDE DEF P, B
<1>12. P \in Seq(AllPieces)
  BY <1>2
<1>8. B \in Seq(AllPieces) /\ Len(B) = a + Len(P) /\ \A i \in 1..a : B[i] = readBuff_[i]
  BY <1>1, <1>7, <1>12, Joined
<1>9. \A i \in 1..Len(P) : B[a + i] = P[i]
  BY <1>1, <1>7, <1>12, Joined
<1> HIDE DEF a
<1>10. WholeIn(B, a, r)
  <2>1. \A j \in 1..a : B[j].k \in {"b1", "b2"}
    BY <1>6, <1>8
  <2>2. \A j \in 1..Length(requests, r) : B[a + j].k = KindAt[j] /\ B[a + j].r = r
    <3> SUFFICES ASSUME NEW j \in 1..Len(P)
                 PROVE  B[a + j].k = KindAt[j] /\ B[a + j].r = r
      BY <1>3
    <3>1. B[a + j] = P[j]
      BY <1>9
    <3> QED BY <1>2, <3>1
  <2> QED BY <1>1, <1>3, <1>6, <1>8, <2>1, <2>2 DEF WholeIn
<1>11. ASSUME Forms(r) = {r}
       PROVE  a = 0
  <2>1. ASSUME LastRead \in Forms(LastRead)
        PROVE  FALSE
    <3>1. r - 1 \in 1..r /\ requests[r - 1].method = "POST"
      <4>1. r - 1 \in Forms(r - 1)
        BY <1>4, <2>1
      <4>2. r - 1 \in 1..(r - 1) /\ requests[r - 1].method = "POST"
        BY <4>1 DEF Forms
      <4> QED BY <1>1, <4>2
    <3>2. r - 1 \in Forms(r)
      BY <3>1 DEF Forms
    <3>3. r - 1 # r
      BY <1>1
    <3> QED BY <1>11, <3>2, <3>3
  <2> QED BY <1>5, <2>1 DEF a
<1> QED BY <1>10, <1>11 DEF a, B

(* The codes that are sent, and that the pages after a form are there. *)
LEMMA Responses ==
  /\ \A page : MakeResponse(page, 200).code \in {200, 403, 404}
  /\ MakeResponse("", 400).code = 404
  /\ \A page \in {"/welcome.html", "/error.html"} : MakeResponse(page, 200).path = page
<1>1. ASSUME NEW page
      PROVE  MakeResponse(page, 200).code \in {200, 403, 404}
  BY DEF MakeResponse
<1>2. MakeResponse("", 400).code = 404
  BY HttpAssumption DEF MakeResponse
<1>3. ASSUME NEW page \in {"/welcome.html", "/error.html"}
      PROVE  MakeResponse(page, 200).path = page
  <2>1. page \in Paths /\ FileStat[page] = "ok"
    BY HttpAssumption
  <2> QED BY <2>1 DEF MakeResponse
<1> QED BY <1>1, <1>2, <1>3

(* The kinds of an empty buffer and of a body. *)
LEMMA KindsLeft ==
  /\ Kinds(<<>>) = <<>>
  /\ \A b \in Seq(AllPieces) :
       Len(b) = 2 /\ b[1].k = "b1" /\ b[2].k = "b2" => Kinds(b) = <<"b1", "b2">>
<1>1. Kinds(<<>>) = <<>>
  BY DEF Kinds
<1>2. ASSUME NEW b \in Seq(AllPieces), Len(b) = 2, b[1].k = "b1", b[2].k = "b2"
      PROVE  Kinds(b) = <<"b1", "b2">>
  <2>1. DOMAIN b = 1..2
    BY <1>2
  <2>2. Kinds(b) = [i \in 1..2 |-> b[i].k]
    BY <2>1 DEF Kinds
  <2>3. [i \in 1..2 |-> b[i].k] = <<"b1", "b2">>
    BY <1>2
  <2> QED BY <2>2, <2>3
<1> QED BY <1>1, <1>2

(* Every answer has one of the codes. *)
LEMMA ReadAnswer ==
  ASSUME NEW n \in 1..Len(wire), Read(n)
  PROVE  AnswerInv'
<1> DEFINE q == parse(readBuff_ \o SubSeq(wire, 1, n))
<1>1. PICK page \in PagesAfter(q) :
        answer' = IF q.ok THEN MakeResponse(page, 200) ELSE MakeResponse("", 400)
  BY DEF Read
<1>2. answer'.code \in {0, 200, 400, 403, 404}
  <2> HIDE DEF q
  <2>1. CASE q.ok
    <3>1. MakeResponse(page, 200).code \in {200, 403, 404}
      BY DEF MakeResponse
    <3>2. answer' = MakeResponse(page, 200)
      BY <1>1, <2>1
    <3> QED BY <3>1, <3>2
  <2>2. CASE ~q.ok
    BY <1>1, <2>2, Responses, ZenonT(40)
  <2> QED BY <2>1, <2>2
<1>3. whole' \in BOOLEAN
  <2>1. whole' = (whole /\ SubSeq(wire, 1, n) = Pieces(requests[wire[1].r], wire[1].r))
    BY DEF Read
  <2> DEFINE w == (whole /\ SubSeq(wire, 1, n) = Pieces(requests[wire[1].r], wire[1].r))
  <2>2. w \in BOOLEAN
    BY Zenon
  <2> HIDE DEF w
  <2> QED BY <2>1, <2>2 DEF w
<1> QED BY <1>2, <1>3 DEF AnswerInv

(* A read of a whole request answers it and leaves nothing, or the body of a form. *)
LEMMA ReadWhole ==
  ASSUME BytesInv, VerifiedInv, WholeInv, NEW n \in 1..Len(wire), Read(n)
  PROVE  WholeInv' /\ WholeRequestsAnswered'
<1> SUFFICES ASSUME whole'
             PROVE  WholeInv' /\ WholeRequestsAnswered'
  BY DEF WholeInv, WholeRequestsAnswered
<1> DEFINE r == wire[1].r
           q == parse(Seen(n))
           path == ParsePath_(requests[r].path)
<1>1. whole /\ ReadsOne(n, r)
  BY DEF Read, ReadsOne
<1>2. /\ r \in 1..Len(requests) /\ n = Length(requests, r)
      /\ LastRead' = r /\ (Len(wire') > 0 => wire'[1].n = 1)
  BY <1>1, WholeNext
<1>3. /\ WholeIn(Seen(n), Len(readBuff_), r)
      /\ Forms(r) = {r} => Len(readBuff_) = 0
  BY <1>1, <1>2, WholeSeen
<1>4. /\ q.ok
      /\ requests[r].method # "POST" => q.buf = <<>> /\ q.call = <<>> /\ q.path = path
      /\ requests[r].method = "POST" =>
           /\ q.buf \in Seq(AllPieces) /\ Len(q.buf) = 2 /\ q.buf[1].k = "b1" /\ q.buf[2].k = "b2"
           /\ Len(readBuff_) = 0 /\ path \in DEFAULT_HTML_TAG => q.call = <<[r |-> r, all |-> TRUE]>>
  BY <1>3, ParseWhole
<1>5. /\ readBuff_' = q.buf /\ verified' = verified \o q.call /\ requests' = requests
      /\ \E page \in PagesAfter(q) :
           answer' = IF q.ok THEN MakeResponse(page, 200) ELSE MakeResponse("", 400)
  BY DEF Read, Left, Seen
<1> HIDE DEF q, path
<1>6. PICK page \in PagesAfter(q) : answer' = MakeResponse(page, 200)
  BY <1>4, <1>5
<1> HIDE DEF r
<1>7. r \in Nat /\ r > 0 /\ (r \in Forms(r) <=> requests[r].method = "POST")
  <2>1. r \in Nat /\ r > 0 /\ r \in 1..r
    BY <1>2
  <2> QED BY <2>1 DEF Forms
<1>8. WholeInv'
  <2>1. (LastRead \in Forms(LastRead))' <=> requests[r].method = "POST"
    BY <1>2, <1>5, <1>7 DEF Forms
  <2> QED BY <1>2, <1>4, <1>5, <1>7, <2>1 DEF WholeInv
<1>9. requests[r].method = "GET" => answer' = MakeResponse(path, 200)
  <2> SUFFICES ASSUME requests[r].method = "GET" PROVE answer' = MakeResponse(path, 200)
    OBVIOUS
  <2>1. q.call = <<>> /\ q.path = path
    BY <1>4
  <2>2. page = path
    BY <2>1 DEF PagesAfter
  <2> QED BY <1>6, <2>2
<1>10. ASSUME Forms(r) = {r}, path \in DEFAULT_HTML_TAG
       PROVE  answer'.path \in {"/welcome.html", "/error.html"} /\ Last(verified') = [r |-> r, all |-> TRUE]
  <2>1. requests[r].method = "POST" /\ Len(readBuff_) = 0
    BY <1>3, <1>7, <1>10
  <2>2. q.call = <<[r |-> r, all |-> TRUE]>>
    BY <1>4, <1>10, <2>1
  <2>3. page \in {"/welcome.html", "/error.html"}
    BY <2>2 DEF PagesAfter
  <2>4. answer'.path = page
    BY <1>6, <2>3, Responses, ZenonT(40)
  <2>5. Last(verified') = [r |-> r, all |-> TRUE]
    <3> DEFINE c == [r |-> r, all |-> TRUE]
    <3>1. verified \in Seq(Calls) /\ verified' = verified \o <<c>>
      BY <1>5, <2>2 DEF VerifiedInv
    <3>2. c \in Calls
      BY <1>7 DEF Calls
    <3> HIDE DEF c
    <3>3. /\ Len(verified \o <<c>>) = Len(verified) + 1
          /\ (verified \o <<c>>)[Len(verified) + 1] = c
      BY <3>1, <3>2
    <3>4. Last(verified') = c
      BY <3>1, <3>3 DEF Last
    <3> QED BY <3>4 DEF c
  <2> QED BY <2>3, <2>4, <2>5
<1>11. Kinds(readBuff_') \in {<<>>, <<"b1", "b2">>}
  <2>1. CASE requests[r].method = "POST"
    BY <1>4, <1>5, <2>1, KindsLeft
  <2>2. CASE requests[r].method # "POST"
    BY <1>4, <1>5, <2>2, KindsLeft
  <2> QED BY <2>1, <2>2
<1>12. (Forms(LastRead))' = Forms(r) /\ (LastRead)' = r
  BY <1>2, <1>5 DEF Forms
<1>13. WholeRequestsAnswered'
  <2>1. requests'[LastRead'].path = requests[r].path /\ requests'[LastRead'].method = requests[r].method
    BY <1>2, <1>5
  <2>2. ParsePath_(requests'[LastRead'].path) = path
    BY <2>1 DEF path
  <2> QED BY <1>9, <1>10, <1>11, <1>12, <2>1, <2>2 DEF WholeRequestsAnswered
<1> QED BY <1>8, <1>13

-------------------------------------------------------------------------------
(* The next request keeps everything. *)
LEMMA SendKeeps ==
  ASSUME HttpInv, NEW req \in Requests, Send(req)
  PROVE  HttpInv'
<1> DEFINE P == Pieces(req, Len(requests) + 1)
           U == Unread
           V == Unread'
<1>1. /\ requests \in Seq(Requests) /\ readBuff_ \in Seq(AllPieces) /\ wire \in Seq(AllPieces)
      /\ Stream(requests, U) /\ U \in Seq(AllPieces) /\ Len(requests) \in Nat
  BY DEF HttpInv, BytesInv, Stream
<1>2. /\ requests' = Append(requests, req) /\ readBuff_' = readBuff_ /\ answer' = answer
      /\ verified' = verified /\ whole' = whole /\ Len(requests) < MaxRequests
  BY DEF Send
<1>3. /\ requests' \in Seq(Requests) /\ Len(requests') = Len(requests) + 1
      /\ \A i \in 1..Len(requests) : requests'[i] = requests[i]
  BY <1>1, <1>2
<1>4. wire' = wire \o P
  BY <1>3 DEF Send
<1>5. P \in Seq(AllPieces) /\ Len(P) \in {10, 12} /\ P[1].r = Len(requests) + 1 /\ P[1].n = 1
  <2> DEFINE r == Len(requests) + 1
  <2>1. r \in Nat /\ P = Pieces(req, r)
    BY <1>1
  <2> HIDE DEF P, r
  <2>2. P \in Seq(AllPieces) /\ Numbered(P, r) /\ Len(P) = IF req.method = "POST" THEN 12 ELSE 10
    BY <2>1, PiecesFields
  <2>3. Len(P) \in {10, 12} /\ 1 \in 1..Len(P)
    BY <2>2
  <2> QED BY <2>2, <2>3 DEF Numbered, r
<1>6. Stream(requests', U \o P)
  BY <1>1, <1>2, StreamSend
<1> HIDE DEF P
<1>7. V = U \o P
  <2>1. V = readBuff_ \o (wire \o P)
    BY <1>2, <1>4 DEF Unread
  <2> QED BY <1>1, <1>5, <2>1, ConcatAssociative, SMTT(30) DEF Unread
<1>8. wire' \in Seq(AllPieces)
  BY <1>1, <1>4, <1>5
<1>9. BytesInv'
  <2>1. MaxRequests \in Nat
    BY HttpAssumption
  <2>2. Len(requests') <= MaxRequests
    BY <1>1, <1>2, <1>3, <2>1
  <2> QED BY <1>1, <1>2, <1>3, <1>6, <1>7, <1>8, <2>2 DEF BytesInv
<1>10. Len(V) > 0 => IF Len(U) > 0 THEN V[1] = U[1] ELSE V[1].r = Len(requests) + 1
  <2>1. CASE Len(U) > 0
    <3>1. 1 \in 1..Len(U)
      BY <1>1, <2>1
    <3> QED BY <1>1, <1>5, <1>7, <2>1, <3>1, Joined
  <2>2. CASE ~(Len(U) > 0)
    <3>1. U = <<>>
      BY <1>1, <2>2
    <3>2. U \o P = P
      BY <1>5, <3>1
    <3> QED BY <1>5, <1>7, <2>2, <3>2
  <2> QED BY <2>1, <2>2
<1>11. VerifiedInv'
  <2>1. VerifiedInv
    BY DEF HttpInv
  <2>2. ASSUME NEW i \in 1..Len(verified)
        PROVE  /\ verified[i].r \in i..Len(requests')
               /\ requests'[verified[i].r].method = "POST"
               /\ Len(V) > 0 => \/ verified[i].r < V[1].r
                                \/ verified[i].r = V[1].r /\ V[1].n > 1
    <3>1. /\ verified[i].r \in i..Len(requests) /\ requests[verified[i].r].method = "POST"
          /\ Len(U) > 0 => \/ verified[i].r < U[1].r
                           \/ verified[i].r = U[1].r /\ U[1].n > 1
      BY <2>1 DEF VerifiedInv
    <3>2. verified[i].r \in 1..Len(requests) /\ verified[i].r < Len(requests) + 1
          /\ verified[i].r \in i..(Len(requests) + 1)
      BY <1>1, <3>1
    <3> QED BY <1>3, <1>10, <3>1, <3>2
  <2> QED BY <1>2, <2>1, <2>2 DEF VerifiedInv
<1>12. ASSUME whole
       PROVE  /\ LastRead' = LastRead /\ LastRead \in 0..Len(requests)
              /\ Len(wire') > 0 => wire'[1].n = 1
  <2>1. WholeInv /\ Stream(requests, wire)
    BY WireStream DEF HttpInv
  <2>2. CASE wire = <<>>
    <3>1. wire' = P
      BY <1>4, <1>5, <2>2
    <3>2. wire' # <<>>
      BY <1>5, <3>1
    <3>3. LastRead = Len(requests) /\ LastRead' = (Len(requests) + 1) - 1
      BY <1>5, <2>2, <3>1, <3>2 DEF LastRead
    <3> QED BY <1>1, <1>5, <3>1, <3>3
  <2>3. CASE wire # <<>>
    <3>1. 1 \in 1..Len(wire) /\ Len(wire) > 0
      BY <1>1, <2>3
    <3>2. wire'[1] = wire[1] /\ wire' # <<>>
      <4>1. Len(wire') = Len(wire) + Len(P) /\ \A i \in 1..Len(wire) : wire'[i] = wire[i]
        BY <1>1, <1>4, <1>5, Joined
      <4>2. Len(wire') > 0
        BY <1>1, <1>5, <3>1, <4>1
      <4> QED BY <3>1, <4>1, <4>2
    <3>3. LastRead' = LastRead /\ LastRead = wire[1].r - 1
      BY <2>3, <3>2 DEF LastRead
    <3>4. wire[1].r \in 1..Len(requests)
      BY <2>1, <3>1 DEF Stream, PieceOf
    <3>5. wire[1].n = 1
      BY <1>12, <2>1, <3>1 DEF WholeInv
    <3> QED BY <1>1, <3>2, <3>3, <3>4, <3>5
  <2> QED BY <2>2, <2>3
<1>13. ASSUME whole
       PROVE  (Forms(LastRead))' = Forms(LastRead)
  <2>1. \A i \in 1..LastRead : requests'[i] = requests[i]
    BY <1>1, <1>3, <1>12, <1>13
  <2>2. LastRead' = LastRead
    BY <1>12, <1>13
  <2> QED BY <2>1, <2>2 DEF Forms
<1>14. WholeInv'
  <2>1. WholeInv
    BY DEF HttpInv
  <2> QED BY <1>2, <1>12, <1>13, <2>1 DEF WholeInv
<1>15. WholeRequestsAnswered'
  <2> SUFFICES ASSUME whole, answer # NoAnswer
               PROVE  WholeRequestsAnswered'
    BY <1>2 DEF WholeRequestsAnswered, NoAnswer
  <2>1. WholeInv /\ WholeRequestsAnswered
    BY DEF HttpInv
  <2>2. LastRead > 0
    BY <2>1 DEF WholeInv
  <2>3. LastRead \in 1..Len(requests) /\ LastRead' = LastRead
    BY <1>1, <1>12, <2>2
  <2>4. requests'[LastRead] = requests[LastRead]
    BY <1>3, <2>3
  <2>5. (Forms(LastRead))' = Forms(LastRead)
    BY <1>13
  <2> QED BY <1>2, <2>1, <2>3, <2>4, <2>5 DEF WholeRequestsAnswered
<1>16. AnswerInv'
  BY <1>2 DEF HttpInv, AnswerInv
<1> QED BY <1>9, <1>11, <1>14, <1>15, <1>16 DEF HttpInv

(* HttpContext's inductive invariant: the bytes in the buffer and on the wire are the rest
   of what the client sent; the request line of every form that was verified has been read;
   and while reads bring whole requests, what the parser leaves is nothing or one body. *)
THEOREM HttpInvariant == HttpSpec => []HttpInv
<1>1. HttpInit => HttpInv
  <2> SUFFICES ASSUME HttpInit PROVE HttpInv
    OBVIOUS
  <2>1. /\ readBuff_ = <<>> /\ wire = <<>> /\ requests = <<>>
        /\ answer = NoAnswer /\ verified = <<>> /\ whole = TRUE
    BY DEF HttpInit
  <2>2. Unread = <<>> /\ Len(Unread) = 0
    BY <2>1 DEF Unread
  <2>3. Stream(requests, Unread)
    BY <2>2 DEF Stream
  <2>4. BytesInv
    <3>1. Len(requests) = 0 /\ requests \in Seq(Requests)
      BY <2>1
    <3>2. readBuff_ \in Seq(AllPieces) /\ wire \in Seq(AllPieces)
      BY <2>1
    <3>3. MaxRequests \in Nat
      BY HttpAssumption
    <3> QED BY <2>3, <3>1, <3>2, <3>3 DEF BytesInv
  <2>5. VerifiedInv
    BY <2>1, <2>2 DEF VerifiedInv
  <2>6. WholeInv /\ WholeRequestsAnswered
    BY <2>1 DEF WholeInv, WholeRequestsAnswered, LastRead, Forms
  <2>7. AnswerInv
    BY <2>1 DEF AnswerInv, NoAnswer
  <2> QED BY <2>4, <2>5, <2>6, <2>7 DEF HttpInv
<1>2. HttpInv /\ [HttpNext]_httpVars => HttpInv'
  <2> SUFFICES ASSUME HttpInv, [HttpNext]_httpVars
               PROVE  HttpInv'
    OBVIOUS
  <2>1. ASSUME NEW req \in Requests, Send(req)
        PROVE  HttpInv'
    BY <2>1, SendKeeps
  <2>2. ASSUME NEW n \in 1..Len(wire), Read(n)
        PROVE  HttpInv'
    <3>1. BytesInv /\ VerifiedInv /\ WholeInv
      BY DEF HttpInv
    <3>2. BytesInv'
      BY <2>2, <3>1, ReadBytes
    <3>3. VerifiedInv'
      BY <2>2, <3>1, ReadVerified
    <3>4. WholeInv' /\ WholeRequestsAnswered'
      BY <2>2, <3>1, ReadWhole
    <3>5. AnswerInv'
      BY <2>2, ReadAnswer
    <3> QED BY <3>2, <3>3, <3>4, <3>5 DEF HttpInv
  <2>3. CASE UNCHANGED httpVars
    <3>1. /\ readBuff_' = readBuff_ /\ wire' = wire /\ requests' = requests /\ answer' = answer
          /\ verified' = verified /\ whole' = whole
      BY <2>3 DEF httpVars
    <3>2. Unread' = Unread /\ LastRead' = LastRead
      BY <3>1 DEF Unread, LastRead
    <3>3. (Forms(LastRead))' = Forms(LastRead)
      BY <3>1, <3>2 DEF Forms
    <3>4. BytesInv'
      BY <3>1, <3>2 DEF HttpInv, BytesInv
    <3>5. VerifiedInv'
      BY <3>1, <3>2 DEF HttpInv, VerifiedInv
    <3>6. WholeInv'
      <4>1. WholeInv
        BY DEF HttpInv
      <4> QED BY <3>1, <3>2, <3>3, <4>1 DEF WholeInv, NoAnswer
    <3>8. AnswerInv'
      BY <3>1 DEF HttpInv, AnswerInv
    <3>7. WholeRequestsAnswered'
      BY <3>1, <3>2, <3>3 DEF HttpInv, WholeRequestsAnswered, NoAnswer
    <3> QED BY <3>4, <3>5, <3>6, <3>7, <3>8 DEF HttpInv
  <2> QED BY <2>1, <2>2, <2>3 DEF HttpNext
<1> QED BY <1>1, <1>2, PTL DEF HttpSpec

(* HttpContext's type invariant; there are never more calls of UserVerify than requests. *)
THEOREM HttpTypeCorrect == HttpSpec => []HttpTypeOK
<1>1. HttpInv => HttpTypeOK
  <2> SUFFICES ASSUME HttpInv PROVE HttpTypeOK
    OBVIOUS
  <2>1. BytesInv /\ VerifiedInv /\ AnswerInv
    BY DEF HttpInv
  <2>2. requests \in Seq(Requests) /\ Len(requests) <= MaxRequests /\ Len(requests) \in Nat
    BY <2>1 DEF BytesInv
  <2>3. Len(verified) <= Len(requests)
    <3>1. verified \in Seq(Calls) /\ Len(verified) \in Nat
      BY <2>1 DEF VerifiedInv
    <3>2. CASE Len(verified) = 0
      BY <2>2, <3>2
    <3>3. CASE Len(verified) # 0
      <4>1. Len(verified) \in 1..Len(verified)
        BY <3>1, <3>3
      <4>2. verified[Len(verified)].r \in Len(verified)..Len(requests)
        BY <2>1, <4>1 DEF VerifiedInv
      <4> QED BY <2>2, <3>1, <4>2
    <3> QED BY <3>2, <3>3
  <2> QED BY <2>1, <2>2, <2>3 DEF HttpTypeOK, AnswerInv
<1> QED BY <1>1, HttpInvariant, PTL

(* While every read brings one request, every GET is answered with its own page or the
   right error, also after a form whose body the parser left in the buffer, the first form
   is verified with its whole body, and nothing else stays in the buffer
   (httprequest.cc:36-77). *)
THEOREM WholeAnswered == HttpSpec => []WholeRequestsAnswered
<1>1. HttpInv => WholeRequestsAnswered
  BY DEF HttpInv
<1> QED BY <1>1, HttpInvariant, PTL

(* However the bytes are cut into reads, and with requests in the pipeline, a form is
   verified at most once and nothing but a form is: the request line of a form that was
   verified is never in the buffer again (httprequest.cc:145). *)
THEOREM VerifiedOnce == HttpSpec => []VerifiedAtMostOnce
<1>1. HttpInv => VerifiedAtMostOnce
  <2> SUFFICES ASSUME HttpInv PROVE VerifiedAtMostOnce
    OBVIOUS
  <2>1. VerifiedInv /\ BytesInv
    BY DEF HttpInv
  <2>2. /\ DOMAIN verified = 1..Len(verified) /\ Len(verified) \in Nat /\ Len(requests) \in Nat
    BY <2>1 DEF VerifiedInv, BytesInv
  <2>3. ASSUME NEW i \in 1..Len(verified)
        PROVE  /\ requests[verified[i].r].method = "POST" /\ verified[i].r \in Nat
               /\ \A j \in 1..Len(verified) : i < j => verified[i].r < verified[j].r
    BY <2>1, <2>2 DEF VerifiedInv
  <2>4. ASSUME NEW i \in 1..Len(verified), NEW j \in 1..Len(verified), verified[i].r = verified[j].r
        PROVE  i = j
    <3>1. ~(i < j) /\ ~(j < i)
      BY <2>3, <2>4
    <3> QED BY <2>2, <3>1
  <2> QED BY <2>2, <2>3, <2>4 DEF VerifiedAtMostOnce
<1> QED BY <1>1, HttpInvariant, PTL
===============================================================================

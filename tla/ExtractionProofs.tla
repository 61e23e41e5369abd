------------------------- MODULE ExtractionProofs --------------------------
EXTENDS Extraction, ResourceAdapter, AlgorithmProofs, SequenceTheorems

-----------------------------------------------------------------------------

(***************************************************************************)
(* Sequences of sequences put together                                     *)
(***************************************************************************)

\* One sequence stays what it is.
LEMMA FlattenOne ==
    ASSUME NEW t, Len(t) = 1
    PROVE  FlattenSeq(t) = t[1]
<1>1. Len(t) \in Nat \ {0}
  OBVIOUS
<1>2. PICK f : Flattens(f, t, Len(t)) /\ FlattenSeq(t) = f[Len(t)]
  BY <1>1, FlattenByPrefix
<1> QED BY <1>2 DEF Flattens

\* c is a and b put together.
Joined(c, a, b) == c = a \o b

\* What comes first stays first.
LEMMA Regroup ==
    ASSUME NEW X, NEW x \in Seq(X), NEW a \in Seq(X), NEW b \in Seq(X), NEW c, NEW d, NEW e,
           Joined(c, x, a), Joined(d, c, b), Joined(e, a, b)
    PROVE  Joined(d, x, e)
<1>1. (x \o a) \o b = x \o (a \o b)
  BY ConcatAssociative
<1> QED BY <1>1 DEF Joined

\* A sequence put before others comes first in what they are together.
LEMMA FlattenOneMore ==
    ASSUME NEW X, NEW s \in Seq(Seq(X)), NEW x \in Seq(X), NEW t \in Seq(Seq(X)),
           Len(t) = Len(s) + 1, t[1] = x, \A i \in DOMAIN s : t[i + 1] = s[i]
    PROVE  FlattenSeq(t) = IF s = <<>> THEN x ELSE x \o FlattenSeq(s)
<1>1. Len(s) \in Nat /\ Len(t) \in Nat \ {0} /\ DOMAIN s = 1..Len(s) /\ (s = <<>> <=> Len(s) = 0)
  BY EmptySeq
<1>2. PICK g : Flattens(g, t, Len(t)) /\ FlattenSeq(t) = g[Len(t)]
  BY <1>1, FlattenByPrefix
<1>3. g[1] = x
  BY <1>1, <1>2 DEF Flattens
<1>4. CASE Len(s) = 0
  BY <1>1, <1>2, <1>3, <1>4
<1>5. CASE Len(s) # 0
  <2>1. PICK f : Flattens(f, s, Len(s)) /\ FlattenSeq(s) = f[Len(s)]
    BY <1>1, <1>5, FlattenByPrefix
  <2>2. \A i \in 1..Len(s) : f[i] = IF i = 1 THEN s[i] ELSE f[i - 1] \o s[i]
    BY <2>1 DEF Flattens
  <2> DEFINE h == [i \in 1..Len(s) |-> g[i + 1]]
  <2>3. ASSUME NEW i \in 1..Len(s)
        PROVE  h[i] = IF i = 1 THEN x \o s[i] ELSE h[i - 1] \o s[i]
    <3>1. i + 1 \in 1..Len(t) /\ i + 1 # 1 /\ (i + 1) - 1 = i /\ t[i + 1] = s[i]
      <4>1. i \in DOMAIN s
        BY <1>1
      <4>2. t[i + 1] = s[i]
        BY <4>1, Zenon
      <4>3. i \in Nat /\ 1 <= i /\ i <= Len(s)
        BY <1>1
      <4> QED BY <1>1, <4>2, <4>3
    <3>2. \A k \in 1..Len(t) : g[k] = IF k = 1 THEN t[k] ELSE g[k - 1] \o t[k]
      BY <1>2 DEF Flattens
    <3>3. g[i + 1] = g[i] \o s[i]
      BY <3>1, <3>2
    <3>4. CASE i = 1
      BY <1>3, <3>3, <3>4
    <3>5. CASE i # 1
      <4>1. i - 1 \in 1..Len(s) /\ (i - 1) + 1 = i
        BY <1>1, <3>5
      <4> QED BY <3>3, <3>5, <4>1
    <3> QED BY <3>4, <3>5
  <2> HIDE DEF h
  <2> DEFINE T == {n \in Nat : n \in 1..Len(s) => f[n] \in Seq(X) /\ h[n] = x \o f[n]}
  <2>4. 0 \in T
    BY <1>1
  <2>5. ASSUME NEW n \in T PROVE n + 1 \in T
    <3> DEFINE m == n + 1
    <3>1. n \in Nat /\ m \in Nat /\ m - 1 = n
      OBVIOUS
    <3>2. n \in 1..Len(s) => f[n] \in Seq(X) /\ h[n] = x \o f[n]
      OBVIOUS
    <3>3. m # 1 /\ m \in 1..Len(s) => n \in 1..Len(s)
      BY <1>1
    <3> HIDE DEF m
    <3> SUFFICES ASSUME m \in 1..Len(s) PROVE f[m] \in Seq(X) /\ h[m] = x \o f[m]
      BY <3>1 DEF m
    <3>4. s[m] \in Seq(X)
      BY <1>1
    <3>5. CASE m = 1
      BY <2>2, <2>3, <3>4, <3>5
    <3>6. CASE m # 1
      <4>1. f[n] \in Seq(X) /\ h[n] = x \o f[n]
        BY <3>2, <3>3, <3>6
      <4>2. f[m] = f[n] \o s[m] /\ h[m] = h[n] \o s[m]
        BY <2>2, <2>3, <3>1, <3>6
      <4>3. f[m] \in Seq(X)
        <5>1. f[n] \o s[m] \in Seq(X)
          BY <3>4, <4>1, ConcatProperties, Zenon
        <5> QED BY <4>2, <5>1
      <4>4. Joined(h[m], h[n], s[m]) /\ Joined(f[m], f[n], s[m]) /\ Joined(h[n], x, f[n])
        BY <4>1, <4>2 DEF Joined
      <4>5. Joined(h[m], x, f[m])
        <5>1. x \in Seq(X) /\ f[n] \in Seq(X) /\ s[m] \in Seq(X)
          BY <3>4, <4>1
        <5>2. \A a, b \in Seq(X) : \A c, d, e :
                Joined(c, x, a) /\ Joined(d, c, b) /\ Joined(e, a, b) => Joined(d, x, e)
          BY Regroup
        <5> QED BY <4>4, <5>1, <5>2
      <4> QED BY <4>3, <4>5 DEF Joined
    <3> QED BY <3>5, <3>6
  <2>6. T = Nat
    <3>1. T \in SUBSET Nat
      OBVIOUS
    <3> HIDE DEF T
    <3> QED BY <2>4, <2>5, <3>1, SetInduction
  <2>7. Len(s) \in T /\ Len(s) \in 1..Len(s)
    BY <1>1, <1>5, <2>6
  <2>8. h[Len(s)] = x \o f[Len(s)]
    BY <2>7
  <2>9. h[Len(s)] = g[Len(t)]
    BY <1>1, <1>5 DEF h
  <2> HIDE DEF T
  <2> QED BY <1>1, <1>2, <1>5, <2>1, <2>8, <2>9
<1> QED BY <1>4, <1>5

(***************************************************************************)
(* The inductive invariant of an extraction                                *)
(***************************************************************************)

\* Only calls that were given links wait for another, and the depth is limited.
Delegation ==
    /\ at \in {"start", "done"} <=> frames = <<>>
    /\ at = "following" => depth <= MaxDepth
    /\ \A i \in 1..depth :
        /\ i < depth \/ at = "following" => frames[i].own.kind = "links"
        /\ \A n \in Names : frames[i].own.headers[n] \in {0, i}

\* Nobody has answered anything but an error when the first one fails.
Failures ==
    /\ at = "start" \/ (at = "asking" /\ depth = 1) => deepest = 0
    /\ at = "done" \/ (at = "returning" /\ depth = 1) => (result.kind = "error" => deepest = 0)

\* The adapters of the calls from this depth on.
AdaptersFrom(calls, d) == [i \in 1..Len(calls) + 1 - d |-> calls[d + i - 1].adapter]

\* The calls from this depth on that set the header.
SettersFrom(calls, d, name) == {i \in d..Len(calls) : calls[i].headers[name] # 0}

\* The answer is wrapped by the calls from this depth on.
WrappedFrom(answer, calls, d) ==
    /\ answer.adapter = FlattenSeq(AdaptersFrom(calls, d))
    /\ \A n \in Names :
        /\ SettersFrom(calls, d, n) = {} => answer.headers[n] = 0
        /\ SettersFrom(calls, d, n) # {} =>
             /\ answer.headers[n] \in SettersFrom(calls, d, n)
             /\ \A j \in SettersFrom(calls, d, n) : j <= answer.headers[n]

\* Streams go outwards through the calls that led to them; before that there are none.
Streams ==
    /\ at \notin {"returning", "done"} => nest = <<>>
    /\ at \in {"returning", "done"} /\ result.kind # "streams" => nest = <<>>
    /\ at \in {"returning", "done"} /\ result.kind = "streams" =>
        /\ nest # <<>> /\ depth <= Len(nest)
        /\ \A i \in 1..depth : nest[i] = frames[i].own
        /\ \A i \in DOMAIN nest : \A n \in Names : nest[i].headers[n] \in {0, i}
        /\ WrappedFrom(result, nest, IF at = "done" THEN 1 ELSE depth)

ExtractionInv == ExtractionTypeOK /\ Delegation /\ Failures /\ Streams

-----------------------------------------------------------------------------
(* What the steps do to the calls *)

\* The calls of extract_routed() there can be.
Calls == [route : Extractors \X Urls, own : Answers, links : Seq(Offered)]

\* The calls, and the innermost one, are what they should be.
LEMMA CallsAre ==
    ASSUME ExtractionInv
    PROVE  /\ frames \in Seq(Calls) /\ depth \in 0..MaxDepth + 1 /\ DOMAIN frames = 1..depth
           /\ \A i \in 1..depth : frames[i] \in Calls
           /\ at \notin {"start", "done"} => depth \in 1..depth
<1>1. frames \in Seq(Calls) /\ Len(frames) <= MaxDepth + 1
  BY DEF ExtractionInv, ExtractionTypeOK, depth, Calls
<1>2. at \notin {"start", "done"} => frames # <<>>
  BY DEF ExtractionInv, Delegation
<1> HIDE DEF Calls
<1> QED BY <1>1, <1>2, EmptySeq, LenProperties, ExtractionAssumption DEF depth

\* Nothing is a possible answer, and no call sets headers in it.
LEMMA NothingIs == Nothing \in Answers /\ \A n \in Names : Nothing.headers[n] = 0
<1>1. 1 \in Depths /\ <<>> \in Seq(Depths)
  BY ExtractionAssumption DEF Depths
<1> QED BY <1>1 DEF Nothing, Answers, Kinds

\* Where a URL or a link is routed to.
LEMMA RoutesAre ==
    ASSUME ExtractionInv
    PROVE  /\ \A url \in Urls : RouteUrl(url) \subseteq Extractors \X Urls
           /\ \A link \in Offered : RouteLink(link) \subseteq Extractors \X Urls
<1>1. registered \subseteq Extractors
  BY DEF ExtractionInv, ExtractionTypeOK
<1> QED BY <1>1, ExtractionAssumption DEF RouteUrl, RouteLink

\* The call that found the streams.
LEMMA InnermostWraps ==
    ASSUME NEW calls \in Seq(Answers), NEW d \in Nat \ {0}, d = Len(calls),
           \A n \in Names : calls[d].headers[n] \in {0, d}
    PROVE  WrappedFrom(calls[d], calls, d)
<1> DEFINE t == AdaptersFrom(calls, d)
           x == calls[d].adapter
<1>1. calls[d] \in Answers
  OBVIOUS
<1>2. x \in Seq(Depths)
  BY <1>1 DEF Answers
<1>3. t \in Seq(Seq(Depths)) /\ Len(t) = 1 /\ t[1] = x
  <2>1. Len(calls) + 1 - d = 1 /\ d + 1 - 1 = d
    OBVIOUS
  <2>2. t = [i \in 1..1 |-> calls[d + i - 1].adapter]
    BY <2>1 DEF AdaptersFrom
  <2>3. \A i \in 1..1 : calls[d + i - 1].adapter = x
    BY <2>1
  <2> HIDE DEF t, x
  <2>4. t = [i \in 1..1 |-> x]
    BY <2>2, <2>3
  <2> DEFINE X == Seq(Depths)
  <2>5. x \in X
    BY <1>2
  <2> HIDE DEF X
  <2>6. t \in Seq(X) /\ Len(t) = 1 /\ t[1] = x
    <3>1. t \in [1..1 -> X] /\ t[1] = x
      BY <2>4, <2>5
    <3> DEFINE k == 1
    <3>2. k \in Nat /\ t \in [1..k -> X]
      BY <3>1
    <3> HIDE DEF k
    <3>3. t \in Seq(X) /\ Len(t) = k
      BY <3>2
    <3> QED BY <3>1, <3>3 DEF k
  <2> QED BY <2>6 DEF X
<1> HIDE DEF t, x
<1>4. FlattenSeq(t) = x
  BY <1>3, FlattenOne
<1>5. \A n \in Names : SettersFrom(calls, d, n) = IF calls[d].headers[n] = 0 THEN {} ELSE {d}
  BY DEF SettersFrom
<1> QED BY <1>4, <1>5 DEF WrappedFrom, t, x

\* The call around it.
LEMMA OuterWraps ==
    ASSUME NEW calls \in Seq(Answers), NEW c \in Nat \ {0}, NEW d, d = c + 1, d <= Len(calls),
           NEW answer \in Answers, WrappedFrom(answer, calls, d),
           \A n \in Names : calls[c].headers[n] \in {0, c}
    PROVE  /\ Wrapped(calls[c], answer) \in Answers
           /\ Wrapped(calls[c], answer).kind = answer.kind
           /\ WrappedFrom(Wrapped(calls[c], answer), calls, c)
<1> DEFINE outer == calls[c]
           all == Wrapped(outer, answer)
           s == AdaptersFrom(calls, d)
           t == AdaptersFrom(calls, c)
           x == outer.adapter
<1>1. outer \in Answers /\ Len(calls) \in Nat
  OBVIOUS
<1>2. /\ x \in Seq(Depths) /\ answer.adapter \in Seq(Depths)
      /\ answer.headers \in [Names -> {0} \cup Depths] /\ outer.headers \in [Names -> {0} \cup Depths]
  BY <1>1 DEF Answers
<1>3. /\ all.kind = answer.kind /\ all.depth = answer.depth /\ all.adapter = x \o answer.adapter
      /\ all.headers = [n \in Names |-> IF answer.headers[n] # 0 THEN answer.headers[n] ELSE outer.headers[n]]
      /\ all = [kind |-> all.kind, depth |-> all.depth, headers |-> all.headers, adapter |-> all.adapter]
  <2> DEFINE hs == [n \in Names |-> IF answer.headers[n] # 0 THEN answer.headers[n] ELSE outer.headers[n]]
             as == x \o answer.adapter
  <2>1. all = [answer EXCEPT !.headers = hs, !.adapter = as]
    BY DEF Wrapped
  <2>2. answer \in [kind : Kinds, depth : Depths, headers : [Names -> {0} \cup Depths], adapter : Seq(Depths)]
    BY DEF Answers
  <2> HIDE DEF all, hs, as
  <2>3. /\ all = [kind |-> answer.kind, depth |-> answer.depth, headers |-> hs, adapter |-> as]
        /\ all.kind = answer.kind /\ all.depth = answer.depth /\ all.headers = hs /\ all.adapter = as
    BY <2>1, <2>2
  <2> QED BY <2>3 DEF hs, as
<1>4. x \o answer.adapter \in Seq(Depths)
  BY <1>2, ConcatProperties
<1> HIDE DEF all, outer, x
<1>5. all \in Answers
  <2>1. all.headers \in [Names -> {0} \cup Depths]
    BY <1>2, <1>3
  <2>2. all.kind \in Kinds /\ all.depth \in Depths
    BY <1>3 DEF Answers
  <2> QED BY <1>3, <1>4, <2>1, <2>2 DEF Answers
<1>6. /\ s \in Seq(Seq(Depths)) /\ t \in Seq(Seq(Depths)) /\ Len(t) = Len(s) + 1 /\ s # <<>>
      /\ t[1] = x /\ \A i \in DOMAIN s : t[i + 1] = s[i]
  <2> DEFINE m == Len(calls) + 1 - d
  <2>1. m \in Nat \ {0} /\ Len(calls) + 1 - c = m + 1
    BY <1>1
  <2>2. \A i \in 1..m : calls[d + i - 1] \in Answers
    BY <1>1
  <2>3. \A i \in 1..(m + 1) : calls[c + i - 1] \in Answers
    BY <1>1
  <2>4. s = [i \in 1..m |-> calls[d + i - 1].adapter] /\ t = [i \in 1..(m + 1) |-> calls[c + i - 1].adapter]
    BY <2>1 DEF AdaptersFrom
  <2> HIDE DEF m, s, t
  <2> DEFINE X == Seq(Depths)
  <2>5. \A a \in Answers : a.adapter \in X
    BY DEF Answers
  <2> HIDE DEF X
  <2>6. s \in Seq(X) /\ Len(s) = m /\ t \in Seq(X) /\ Len(t) = m + 1
    <3>1. \A i \in 1..m : calls[d + i - 1].adapter \in X
      BY <2>2, <2>5
    <3>2. \A i \in 1..(m + 1) : calls[c + i - 1].adapter \in X
      BY <2>3, <2>5
    <3>3. s \in [1..m -> X] /\ t \in [1..(m + 1) -> X] /\ m \in Nat /\ m + 1 \in Nat
      BY <2>1, <2>4, <3>1, <3>2
    <3> QED BY <3>3
  <2>7. t[1] = x
    <3>1. c + 1 - 1 = c /\ 1 \in 1..(m + 1)
      BY <2>1
    <3> QED BY <2>4, <3>1 DEF x, outer
  <2>8. ASSUME NEW i \in DOMAIN s PROVE t[i + 1] = s[i]
    <3>1. i \in 1..m /\ i + 1 \in 1..(m + 1) /\ c + (i + 1) - 1 = d + i - 1
      BY <2>1, <2>4
    <3> QED BY <2>4, <3>1
  <2>9. s # <<>>
    BY <2>1, <2>6, EmptySeq
  <2> QED BY <2>6, <2>7, <2>8, <2>9 DEF X
<1> HIDE DEF s, t
<1>7. FlattenSeq(t) = x \o FlattenSeq(s)
  BY <1>2, <1>6, FlattenOneMore
<1>8. all.adapter = FlattenSeq(t)
  BY <1>3, <1>7 DEF WrappedFrom, s
<1>9. ASSUME NEW n \in Names
      PROVE  /\ SettersFrom(calls, c, n) = {} => all.headers[n] = 0
             /\ SettersFrom(calls, c, n) # {} =>
                  /\ all.headers[n] \in SettersFrom(calls, c, n)
                  /\ \A j \in SettersFrom(calls, c, n) : j <= all.headers[n]
  <2>1. SettersFrom(calls, c, n) = SettersFrom(calls, d, n) \cup (IF outer.headers[n] = 0 THEN {} ELSE {c})
    BY <1>1 DEF SettersFrom, outer
  <2>2. all.headers[n] = IF answer.headers[n] # 0 THEN answer.headers[n] ELSE outer.headers[n]
    BY <1>3
  <2>3. /\ SettersFrom(calls, d, n) = {} => answer.headers[n] = 0
        /\ SettersFrom(calls, d, n) # {} =>
             /\ answer.headers[n] \in SettersFrom(calls, d, n)
             /\ \A j \in SettersFrom(calls, d, n) : j <= answer.headers[n]
    BY DEF WrappedFrom
  <2>4. \A j \in SettersFrom(calls, d, n) : j \in Nat /\ c <= j /\ j # 0
    BY <1>1 DEF SettersFrom
  <2>5. outer.headers[n] \in {0, c}
    BY DEF outer
  <2> QED BY <2>1, <2>2, <2>3, <2>4, <2>5
<1> QED BY <1>3, <1>5, <1>8, <1>9 DEF WrappedFrom, t, all, outer

-----------------------------------------------------------------------------
(* The steps *)

\* extract() begins.
LEMMA StartStep ==
    ASSUME ExtractionInv, NEW url \in Urls, Start(url)
    PROVE  ExtractionInv'
<1>1. /\ frames = <<>> /\ nest = <<>> /\ deepest = 0 /\ at = "start"
      /\ UNCHANGED <<registered, edits, deepest, nest>> /\ snapshot' = registered
  BY DEF Start, ExtractionInv, Delegation, Failures, Streams
<1>2. CASE \E route \in RouteUrl(url) :
             frames' = <<Frame(route)>> /\ at' = "asking" /\ UNCHANGED result
  <2>1. PICK route \in RouteUrl(url) :
             frames' = <<Frame(route)>> /\ at' = "asking" /\ UNCHANGED result
    BY <1>2
  <2>2. Frame(route) \in Calls /\ \A n \in Names : Frame(route).own.headers[n] = 0
    BY RoutesAre, NothingIs DEF Frame, Calls
  <2>3. frames' \in Seq(Calls) /\ Len(frames') = 1 /\ frames'[1] = Frame(route) /\ frames' # <<>>
    <3> DEFINE call == Frame(route)
    <3>1. <<call>> \in Seq(Calls) /\ Len(<<call>>) = 1 /\ <<call>>[1] = call /\ <<call>> # <<>>
      BY <2>2
    <3> QED BY <2>1, <3>1
  <2>4. ExtractionTypeOK'
    BY <1>1, <2>1, <2>3, ExtractionAssumption DEF ExtractionInv, ExtractionTypeOK, Calls, depth
  <2>5. Delegation'
    BY <2>1, <2>2, <2>3 DEF Delegation, depth
  <2>6. Failures' /\ Streams'
    BY <1>1, <2>1 DEF Failures, Streams
  <2> QED BY <2>4, <2>5, <2>6 DEF ExtractionInv
<1>3. CASE /\ RouteUrl(url) = {} /\ result' = [Nothing EXCEPT !.kind = "error"]
           /\ at' = "done" /\ UNCHANGED frames
  <2>1. result' \in Answers /\ result'.kind = "error"
    BY <1>3, NothingIs DEF Answers, Kinds
  <2>2. ExtractionTypeOK'
    BY <1>1, <1>3, <2>1 DEF ExtractionInv, ExtractionTypeOK, depth
  <2>3. Delegation'
    BY <1>1, <1>3 DEF ExtractionInv, Delegation, depth
  <2>4. Failures' /\ Streams'
    BY <1>1, <1>3, <2>1 DEF Failures, Streams
  <2> QED BY <2>2, <2>3, <2>4 DEF ExtractionInv
<1> QED BY <1>2, <1>3 DEF Start

\* Somebody publishes an edit.
LEMMA PublishStep ==
    ASSUME ExtractionInv, Publish
    PROVE  ExtractionInv'
<1>1. registered' \in SUBSET Extractors /\ edits' \in 0..MaxEdits
      /\ UNCHANGED <<frames, at, result, snapshot, deepest, nest>>
  BY ExtractionAssumption DEF Publish, ExtractionInv, ExtractionTypeOK
<1>2. ExtractionTypeOK'
  BY <1>1 DEF ExtractionInv, ExtractionTypeOK, depth
<1>3. Delegation' /\ Failures'
  BY <1>1 DEF ExtractionInv, Delegation, Failures, depth
<1>4. Streams'
  BY <1>1 DEF ExtractionInv, Streams, depth
<1> QED BY <1>2, <1>3, <1>4 DEF ExtractionInv

\* The next link.
LEMMA FollowLinkStep ==
    ASSUME ExtractionInv, FollowLink
    PROVE  ExtractionInv'
<1> DEFINE rest == [frames EXCEPT ![depth].links = Tail(@)]
           route == RouteLink(Head(top.links))
<1>1. /\ at = "following" /\ top.links # <<>> /\ nest = <<>> /\ depth <= MaxDepth
      /\ UNCHANGED <<registered, edits, result, snapshot, deepest, nest>>
  BY DEF FollowLink, ExtractionInv, Streams, Delegation
<1>2. /\ frames \in Seq(Calls) /\ depth \in 1..depth /\ depth \in Nat /\ depth = Len(frames)
      /\ \A i \in 1..depth : frames[i] \in Calls
  BY <1>1, CallsAre, ExtractionAssumption DEF depth
<1>3. top \in Calls /\ Tail(top.links) \in Seq(Offered) /\ Head(top.links) \in Offered
  <2>1. top \in Calls
    BY <1>2 DEF top
  <2>2. top.links \in Seq(Offered)
    BY <2>1 DEF Calls
  <2> QED BY <1>1, <2>1, <2>2, HeadTailProperties
<1>4. /\ rest \in Seq(Calls) /\ Len(rest) = depth
      /\ \A i \in 1..depth : rest[i] \in Calls /\ rest[i].own = frames[i].own
  <2> DEFINE call == [frames[depth] EXCEPT !.links = Tail(@)]
  <2>1. call \in Calls /\ call.own = frames[depth].own
    BY <1>2, <1>3 DEF Calls, top
  <2>2. rest = [frames EXCEPT ![depth] = call]
    BY <1>2
  <2> HIDE DEF call, rest, Calls
  <2>3. rest \in Seq(Calls) /\ DOMAIN rest = DOMAIN frames /\ Len(rest) = depth
    BY <1>2, <2>1, <2>2, ExceptSeq
  <2>4. \A i \in 1..depth : rest[i] = IF i = depth THEN call ELSE frames[i]
    BY <1>2, <2>2
  <2> QED BY <1>2, <2>1, <2>3, <2>4
<1>5. \/ \E r \in route : frames' = Append(rest, Frame(r)) /\ at' = "asking"
      \/ frames' = rest /\ UNCHANGED at
  <2>1. \/ \E r \in RouteLink(Head(top.links)) :
             /\ frames' = Append([frames EXCEPT ![depth].links = Tail(@)], Frame(r))
             /\ at' = "asking"
        \/ frames' = [frames EXCEPT ![depth].links = Tail(@)] /\ UNCHANGED at
    BY Zenon DEF FollowLink
  <2> QED BY <2>1, Zenon
<1>6. route \subseteq Extractors \X Urls
  BY <1>3, RoutesAre
<1>7. \A i \in 1..depth : frames[i].own.kind = "links" /\ \A n \in Names : frames[i].own.headers[n] \in {0, i}
  BY <1>1 DEF ExtractionInv, Delegation
<1> HIDE DEF rest, route
<1>8. CASE frames' = rest /\ UNCHANGED at
  <2>1. depth' = depth /\ frames' \in Seq(Calls) /\ frames' # <<>>
    BY <1>2, <1>4, <1>8 DEF depth
  <2>2. ExtractionTypeOK'
    BY <1>1, <1>8, <2>1 DEF ExtractionInv, ExtractionTypeOK, Calls
  <2>3. Delegation'
    BY <1>1, <1>4, <1>7, <1>8, <2>1 DEF Delegation
  <2>4. Failures' /\ Streams'
    BY <1>1, <1>8 DEF Failures, Streams
  <2> QED BY <2>2, <2>3, <2>4 DEF ExtractionInv
<1>9. CASE \E r \in route : frames' = Append(rest, Frame(r)) /\ at' = "asking"
  <2>1. PICK r \in route : frames' = Append(rest, Frame(r)) /\ at' = "asking"
    BY <1>9
  <2>2. Frame(r) \in Calls /\ \A n \in Names : Frame(r).own.headers[n] = 0
    BY <1>6, NothingIs DEF Frame, Calls
  <2>3. /\ frames' \in Seq(Calls) /\ Len(frames') = depth + 1 /\ frames' # <<>>
        /\ \A i \in 1..depth : frames'[i] = rest[i]
        /\ frames'[depth + 1] = Frame(r)
    <3> DEFINE call == Frame(r)
    <3>1. call \in Calls /\ frames' = Append(rest, call)
      BY <2>1, <2>2
    <3> HIDE DEF call, Calls
    <3>2. /\ frames' \in Seq(Calls) /\ Len(frames') = depth + 1 /\ frames' # <<>>
          /\ \A i \in 1..depth : frames'[i] = rest[i]
          /\ frames'[depth + 1] = call
      BY <1>2, <1>4, <3>1, AppendProperties
    <3> QED BY <3>2 DEF call
  <2>4. depth' = depth + 1 /\ depth' \in 0..MaxDepth + 1
    BY <1>1, <1>2, <2>3, ExtractionAssumption DEF depth
  <2>5. ExtractionTypeOK'
    BY <1>1, <2>1, <2>3, <2>4 DEF ExtractionInv, ExtractionTypeOK, Calls
  <2>6. Delegation'
    <3>1. \A i \in 1..depth' : i \in 1..depth \/ i = depth'
      BY <1>2, <2>4
    <3>2. \A i \in 1..depth : frames'[i].own = frames[i].own
      BY <1>4, <2>3
    <3>3. \A n \in Names : frames'[depth'].own.headers[n] = 0
      BY <2>2, <2>3, <2>4
    <3>4. \A i \in 1..depth' : i < depth' => i \in 1..depth
      BY <1>2, <2>4
    <3> QED BY <1>7, <2>1, <2>3, <3>1, <3>2, <3>3, <3>4 DEF Delegation
  <2>7. Failures' /\ Streams'
    BY <1>1, <1>2, <2>1, <2>4 DEF Failures, Streams
  <2> QED BY <2>5, <2>6, <2>7 DEF ExtractionInv
<1> QED BY <1>5, <1>8, <1>9

\* The innermost call's own answer arrives.
LEMMA ResolvedStep ==
    ASSUME ExtractionInv, NEW answer \in Answers, NEW links \in Seq(Offered),
           Resolved(answer, links), \A n \in Names : answer.headers[n] \in {0, depth}
    PROVE  ExtractionInv'
<1>1. /\ at = "asking" /\ nest = <<>> /\ result' = answer
      /\ frames' = [frames EXCEPT ![depth].own = answer, ![depth].links = links]
      /\ at' = IF answer.kind # "links" \/ depth > MaxDepth THEN "returning" ELSE "following"
      /\ deepest' = IF answer.kind # "error" /\ depth > deepest THEN depth ELSE deepest
      /\ nest' = IF answer.kind = "streams" THEN [i \in 1..depth |-> frames'[i].own] ELSE nest
      /\ UNCHANGED <<registered, edits, snapshot>>
  BY DEF Resolved, ExtractionInv, Streams
<1>2. /\ frames \in Seq(Calls) /\ depth \in 1..depth /\ depth \in Nat /\ depth = Len(frames)
      /\ \A i \in 1..depth : frames[i] \in Calls
      /\ depth <= MaxDepth + 1 /\ depth # 0 /\ depth \in Nat \ {0}
  BY <1>1, CallsAre, ExtractionAssumption DEF depth
<1> DEFINE call == [route |-> frames[depth].route, own |-> answer, links |-> links]
<1>3. /\ frames' \in Seq(Calls) /\ Len(frames') = depth /\ frames' # <<>>
      /\ \A i \in 1..depth : frames'[i] = IF i = depth THEN call ELSE frames[i]
  <2>1. call \in Calls
    BY <1>2 DEF Calls
  <2>2. frames' = [frames EXCEPT ![depth] = call]
    <3> DEFINE f == frames[depth]
    <3>1. f \in Calls /\ f.route = frames[depth].route
      BY <1>2
    <3>2. frames' = [frames EXCEPT ![depth] = [[f EXCEPT !.own = answer] EXCEPT !.links = links]]
      BY <1>1, <1>2
    <3> HIDE DEF f
    <3>3. [[f EXCEPT !.own = answer] EXCEPT !.links = links] = call
      <4>1. [f EXCEPT !.own = answer] = [route |-> f.route, own |-> answer, links |-> f.links]
        BY <3>1 DEF Calls
      <4>2. [[route |-> f.route, own |-> answer, links |-> f.links] EXCEPT !.links = links] = call
        BY <3>1
      <4> QED BY <4>1, <4>2
    <3> QED BY <3>2, <3>3
  <2> HIDE DEF call, Calls
  <2>3. frames' \in Seq(Calls) /\ Len(frames') = Len(frames) /\ DOMAIN frames' = DOMAIN frames
    BY <1>2, <2>1, <2>2, ExceptSeq
  <2>4. \A i \in 1..depth : frames'[i] = IF i = depth THEN call ELSE frames[i]
    BY <1>2, <2>2
  <2>5. frames' # <<>>
    BY <1>2, <2>3, EmptySeq
  <2> QED BY <1>2, <2>3, <2>4, <2>5
<1>4. depth' = depth
  BY <1>3 DEF depth
<1>5. /\ \A i \in 1..depth : i < depth => frames'[i].own = frames[i].own /\ frames[i].own.kind = "links"
      /\ \A i \in 1..depth : frames'[i].own \in Answers /\ \A n \in Names : frames'[i].own.headers[n] \in {0, i}
      /\ frames'[depth].own = answer
  <2>1. frames'[depth].own = answer
    BY <1>2, <1>3
  <2>2. ASSUME NEW i \in 1..depth, i < depth
        PROVE  frames'[i].own = frames[i].own /\ frames[i].own.kind = "links"
    BY <1>2, <1>3, <2>2 DEF ExtractionInv, Delegation
  <2>3. ASSUME NEW i \in 1..depth
        PROVE  frames'[i].own \in Answers /\ \A n \in Names : frames'[i].own.headers[n] \in {0, i}
    <3>1. CASE i = depth
      BY <2>1, <3>1
    <3>2. CASE i # depth
      <4>1. frames'[i] = frames[i]
        BY <1>3, <3>2
      <4>2. frames[i] \in Calls /\ \A n \in Names : frames[i].own.headers[n] \in {0, i}
        BY <1>2 DEF ExtractionInv, Delegation
      <4> QED BY <4>1, <4>2 DEF Calls
    <3> QED BY <3>1, <3>2
  <2> QED BY <2>1, <2>2, <2>3
<1> HIDE DEF call
<1>6. /\ nest' \in Seq(Answers)
      /\ answer.kind = "streams" => /\ nest' # <<>> /\ Len(nest') = depth /\ DOMAIN nest' = 1..depth
                                    /\ \A i \in 1..depth : nest'[i] = frames'[i].own
  <2>1. CASE answer.kind = "streams"
    <3>1. nest' = [i \in 1..depth |-> frames'[i].own]
      BY <1>1, <2>1
    <3>2. nest' \in Seq(Answers) /\ Len(nest') = depth
      BY <1>2, <1>5, <3>1
    <3> QED BY <1>2, <3>1, <3>2, EmptySeq
  <2>2. CASE answer.kind # "streams"
    BY <1>1, <2>2
  <2> QED BY <2>1, <2>2
<1>7. deepest' \in {0} \cup Depths
  BY <1>1, <1>2, ExtractionAssumption DEF ExtractionInv, ExtractionTypeOK, Depths
<1>8. ExtractionTypeOK'
  BY <1>1, <1>2, <1>3, <1>4, <1>6, <1>7 DEF ExtractionInv, ExtractionTypeOK, Calls
<1>9. Delegation'
  <2>1. at' = "following" => answer.kind = "links" /\ depth <= MaxDepth
    BY <1>1, <1>2, ExtractionAssumption
  <2>2. at' \notin {"start", "done"}
    BY <1>1
  <2>3. \A i \in 1..depth : i < depth \/ i = depth
    BY <1>2
  <2> QED BY <1>3, <1>4, <1>5, <2>1, <2>2, <2>3 DEF Delegation
<1>10. Failures'
  <2>1. deepest' = IF answer.kind # "error" /\ depth > deepest THEN depth ELSE deepest
    BY <1>1
  <2>2. depth = 1 => deepest = 0
    BY <1>1 DEF ExtractionInv, Failures
  <2>3. at' # "start" /\ at' # "asking" /\ at' # "done"
    BY <1>1
  <2> QED BY <1>1, <1>4, <2>1, <2>2, <2>3 DEF Failures
<1>11. Streams'
  <2>1. CASE answer.kind = "streams"
    <3>1. at' = "returning"
      BY <1>1, <2>1
    <3>2. WrappedFrom(nest'[depth], nest', depth)
      BY <1>2, <1>5, <1>6, <2>1, InnermostWraps
    <3>3. nest'[depth] = result'
      BY <1>1, <1>2, <1>5, <1>6, <2>1
    <3>4. /\ nest' # <<>> /\ Len(nest') = depth /\ DOMAIN nest' = 1..depth /\ depth \in Nat
          /\ \A i \in 1..depth : nest'[i] = frames'[i].own
      BY <1>2, <1>6, <2>1
    <3>5. /\ \A i \in 1..depth' : nest'[i] = frames'[i].own
          /\ depth' <= Len(nest')
      BY <1>4, <3>4
    <3>6. \A i \in DOMAIN nest' : \A n \in Names : nest'[i].headers[n] \in {0, i}
      <4> SUFFICES ASSUME NEW i \in DOMAIN nest', NEW n \in Names PROVE nest'[i].headers[n] \in {0, i}
        OBVIOUS
      <4>1. i \in 1..depth /\ nest'[i] = frames'[i].own
        BY <3>4
      <4>2. frames'[i].own.headers[n] \in {0, i}
        BY <1>5, <4>1, Zenon
      <4> QED BY <4>1, <4>2
    <3>7. WrappedFrom(result', nest', depth')
      BY <1>4, <3>2, <3>3, Zenon
    <3>8. result'.kind = "streams" /\ nest' # <<>>
      BY <1>1, <2>1, <3>4
    <3>9. (IF at' = "done" THEN 1 ELSE depth') = depth'
      BY <3>1
    <3> QED BY <3>1, <3>5, <3>6, <3>7, <3>8, <3>9, Zenon DEF Streams
  <2>2. CASE answer.kind # "streams"
    BY <1>1, <2>2 DEF Streams
  <2> QED BY <2>1, <2>2
<1> QED BY <1>8, <1>9, <1>10, <1>11 DEF ExtractionInv

\* No link led to streams.
LEMMA NoLinkLeftStep ==
    ASSUME ExtractionInv, NoLinkLeft
    PROVE  ExtractionInv'
<1>1. /\ at = "following" /\ nest = <<>> /\ at' = "returning" /\ result' = top.own
      /\ UNCHANGED <<registered, edits, frames, snapshot, deepest, nest>> /\ depth' = depth
  BY DEF NoLinkLeft, ExtractionInv, Streams, depth
<1>2. depth \in 1..depth /\ frames[depth] \in Calls /\ depth \in Nat
  BY <1>1, CallsAre, ExtractionAssumption
<1>3. result' \in Answers /\ result'.kind = "links"
  <2>1. frames[depth].own \in Answers
    BY <1>2 DEF Calls
  <2>2. frames[depth].own.kind = "links"
    BY <1>1, <1>2 DEF ExtractionInv, Delegation
  <2> QED BY <1>1, <2>1, <2>2 DEF top
<1>4. ExtractionTypeOK'
  BY <1>1, <1>3 DEF ExtractionInv, ExtractionTypeOK
<1>5. Delegation'
  BY <1>1 DEF ExtractionInv, Delegation
<1>6. Failures' /\ Streams'
  BY <1>1, <1>3 DEF Failures, Streams
<1> QED BY <1>4, <1>5, <1>6 DEF ExtractionInv

\* A call returns what it has.
LEMMA ReturnStep ==
    ASSUME ExtractionInv, Return
    PROVE  ExtractionInv'
<1>1. /\ at = "returning" /\ frames' = Front(frames)
      /\ UNCHANGED <<registered, edits, snapshot, deepest, nest>>
  BY DEF Return
<1>2. /\ frames \in Seq(Calls) /\ depth \in 1..depth /\ depth \in Nat /\ depth = Len(frames)
      /\ \A i \in 1..depth : frames[i] \in Calls
      /\ depth <= MaxDepth + 1
  BY <1>1, CallsAre, ExtractionAssumption DEF depth
<1>3. /\ frames' \in Seq(Calls) /\ Len(frames') = depth - 1 /\ depth' = depth - 1
      /\ \A i \in 1..depth - 1 : frames'[i] = frames[i]
      /\ frames' = <<>> <=> depth = 1
  <2>1. frames' = SubSeq(frames, 1, depth - 1)
    BY <1>1 DEF Front, depth
  <2> HIDE DEF Calls
  <2>2. frames' \in Seq(Calls) /\ Len(frames') = depth - 1 /\ \A i \in 1..depth - 1 : frames'[i] = frames[i]
    BY <1>2, <2>1
  <2>3. frames' = <<>> <=> depth = 1
    BY <1>2, <2>2, EmptySeq
  <2> QED BY <2>2, <2>3 DEF depth
<1>4. \A i \in 1..depth - 1 : /\ i \in 1..depth /\ i < depth /\ frames[i].own.kind = "links"
                             /\ \A n \in Names : frames[i].own.headers[n] \in {0, i}
  BY <1>2 DEF ExtractionInv, Delegation
<1>5. CASE depth = 1 /\ at' = "done" /\ UNCHANGED result
  <2>1. ExtractionTypeOK'
    BY <1>1, <1>2, <1>3, <1>5, ExtractionAssumption DEF ExtractionInv, ExtractionTypeOK, Calls
  <2>2. Delegation'
    BY <1>2, <1>3, <1>4, <1>5 DEF Delegation
  <2>3. Failures'
    BY <1>1, <1>3, <1>5 DEF ExtractionInv, Failures
  <2>4. Streams'
    <3>1. \A i \in 1..depth' : FALSE
      BY <1>3, <1>5
    <3>2. result.kind = "streams" => depth' <= Len(nest)
      BY <1>1, <1>2, <1>3, <1>5 DEF ExtractionInv, Streams, ExtractionTypeOK
    <3> QED BY <1>1, <1>5, <3>1, <3>2 DEF ExtractionInv, Streams
  <2> QED BY <2>1, <2>2, <2>3, <2>4 DEF ExtractionInv
<1>6. CASE depth > 1 /\ result.kind # "streams" /\ at' = "following" /\ UNCHANGED result
  <2>1. ExtractionTypeOK'
    BY <1>1, <1>2, <1>3, <1>6, ExtractionAssumption DEF ExtractionInv, ExtractionTypeOK, Calls
  <2>2. Delegation'
    BY <1>2, <1>3, <1>4, <1>6, ExtractionAssumption DEF Delegation
  <2>3. Failures' /\ Streams'
    BY <1>1, <1>6 DEF ExtractionInv, Failures, Streams
  <2> QED BY <2>1, <2>2, <2>3 DEF ExtractionInv
<1>7. CASE /\ depth > 1 /\ result.kind = "streams" /\ UNCHANGED at
           /\ result' = Wrapped(frames[depth - 1].own, result)
  <2> DEFINE c == depth - 1
  <2>1. c \in Nat \ {0} /\ depth = c + 1 /\ c \in 1..depth - 1 /\ c \in 1..depth
    BY <1>2, <1>7
  <2>2. /\ nest \in Seq(Answers) /\ nest # <<>> /\ depth <= Len(nest) /\ result \in Answers
        /\ \A i \in 1..depth : nest[i] = frames[i].own
        /\ \A i \in DOMAIN nest : \A n \in Names : nest[i].headers[n] \in {0, i}
        /\ WrappedFrom(result, nest, depth)
    BY <1>1, <1>7 DEF ExtractionInv, Streams, ExtractionTypeOK
  <2>3. result' = Wrapped(nest[c], result) /\ \A n \in Names : nest[c].headers[n] \in {0, c}
    <3>1. c \in DOMAIN nest
      BY <2>1, <2>2
    <3>2. nest[c] = frames[c].own
      BY <2>1, <2>2
    <3> QED BY <1>7, <2>2, <3>1, <3>2
  <2> HIDE DEF c
  <2>4. result' \in Answers /\ result'.kind = "streams" /\ WrappedFrom(result', nest, c)
    BY <1>7, <2>1, <2>2, <2>3, OuterWraps
  <2>5. ExtractionTypeOK'
    BY <1>1, <1>2, <1>3, <1>7, <2>4, ExtractionAssumption DEF ExtractionInv, ExtractionTypeOK, Calls
  <2>6. Delegation'
    <3>1. at' = "returning" /\ frames' # <<>>
      BY <1>1, <1>2, <1>3, <1>7
    <3>2. \A i \in 1..depth' : /\ frames'[i].own.kind = "links"
                              /\ \A n \in Names : frames'[i].own.headers[n] \in {0, i}
      BY <1>3, <1>4
    <3> QED BY <3>1, <3>2 DEF Delegation
  <2>7. Failures'
    BY <1>1, <1>7, <2>4 DEF Failures
  <2>8. Streams'
    <3>1. depth' = c /\ depth' <= Len(nest) /\ \A i \in 1..depth' : nest[i] = frames'[i].own
      BY <1>2, <1>3, <2>2 DEF c
    <3> QED BY <1>1, <1>7, <2>2, <2>4, <3>1 DEF Streams
  <2> QED BY <2>5, <2>6, <2>7, <2>8 DEF ExtractionInv
<1>8. \/ depth = 1 /\ at' = "done" /\ UNCHANGED result
      \/ depth > 1 /\ result.kind # "streams" /\ at' = "following" /\ UNCHANGED result
      \/ /\ depth > 1 /\ result.kind = "streams" /\ UNCHANGED at
         /\ result' = Wrapped(frames[depth - 1].own, result)
  BY DEF Return
<1> QED BY <1>5, <1>6, <1>7, <1>8

-----------------------------------------------------------------------------
(* The theorems *)

\* The invariant holds initially.
LEMMA ExtractionInitInv == ExtractionInit => ExtractionInv
<1> SUFFICES ASSUME ExtractionInit PROVE ExtractionInv
  OBVIOUS
<1>1. /\ registered \in SUBSET Extractors /\ edits \in 0..MaxEdits /\ frames = <<>> /\ at = "start"
      /\ result \in Answers /\ snapshot \in SUBSET Extractors /\ deepest = 0 /\ nest = <<>>
  BY NothingIs, ExtractionAssumption DEF ExtractionInit
<1>2. depth = 0 /\ 0 <= MaxDepth + 1
  BY <1>1, ExtractionAssumption DEF depth
<1>3. ExtractionTypeOK
  BY <1>1, <1>2 DEF ExtractionTypeOK
<1>4. Delegation /\ Failures /\ Streams
  BY <1>1, <1>2 DEF Delegation, Failures, Streams
<1> QED BY <1>3, <1>4 DEF ExtractionInv

\* What an extractor answers sets the headers of its own call.
LEMMA ResolveStep ==
    ASSUME ExtractionInv, Resolve
    PROVE  ExtractionInv'
<1>1. at = "asking"
  BY DEF Resolve, Resolved
<1>2. depth \in Depths /\ depth # 0
  BY <1>1, CallsAre, ExtractionAssumption DEF Depths
<1>3. ASSUME NEW kind \in Kinds, NEW named \in SUBSET Names, NEW adapted \in BOOLEAN
      PROVE  /\ Answer(kind, named, adapted) \in Answers
             /\ \A n \in Names : Answer(kind, named, adapted).headers[n] \in {0, depth}
  <2> DEFINE hs == [n \in Names |-> IF n \in named THEN depth ELSE 0]
             as == IF adapted THEN <<depth>> ELSE <<>>
  <2>1. hs \in [Names -> {0} \cup Depths] /\ \A n \in Names : hs[n] \in {0, depth}
    BY <1>2
  <2>2. as \in Seq(Depths)
    BY <1>2
  <2>3. Answer(kind, named, adapted) = [kind |-> kind, depth |-> depth, headers |-> hs, adapter |-> as]
    BY DEF Answer
  <2> HIDE DEF hs, as
  <2> DEFINE told == [kind |-> kind, depth |-> depth, headers |-> hs, adapter |-> as]
  <2>4. told \in Answers
    BY <1>2, <2>1, <2>2 DEF Answers
  <2>5. told.headers = hs
    OBVIOUS
  <2> HIDE DEF told
  <2>6. Answer(kind, named, adapted) = told
    BY Zenon, <2>3 DEF told
  <2> QED BY <2>1, <2>4, <2>5, <2>6
<1>4. CASE Resolved([Nothing EXCEPT !.kind = "error", !.depth = depth], <<>>)
  <2> DEFINE failure == [Nothing EXCEPT !.kind = "error", !.depth = depth]
  <2>1. failure \in Answers /\ \A n \in Names : failure.headers[n] \in {0, depth}
    BY <1>2, NothingIs DEF Answers, Kinds
  <2>2. <<>> \in Seq(Offered)
    OBVIOUS
  <2> HIDE DEF failure
  <2> QED BY <1>4, <2>1, <2>2, ResolvedStep DEF failure
<1>5. ASSUME NEW named \in SUBSET Names, NEW adapted \in BOOLEAN,
             \/ Resolved(Answer("streams", named, adapted), <<>>)
             \/ Resolved(Answer("nothing", named, adapted), <<>>)
      PROVE  ExtractionInv'
  <2>1. <<>> \in Seq(Offered) /\ "streams" \in Kinds /\ "nothing" \in Kinds
    BY DEF Kinds
  <2> QED BY <1>3, <1>5, <2>1, ResolvedStep
<1>6. ASSUME NEW named \in SUBSET Names, NEW adapted \in BOOLEAN,
             NEW links \in BoundedSeq(Offered, MaxLinks) \ {<<>>},
             Resolved(Answer("links", named, adapted), links)
      PROVE  ExtractionInv'
  <2>1. links \in Seq(Offered) /\ "links" \in Kinds
    BY ExtractionAssumption, SeqDef DEF BoundedSeq, SeqOf, Kinds
  <2> QED BY <1>3, <1>6, <2>1, ResolvedStep
<1> QED BY <1>4, <1>5, <1>6 DEF Resolve

\* The invariant is preserved by every step.
LEMMA ExtractionNextStep == ExtractionInv /\ [ExtractionNext]_extractionVars => ExtractionInv'
<1> SUFFICES ASSUME ExtractionInv, [ExtractionNext]_extractionVars PROVE ExtractionInv'
  OBVIOUS
<1>1. ASSUME NEW url \in Urls, Start(url) PROVE ExtractionInv'
  BY <1>1, StartStep
<1>2. CASE ExtractNext
  BY <1>2, ResolveStep, FollowLinkStep, NoLinkLeftStep, ReturnStep DEF ExtractNext
<1>3. CASE Publish
  BY <1>3, PublishStep
<1>4. CASE UNCHANGED extractionVars
  BY <1>4 DEF extractionVars, ExtractionInv, ExtractionTypeOK, Delegation, Failures, Streams, depth
<1> QED BY <1>1, <1>2, <1>3, <1>4 DEF ExtractionNext

\* However extractors answer, the state of an extraction is what it should be.
THEOREM ExtractionTyping == ExtractionSpec => []ExtractionTypeOK
<1>1. ExtractionInv => ExtractionTypeOK
  BY DEF ExtractionInv
<1> QED BY ExtractionInitInv, ExtractionNextStep, <1>1, PTL DEF ExtractionSpec

\* However extractors answer and delegate, and whatever is published meanwhile, streams
\* come back wrapped by the calls of one branch, and only the first one's failure fails.
THEOREM BranchesAreWhole == ExtractionSpec => []OneBranchAnswers
<1>1. ExtractionInv => OneBranchAnswers
  <2> SUFFICES ASSUME ExtractionInv PROVE OneBranchAnswers
    OBVIOUS
  <2>1. FailingLinksFallThrough
    BY DEF ExtractionInv, Failures, FailingLinksFallThrough
  <2>2. StreamsAreWrapped
    <3> SUFFICES ASSUME at = "done", nest # <<>>
                 PROVE  /\ result.kind = "streams"
                        /\ result.adapter = FlattenSeq([i \in DOMAIN nest |-> nest[i].adapter])
                        /\ \A n \in Names : result.headers[n] = Nearest(n)
      BY DEF ExtractionInv, Streams, StreamsAreWrapped
    <3>1. result.kind = "streams" /\ WrappedFrom(result, nest, 1) /\ nest \in Seq(Answers)
      BY DEF ExtractionInv, Streams, ExtractionTypeOK
    <3>2. Len(nest) + 1 - 1 = Len(nest) /\ DOMAIN nest = 1..Len(nest)
          /\ \A i \in 1..Len(nest) : 1 + i - 1 = i
      BY <3>1
    <3>3. AdaptersFrom(nest, 1) = [i \in DOMAIN nest |-> nest[i].adapter]
      BY <3>2 DEF AdaptersFrom
    <3>4. ASSUME NEW n \in Names PROVE result.headers[n] = Nearest(n)
      <4> DEFINE setters == {i \in DOMAIN nest : nest[i].headers[n] # 0}
      <4>1. SettersFrom(nest, 1, n) = setters
        BY <3>2 DEF SettersFrom
      <4>2. Nearest(n) = IF setters = {} THEN 0
                         ELSE CHOOSE i \in setters : \A j \in setters : j <= i
        BY DEF Nearest
      <4>3. setters \in SUBSET Nat
        BY <3>2
      <4> HIDE DEF setters
      <4>4. /\ setters = {} => result.headers[n] = 0
            /\ setters # {} => /\ result.headers[n] \in setters
                               /\ \A j \in setters : j <= result.headers[n]
        BY <3>1, <4>1 DEF WrappedFrom
      <4>5. ASSUME NEW i \in setters, NEW k \in setters, \A j \in setters : j <= i, \A j \in setters : j <= k
            PROVE  i = k
        <5>1. i <= k /\ k <= i /\ i \in Nat /\ k \in Nat
          BY <4>3, <4>5
        <5> QED BY <5>1
      <4> QED BY <4>2, <4>4, <4>5
    <3> QED BY <3>1, <3>3, <3>4 DEF WrappedFrom
  <2> QED BY <2>1, <2>2 DEF OneBranchAnswers
<1> QED BY ExtractionInitInv, ExtractionNextStep, <1>1, PTL DEF ExtractionSpec

-----------------------------------------------------------------------------
(***************************************************************************)
(* Proofs about ResourceAdapter, for chains and responses of any length.   *)
(* The argument: a block that is at a handle has passed exactly the        *)
(* handles after it, and final() empties the chain from its end, so that   *)
(* what is already finalized is empty and is never written to again.       *)
(***************************************************************************)

\* The last n handles in the order in which a response meets them.
Passed(n) == [k \in 1..n |-> handles[Len(handles) + 1 - k]]

AnyBlock == [id : 1..MaxBlocks, through : Seq(Adapters)]

\* The blocks a handle has taken in.
BlocksAt(h) == [id : 1..MaxBlocks, through : {Passed(Len(handles) + 1 - h)}]

Loading == {"ready", "updating", "finalizing", "ended"}
Phases == {"opening", "responding", "opened", "failed"} \cup Loading

Shape ==
    /\ adapters \in Adapters
    /\ phase \in Phases
    /\ current \in Descriptions
    /\ seen \in Seq(Descriptions)
    /\ handles \in Seq(Adapters)
    /\ Len(seen) <= adapters
    /\ Len(handles) <= Len(seen)
    /\ count \in 0..Len(handles)
    /\ fed \in 0..MaxBlocks
    /\ todo \in [Adapters -> Seq(AnyBlock)]
    /\ kept \in [Adapters -> Seq(AnyBlock)]
    /\ delivered \in Seq(AnyBlock)

\* The chain carries nothing before the response began.
NothingYet ==
    /\ phase = "opening" => count = 0
    /\ phase \in {"opening", "opened", "responding"} =>
         /\ todo = [h \in Adapters |-> <<>>]
         /\ kept = [h \in Adapters |-> <<>>]
         /\ delivered = <<>>

MetadataPassed ==
    /\ phase \in {"opening", "opened"} => metadata = <<>>
    /\ phase = "responding" => metadata = Passed(Len(handles) - count)
    /\ phase \in Loading => metadata = Passed(Len(handles))
    /\ phase \in {"responding"} \cup Loading => handles # <<>>
    /\ metadata \in Seq(Adapters)

BlocksPassed ==
    /\ \A h \in Adapters : todo[h] \in Seq(BlocksAt(h)) /\ kept[h] \in Seq(BlocksAt(h))
    /\ \A h \in Adapters : h > Len(handles) => todo[h] = <<>> /\ kept[h] = <<>>
    /\ delivered \in Seq(BlocksAt(1))

\* final() has reached the handle after count: what is behind it is empty.
FinalizedFromTheEnd ==
    phase = "finalizing" =>
        \A h \in Adapters :
            /\ h > count => kept[h] = <<>>
            /\ h > count + 1 => todo[h] = <<>>

IInv == Shape /\ NothingYet /\ MetadataPassed /\ BlocksPassed /\ FinalizedFromTheEnd

-----------------------------------------------------------------------------

\* A sequence over a set is one over a larger set.
LEMMA SeqOfMore ==
    ASSUME NEW S, NEW T, S \subseteq T, NEW s \in Seq(S)
    PROVE  s \in Seq(T)
OBVIOUS

\* A response that meets one more handle.
LEMMA PassedNext ==
    ASSUME handles \in Seq(Adapters), NEW n \in Nat, n < Len(handles)
    PROVE  /\ Passed(n) \in Seq(Adapters)
           /\ Passed(n + 1) = Append(Passed(n), handles[Len(handles) - n])
<1>1. Len(handles) \in Nat
  OBVIOUS
<1>2. \A k \in 1..(n + 1) : handles[Len(handles) + 1 - k] \in Adapters
  BY <1>1
<1>3. Passed(n) \in Seq(Adapters) /\ Len(Passed(n)) = n
  BY <1>1, <1>2 DEF Passed
<1>4. \A k \in 1..n : Passed(n)[k] = handles[Len(handles) + 1 - k]
  BY DEF Passed
<1>5. Append(Passed(n), handles[Len(handles) - n]) \in [1..(n + 1) -> Adapters]
  <2>1. handles[Len(handles) - n] \in Adapters
    BY <1>1
  <2>2. ASSUME NEW s \in Seq(Adapters), Len(s) = n, NEW e \in Adapters
        PROVE  Append(s, e) \in [1..(n + 1) -> Adapters]
    <3>1. Append(s, e) \in Seq(Adapters) /\ Len(Append(s, e)) = n + 1
      BY <2>2, AppendProperties
    <3> DEFINE t == Append(s, e)
    <3> HIDE DEF t
    <3>2. t \in Seq(Adapters) /\ Len(t) = n + 1
      BY <3>1 DEF t
    <3>3. t \in [1..Len(t) -> Adapters]
      BY <3>2, LenProperties
    <3> QED
      BY <3>2, <3>3 DEF t
  <2> QED
    BY <1>3, <2>1, <2>2
<1>6. Passed(n + 1) \in [1..(n + 1) -> Adapters]
  BY <1>2 DEF Passed
<1>7. \A k \in 1..(n + 1) : Passed(n + 1)[k] = Append(Passed(n), handles[Len(handles) - n])[k]
  <2> TAKE k \in 1..(n + 1)
  <2>0. k = n + 1 \/ k \in 1..n
    OBVIOUS
  <2>1. CASE k = n + 1
    <3>1. Passed(n + 1)[k] = handles[Len(handles) - n]
      BY <2>1, <1>1 DEF Passed
    <3>2. ASSUME NEW s \in Seq(Adapters), Len(s) = n, NEW e
          PROVE  Append(s, e)[k] = e
      BY <2>1, <3>2
    <3> QED
      BY <1>3, <3>1, <3>2
  <2>2. CASE k \in 1..n
    <3>1. Passed(n + 1)[k] = handles[Len(handles) + 1 - k]
      BY DEF Passed
    <3>2. ASSUME NEW s \in Seq(Adapters), Len(s) = n, NEW e
          PROVE  Append(s, e)[k] = s[k]
      BY <2>2, <3>2
    <3>3. Append(Passed(n), handles[Len(handles) - n])[k] = Passed(n)[k]
      BY <1>3, <3>2
    <3> QED
      BY <2>2, <1>4, <3>1, <3>3
  <2> QED
    BY <2>0, <2>1, <2>2, Zenon
<1> QED
  BY <1>3, <1>5, <1>6, <1>7

\* All handles in that order.
LEMMA PassedAll ==
    ASSUME handles \in Seq(Adapters)
    PROVE  Passed(Len(handles)) = Reverse(handles)
BY DEF Passed, Reverse

\* The adapters passed so far are as many as the handles passed.
LEMMA PassedIsSeq ==
    ASSUME handles \in Seq(Adapters), NEW n \in Nat, n <= Len(handles)
    PROVE  Passed(n) \in Seq(Adapters) /\ Len(Passed(n)) = n
<1>1. \A k \in 1..n : handles[Len(handles) + 1 - k] \in Adapters
  OBVIOUS
<1> QED
  BY <1>1 DEF Passed

\* The initial states satisfy the invariant.
LEMMA InitInv == Init => IInv
<1> SUFFICES ASSUME Init PROVE IInv
  OBVIOUS
<1> USE ResourceAdapterAssumption DEF Init
<1>1. Shape
  BY DEF Shape, Phases, Loading, Descriptions, Adapters
<1>2. NothingYet /\ MetadataPassed /\ FinalizedFromTheEnd
  BY DEF NothingYet, MetadataPassed, FinalizedFromTheEnd, Loading
<1>3. BlocksPassed
  BY DEF BlocksPassed
<1> QED
  BY <1>1, <1>2, <1>3 DEF IInv

-----------------------------------------------------------------------------

\* A block that reaches the n-th handle, or the consumer if n is 0, leaves the blocks
\* where they have passed the handles they should have; calls is todo without it.
LEMMA PrefixStep ==
    ASSUME IInv, NEW n \in 0..Len(handles), NEW block \in BlocksAt(n + 1), NEW writes \in Nat,
           NEW calls \in [Adapters -> Seq(AnyBlock)],
           \A h \in Adapters : calls[h] \in Seq(BlocksAt(h)),
           \A h \in Adapters : h > Len(handles) => calls[h] = <<>>,
           UNCHANGED handles,
           UpdatePrefix(n, block, writes, calls)
    PROVE  /\ BlocksPassed'
           /\ todo' \in [Adapters -> Seq(AnyBlock)]
           /\ kept' \in [Adapters -> Seq(AnyBlock)]
           /\ delivered' \in Seq(AnyBlock)
           /\ \A h \in Adapters : h # n => todo'[h] = calls[h] /\ kept'[h] = kept[h]
<1> USE ResourceAdapterAssumption
<1>t. Shape /\ BlocksPassed
  BY DEF IInv
<1>a. \A h : BlocksAt(h)' = BlocksAt(h)
  BY DEF BlocksAt, Passed
<1>b. Len(handles) \in Nat /\ Len(handles) <= MaxAdapters /\ handles \in Seq(Adapters)
  BY <1>t DEF Shape, Adapters
<1>1. CASE n = 0
  <2>1. /\ delivered' = Append(delivered, block)
        /\ todo' = calls
        /\ kept' = kept
    BY <1>1 DEF UpdatePrefix
  <2>2. delivered' \in Seq(BlocksAt(1))
    BY <1>1, <1>t, <2>1 DEF BlocksPassed
  <2>3. BlocksAt(1) \subseteq AnyBlock
    <3>1. Len(handles) + 1 - 1 = Len(handles) /\ Len(handles) \in 0..Len(handles)
      BY <1>b
    <3>2. Passed(Len(handles)) \in Seq(Adapters)
      BY <1>b, <3>1, PassedIsSeq
    <3> QED BY <3>1, <3>2 DEF BlocksAt, AnyBlock
  <2>4. delivered' \in Seq(AnyBlock)
    BY <2>2, <2>3, SeqOfMore
  <2> QED
    BY <1>a, <1>b, <1>t, <2>1, <2>2, <2>4 DEF BlocksPassed, Shape
<1>2. CASE n > 0
  <2> DEFINE new == [id |-> block.id, through |-> Append(block.through, handles[n])]
             all == Append(kept[n], new)
  <2>0. n # 0
    BY <1>2
  <2>1. /\ writes <= Len(all)
        /\ todo' = [calls EXCEPT ![n] = SubSeq(all, 1, writes)]
        /\ kept' = [kept EXCEPT ![n] = SubSeq(all, writes + 1, Len(all))]
        /\ delivered' = delivered
    BY <2>0 DEF UpdatePrefix, Transform
  <2>2. n \in Adapters
    BY <1>2, <1>b DEF Adapters
  <2>3. new.id \in 1..MaxBlocks /\ new.through = Append(Passed(Len(handles) - n), handles[n])
    BY <1>2, <1>b DEF BlocksAt
  <2>4. Append(Passed(Len(handles) - n), handles[n]) = Passed(Len(handles) + 1 - n)
    <3>1. Len(handles) - n \in Nat /\ Len(handles) - n < Len(handles)
      BY <1>2, <1>b
    <3>2. /\ Len(handles) - (Len(handles) - n) = n
          /\ (Len(handles) - n) + 1 = Len(handles) + 1 - n
      BY <1>2, <1>b
    <3> HIDE DEF Passed
    <3> QED
      BY <1>b, <3>1, <3>2, PassedNext
  <2>5. new \in BlocksAt(n)
    BY <2>3, <2>4 DEF BlocksAt
  <2>6. all \in Seq(BlocksAt(n))
    <3>1. kept[n] \in Seq(BlocksAt(n))
      BY <1>t, <2>2 DEF BlocksPassed
    <3> HIDE DEF new
    <3> QED
      BY <2>5, <3>1
  <2>7. SubSeq(all, 1, writes) \in Seq(BlocksAt(n)) /\ SubSeq(all, writes + 1, Len(all)) \in Seq(BlocksAt(n))
    <3> HIDE DEF all
    <3>1. Len(all) \in Nat /\ \A i \in 1..Len(all) : all[i] \in BlocksAt(n)
      BY <2>6
    <3>2. \A i \in 1..writes : all[i] \in BlocksAt(n)
      BY <2>1, <3>1
    <3>3. \A i \in (writes + 1)..Len(all) : all[i] \in BlocksAt(n)
      BY <3>1
    <3> QED
      BY <3>1, <3>2, <3>3, SubSeqProperties
  <2>8. BlocksAt(n) \subseteq AnyBlock
    BY <1>2, <1>b, PassedIsSeq DEF BlocksAt, AnyBlock
  <2>9. SubSeq(all, 1, writes) \in Seq(AnyBlock) /\ SubSeq(all, writes + 1, Len(all)) \in Seq(AnyBlock)
    <3> HIDE DEF all
    <3> QED
      BY <2>7, <2>8, SeqOfMore
  <2>10. BlocksPassed'
    <3> HIDE DEF all
    <3>1. \A h \in Adapters : todo'[h] = IF h = n THEN SubSeq(all, 1, writes) ELSE calls[h]
      BY <2>1
    <3>2. kept \in [Adapters -> Seq(AnyBlock)]
      BY <1>t DEF Shape
    <3>3. \A h \in Adapters :
            kept'[h] = IF h = n THEN SubSeq(all, writes + 1, Len(all)) ELSE kept[h]
      BY <2>1, <3>2
    <3> QED
      BY <1>a, <1>b, <1>t, <2>1, <2>7, <3>1, <3>3 DEF BlocksPassed
  <2>11. /\ todo' \in [Adapters -> Seq(AnyBlock)]
         /\ kept' \in [Adapters -> Seq(AnyBlock)]
         /\ delivered' \in Seq(AnyBlock)
    <3>1. kept \in [Adapters -> Seq(AnyBlock)] /\ delivered \in Seq(AnyBlock)
      BY <1>t DEF Shape
    <3> HIDE DEF all
    <3> QED
      BY <2>1, <2>9, <3>1
  <2> HIDE DEF all
  <2>12. \A h \in Adapters : h # n => todo'[h] = calls[h] /\ kept'[h] = kept[h]
    <3>1. kept \in [Adapters -> Seq(AnyBlock)]
      BY <1>t DEF Shape
    <3> QED
      BY <2>1, <3>1
  <2> QED
    BY <2>10, <2>11, <2>12
<1> QED
  BY <1>1, <1>2

-----------------------------------------------------------------------------

\* An empty chain satisfies whatever is said of its blocks.
LEMMA EmptyChain ==
    ASSUME todo' = [h \in Adapters |-> <<>>], kept' = [h \in Adapters |-> <<>>], delivered' = <<>>
    PROVE  /\ BlocksPassed' /\ FinalizedFromTheEnd'
           /\ todo' \in [Adapters -> Seq(AnyBlock)]
           /\ kept' \in [Adapters -> Seq(AnyBlock)]
           /\ delivered' \in Seq(AnyBlock)
BY DEF BlocksPassed, FinalizedFromTheEnd

\* The steps of open(), during which the chain stays empty.
LEMMA OpenStep ==
    ASSUME IInv,
           \/ \E rewrites, hasHandle \in BOOLEAN : OpenNext(rewrites, hasHandle)
           \/ OpenFails
           \/ Opened
    PROVE  IInv'
<1> USE ResourceAdapterAssumption
<1>t. /\ Shape /\ NothingYet /\ MetadataPassed
      /\ phase = "opening" /\ count = 0
  BY DEF IInv, NothingYet, OpenNext, OpenFails, Opened
<1>1. /\ todo' = [h \in Adapters |-> <<>>] /\ kept' = [h \in Adapters |-> <<>>]
      /\ delivered' = <<>> /\ metadata' = <<>> /\ fed' = fed
      /\ adapters' = adapters /\ count' = 0
  BY <1>t DEF NothingYet, MetadataPassed, OpenNext, OpenFails, Opened, opening, streaming
<1>2. /\ BlocksPassed' /\ FinalizedFromTheEnd'
      /\ todo' \in [Adapters -> Seq(AnyBlock)]
      /\ kept' \in [Adapters -> Seq(AnyBlock)]
      /\ delivered' \in Seq(AnyBlock)
  BY <1>1, EmptyChain
<1> DEFINE Asked ==
        /\ phase' \in {"opening", "opened", "failed"}
        /\ current' \in Descriptions
        /\ seen' \in Seq(Descriptions)
        /\ handles' \in Seq(Adapters)
        /\ Len(seen') <= adapters
        /\ Len(handles') <= Len(seen')
<1>3. Asked
  <2> USE <1>t DEF Shape
  <2>1. ASSUME NEW rewrites \in BOOLEAN, NEW hasHandle \in BOOLEAN, OpenNext(rewrites, hasHandle)
        PROVE  Asked
    <3> DEFINE adapter == Len(seen) + 1
    <3>1. adapter \in Adapters
      BY <2>1 DEF OpenNext, Adapters
    <3>2. current' \in Descriptions
      <4>1. current.url \in Seq(Adapters)
        BY DEF Descriptions
      <4>2. Append(current.url, adapter) \in Seq(Adapters)
        BY <3>1, <4>1
      <4> QED
        BY <2>1, <4>1, <4>2 DEF OpenNext, Prepared, Descriptions
    <3>3. handles' \in Seq(Adapters) /\ Len(handles') <= Len(handles) + 1
      BY <2>1, <3>1 DEF OpenNext
    <3>4. seen' \in Seq(Descriptions) /\ Len(seen') = Len(seen) + 1
      BY <2>1 DEF OpenNext
    <3>5. phase' = "opening" /\ Len(seen) < adapters
      BY <2>1 DEF OpenNext
    <3>6. Len(seen) \in Nat /\ Len(handles) \in Nat /\ adapters \in Nat
      BY DEF Adapters
    <3>7. Len(seen') <= adapters /\ Len(handles') <= Len(seen')
      BY <3>3, <3>4, <3>5, <3>6
    <3> QED
      BY <3>2, <3>3, <3>4, <3>5, <3>7
  <2>2. CASE OpenFails
    <3>1. seen' \in Seq(Descriptions) /\ Len(seen') = Len(seen) + 1
      BY <2>2 DEF OpenFails
    <3>2. phase' = "failed" /\ current' = current /\ handles' = <<>> /\ Len(seen) < adapters
      BY <2>2 DEF OpenFails
    <3>3. <<>> \in Seq(Adapters) /\ Len(<<>>) = 0
      <4> HIDE DEF Shape, Adapters
      <4> QED OBVIOUS
    <3>4. Len(seen) \in Nat /\ adapters \in Nat /\ current \in Descriptions
      BY DEF Adapters
    <3>5. Len(seen') <= adapters /\ Len(handles') <= Len(seen')
      BY <3>1, <3>2, <3>3, <3>4
    <3> QED
      BY <3>1, <3>2, <3>3, <3>4, <3>5
  <2>3. CASE Opened
    BY <2>3 DEF Opened, opening
  <2> QED
    BY <2>1, <2>2, <2>3
<1>4. Shape'
  BY <1>1, <1>2, <1>3, <1>t DEF Shape, Phases
<1>5. NothingYet' /\ MetadataPassed'
  BY <1>1, <1>3 DEF NothingYet, MetadataPassed, Loading
<1> QED
  BY <1>2, <1>4, <1>5 DEF IInv

\* The loop of on_response().
LEMMA ResponseStep ==
    ASSUME IInv, OnResponse \/ Normalize \/ ResponseReturns
    PROVE  IInv'
<1> USE ResourceAdapterAssumption
<1>t. Shape /\ NothingYet /\ MetadataPassed /\ phase \in {"opened", "responding"}
  BY DEF IInv, OnResponse, Normalize, ResponseReturns
<1>1. /\ UNCHANGED <<todo, kept, delivered, fed, adapters, current, seen, handles>>
      /\ phase' \in {"responding", "ready"}
  BY DEF OnResponse, Normalize, ResponseReturns, opening, streaming
<1>2. /\ todo = [h \in Adapters |-> <<>>]
      /\ kept = [h \in Adapters |-> <<>>]
      /\ delivered = <<>>
  BY <1>t DEF NothingYet
<1>3. BlocksPassed' /\ FinalizedFromTheEnd'
  <2>1. todo' = [h \in Adapters |-> <<>>] /\ kept' = [h \in Adapters |-> <<>>] /\ delivered' = <<>>
    BY <1>1, <1>2
  <2> QED
    BY <2>1, EmptyChain
<1>4. count' \in 0..Len(handles)
  BY <1>t DEF Shape, OnResponse, Normalize, ResponseReturns
<1>5. Shape'
  BY <1>1, <1>4, <1>t DEF Shape, Phases, Loading
<1>6. NothingYet'
  BY <1>1, <1>2 DEF NothingYet
<1>p. \A n : Passed(n)' = Passed(n)
  BY <1>1 DEF Passed
<1>7. MetadataPassed'
  <2> USE <1>t DEF Shape
  <2>1. CASE OnResponse
    <3>1. metadata' = <<>> /\ phase' = "responding" /\ count' = Len(handles)
          /\ handles # <<>>
      BY <2>1 DEF OnResponse, MetadataPassed
    <3>2. Passed(Len(handles) - Len(handles)) = <<>>
      BY DEF Passed
    <3> QED
      BY <1>1, <1>p, <3>1, <3>2 DEF MetadataPassed, Loading
  <2>2. CASE Normalize
    <3>1. /\ phase = "responding" /\ phase' = "responding" /\ count > 0 /\ count' = count - 1
          /\ metadata' = Append(metadata, handles[count])
          /\ metadata = Passed(Len(handles) - count) /\ metadata \in Seq(Adapters)
          /\ handles # <<>>
      BY <2>2 DEF Normalize, MetadataPassed
    <3>2. Len(handles) - count \in Nat /\ Len(handles) - count < Len(handles)
      BY <3>1
    <3>3. /\ Len(handles) - (Len(handles) - count) = count
          /\ (Len(handles) - count) + 1 = Len(handles) - (count - 1)
      BY <3>1
    <3>4. Append(metadata, handles[count]) = Passed(Len(handles) - (count - 1))
      BY <3>1, <3>2, <3>3, PassedNext
    <3>5. metadata' \in Seq(Adapters)
      BY <3>1
    <3> QED
      BY <1>1, <1>p, <3>1, <3>4, <3>5 DEF MetadataPassed, Loading
  <2>3. CASE ResponseReturns
    <3>1. /\ phase' = "ready" /\ count = 0 /\ metadata' = metadata
          /\ metadata = Passed(Len(handles)) /\ metadata \in Seq(Adapters)
          /\ handles # <<>>
      BY <2>3 DEF ResponseReturns, MetadataPassed
    <3> QED
      BY <1>1, <1>p, <3>1 DEF MetadataPassed, Loading
  <2> QED
    BY <2>1, <2>2, <2>3
<1> QED
  BY <1>3, <1>5, <1>6, <1>7 DEF IInv

\* A block that the transport passes in.
LEMMA UpdateStep ==
    ASSUME IInv, NEW writes \in 0..MaxBlocks, Update(writes)
    PROVE  IInv'
<1> USE ResourceAdapterAssumption
<1>t. IInv /\ Shape /\ NothingYet /\ MetadataPassed /\ BlocksPassed /\ phase = "ready"
  BY DEF IInv, Update
<1>1. /\ UNCHANGED <<adapters, current, seen, handles, metadata, count>>
      /\ fed' = fed + 1 /\ fed' \in 1..MaxBlocks
      /\ phase' = "updating"
  BY <1>t DEF Update, opening, Shape
<1>2. handles # <<>> /\ handles \in Seq(Adapters) /\ Len(handles) \in Nat
  BY <1>t DEF MetadataPassed, Loading, Shape
<1> DEFINE block == [id |-> fed + 1, through |-> <<>>]
<1>3. block \in BlocksAt(Len(handles) + 1)
  <2>1. Len(handles) + 1 - (Len(handles) + 1) = 0
    BY <1>2
  <2>2. Passed(0) = <<>>
    BY DEF Passed
  <2>3. Passed(Len(handles) + 1 - (Len(handles) + 1)) = <<>>
    BY <2>1, <2>2
  <2> QED
    BY <1>1, <2>3 DEF BlocksAt
<1>4. UpdatePrefix(Len(handles), block, writes, todo)
  BY DEF Update
<1>5. /\ BlocksPassed'
      /\ todo' \in [Adapters -> Seq(AnyBlock)]
      /\ kept' \in [Adapters -> Seq(AnyBlock)]
      /\ delivered' \in Seq(AnyBlock)
  <2> HIDE DEF block
  <2>1. \A h \in Adapters : todo[h] \in Seq(BlocksAt(h)) /\ (h > Len(handles) => todo[h] = <<>>)
    BY <1>t DEF BlocksPassed
  <2>2. todo \in [Adapters -> Seq(AnyBlock)] /\ writes \in Nat /\ Len(handles) \in 0..Len(handles)
    BY <1>t, <1>2 DEF Shape
  <2> QED
    BY <1>t, <1>1, <1>3, <1>4, <2>1, <2>2, PrefixStep
<1>6. Shape'
  BY <1>t, <1>1, <1>5 DEF Shape, Phases, Loading
<1>p. \A n : Passed(n)' = Passed(n)
  BY <1>1 DEF Passed
<1>7. NothingYet' /\ MetadataPassed' /\ FinalizedFromTheEnd'
  BY <1>t, <1>1, <1>p DEF NothingYet, MetadataPassed, Loading, FinalizedFromTheEnd
<1> QED
  BY <1>5, <1>6, <1>7 DEF IInv

\* A block that a handle writes to the one before it.
LEMMA ForwardStep ==
    ASSUME IInv, NEW h \in Adapters, NEW writes \in 0..MaxBlocks, Forward(h, writes)
    PROVE  IInv' /\ FinalizedRest
<1> USE ResourceAdapterAssumption
<1>t. IInv /\ Shape /\ MetadataPassed /\ BlocksPassed /\ FinalizedFromTheEnd
  BY DEF IInv
<1>1. /\ UNCHANGED <<adapters, current, seen, handles, metadata, count, fed, phase>>
      /\ phase \in {"updating", "finalizing"}
      /\ todo[h] # <<>>
  BY DEF Forward, Busy, Running, opening
<1>2. handles \in Seq(Adapters) /\ Len(handles) \in Nat /\ h \in 1..Len(handles) /\ Len(handles) <= MaxAdapters
  <2>1. handles \in Seq(Adapters) /\ Len(handles) \in Nat
    BY <1>t DEF Shape
  <2>2. Len(handles) <= MaxAdapters
    BY <1>t, <2>1 DEF Shape, Adapters
  <2>3. ~(h > Len(handles)) /\ h \in 1..MaxAdapters
    BY <1>t, <1>1 DEF BlocksPassed, Adapters
  <2> QED
    BY <2>1, <2>2, <2>3
<1> DEFINE block == Head(todo[h])
           calls == [todo EXCEPT ![h] = Tail(@)]
<1>3. UpdatePrefix(h - 1, block, writes, calls)
  BY DEF Forward, Before
<1>4. todo[h] \in Seq(BlocksAt(h)) /\ todo[h] \in Seq(AnyBlock) /\ todo \in [Adapters -> Seq(AnyBlock)]
  BY <1>t DEF BlocksPassed, Shape
<1>5. /\ block \in BlocksAt((h - 1) + 1)
      /\ Tail(todo[h]) \in Seq(BlocksAt(h))
      /\ Tail(todo[h]) \in Seq(AnyBlock)
      /\ Len(Tail(todo[h])) <= Len(todo[h])
  <2>1. block \in BlocksAt(h) /\ Tail(todo[h]) \in Seq(BlocksAt(h)) /\ Tail(todo[h]) \in Seq(AnyBlock)
    BY <1>1, <1>4
  <2>2. Len(Tail(todo[h])) <= Len(todo[h])
    BY <1>1, <1>4, HeadTailProperties
  <2>3. (h - 1) + 1 = h
    BY <1>2
  <2> QED
    BY <2>1, <2>2, <2>3
<1>6. /\ calls \in [Adapters -> Seq(AnyBlock)]
      /\ \A g \in Adapters : calls[g] = IF g = h THEN Tail(todo[h]) ELSE todo[g]
  BY <1>4, <1>5
<1>7. \A g \in Adapters : calls[g] \in Seq(BlocksAt(g)) /\ (g > Len(handles) => calls[g] = <<>>)
  BY <1>t, <1>2, <1>5, <1>6 DEF BlocksPassed
<1> HIDE DEF block, calls
<1>8. /\ BlocksPassed'
      /\ todo' \in [Adapters -> Seq(AnyBlock)]
      /\ kept' \in [Adapters -> Seq(AnyBlock)]
      /\ delivered' \in Seq(AnyBlock)
      /\ \A g \in Adapters : g # h - 1 => todo'[g] = calls[g] /\ kept'[g] = kept[g]
  <2>1. h - 1 \in 0..Len(handles) /\ writes \in Nat /\ UNCHANGED handles
    BY <1>1, <1>2
  <2> QED
    BY <1>t, <1>3, <1>5, <1>6, <1>7, <2>1, PrefixStep
<1>9. phase = "finalizing" =>
        /\ count \in Nat /\ h <= count + 1
        /\ \A g \in Adapters : g > count => g # h - 1
  BY <1>t, <1>1, <1>2 DEF FinalizedFromTheEnd, Shape, Adapters
<1>10. \A g \in 1..Len(handles) : phase = "finalizing" /\ count < g =>
        kept'[g] = <<>> /\ Len(todo'[g]) <= Len(todo[g])
  <2> SUFFICES ASSUME NEW g \in 1..Len(handles), phase = "finalizing", count < g
               PROVE  kept'[g] = <<>> /\ Len(todo'[g]) <= Len(todo[g])
    OBVIOUS
  <2>1. g \in Adapters /\ g # h - 1
    BY <1>2, <1>9 DEF Adapters
  <2>2. kept'[g] = <<>>
    BY <1>t, <1>8, <2>1 DEF FinalizedFromTheEnd
  <2>3. todo'[g] = IF g = h THEN Tail(todo[h]) ELSE todo[g]
    BY <1>6, <1>8, <2>1
  <2>4. Len(todo[g]) \in Nat
    BY <1>4, <2>1
  <2> QED
    BY <1>5, <2>2, <2>3, <2>4
<1>11. FinalizedFromTheEnd'
  <2> SUFFICES ASSUME phase = "finalizing", NEW g \in Adapters
               PROVE  (g > count => kept'[g] = <<>>) /\ (g > count + 1 => todo'[g] = <<>>)
    BY <1>1 DEF FinalizedFromTheEnd
  <2>1. g > count => g # h - 1
    BY <1>9
  <2>2. g > count + 1 => g > count /\ g # h
    BY <1>2, <1>9 DEF Adapters
  <2> QED
    BY <1>t, <1>6, <1>8, <2>1, <2>2 DEF FinalizedFromTheEnd
<1>12. Shape'
  BY <1>t, <1>1, <1>8 DEF Shape
<1>p. \A n : Passed(n)' = Passed(n)
  BY <1>1 DEF Passed
<1>13. NothingYet' /\ MetadataPassed'
  BY <1>t, <1>1, <1>p DEF NothingYet, MetadataPassed, Loading
<1> QED
  BY <1>8, <1>10, <1>11, <1>12, <1>13 DEF IInv, FinalizedRest, Rests

\* final() reaches the next handle, the last one that has not been finalized.
LEMMA FinalNextStep ==
    ASSUME IInv, FinalNext
    PROVE  IInv' /\ FinalizedRest
<1> USE ResourceAdapterAssumption
<1>t. IInv /\ Shape /\ MetadataPassed /\ BlocksPassed /\ FinalizedFromTheEnd
  BY DEF IInv
<1>1. /\ UNCHANGED <<adapters, current, seen, handles, metadata, fed, phase, delivered>>
      /\ phase = "finalizing" /\ count' = count - 1 /\ count > 0
      /\ todo' = [todo EXCEPT ![count] = kept[count]]
      /\ kept' = [kept EXCEPT ![count] = <<>>]
      /\ \A h \in Adapters : todo[h] = <<>>
  BY DEF FinalNext, Settled, opening
<1>2. handles \in Seq(Adapters) /\ Len(handles) \in Nat /\ Len(handles) <= MaxAdapters
  <2>1. handles \in Seq(Adapters) /\ Len(handles) \in Nat
    BY <1>t DEF Shape
  <2> QED
    BY <1>t, <2>1 DEF Shape, Adapters
<1>3. count \in 1..Len(handles) /\ count \in Adapters
  BY <1>t, <1>1, <1>2 DEF Shape, Adapters
<1>4. todo \in [Adapters -> Seq(AnyBlock)] /\ kept \in [Adapters -> Seq(AnyBlock)]
  BY <1>t DEF Shape
<1>5. /\ \A h \in Adapters : todo'[h] = IF h = count THEN kept[h] ELSE <<>>
      /\ \A h \in Adapters : kept'[h] = IF h = count THEN <<>> ELSE kept[h]
      /\ todo' \in [Adapters -> Seq(AnyBlock)]
      /\ kept' \in [Adapters -> Seq(AnyBlock)]
  <2>1. kept[count] \in Seq(AnyBlock) /\ <<>> \in Seq(AnyBlock)
    BY <1>3, <1>4
  <2> QED
    BY <1>1, <1>3, <1>4, <2>1
<1>a. \A h : BlocksAt(h)' = BlocksAt(h)
  BY <1>1 DEF BlocksAt, Passed
<1>6. BlocksPassed'
  BY <1>t, <1>1, <1>2, <1>3, <1>5, <1>a DEF BlocksPassed
<1>7. FinalizedFromTheEnd'
  <2> SUFFICES ASSUME NEW g \in Adapters
               PROVE  (g > count - 1 => kept'[g] = <<>>) /\ (g > (count - 1) + 1 => todo'[g] = <<>>)
    BY <1>1 DEF FinalizedFromTheEnd
  <2>1. g > count - 1 => g = count \/ g > count
    BY <1>3 DEF Adapters
  <2>2. g > (count - 1) + 1 => g # count
    BY <1>3 DEF Adapters
  <2>3. g > count => kept[g] = <<>>
    BY <1>t, <1>1 DEF FinalizedFromTheEnd
  <2> QED
    BY <1>5, <2>1, <2>2, <2>3
<1>8. \A g \in 1..Len(handles) : count < g => kept'[g] = <<>> /\ Len(todo'[g]) <= Len(todo[g])
  <2> SUFFICES ASSUME NEW g \in 1..Len(handles), count < g
               PROVE  kept'[g] = <<>> /\ Len(todo'[g]) <= Len(todo[g])
    OBVIOUS
  <2>1. g \in Adapters /\ g # count
    BY <1>2, <1>3 DEF Adapters
  <2>2. kept[g] = <<>> /\ kept'[g] = <<>>
    BY <1>t, <1>1, <1>5, <2>1 DEF FinalizedFromTheEnd
  <2>3. todo'[g] = <<>> /\ todo[g] = <<>>
    BY <1>1, <1>5, <2>1
  <2> QED
    BY <2>2, <2>3
<1>9. Shape'
  BY <1>t, <1>1, <1>3, <1>5 DEF Shape
<1>p. \A n : Passed(n)' = Passed(n)
  BY <1>1 DEF Passed
<1>10. NothingYet' /\ MetadataPassed'
  BY <1>t, <1>1, <1>p DEF NothingYet, MetadataPassed, Loading
<1> QED
  BY <1>6, <1>7, <1>8, <1>9, <1>10 DEF IInv, FinalizedRest, Rests

\* The remaining steps: calls that return or begin, and the ends.
LEMMA CallStep ==
    ASSUME IInv, UpdateReturns \/ Final \/ FinalReturns \/ Abort \/ UNCHANGED vars
    PROVE  IInv' /\ (phase = "finalizing" => UNCHANGED <<todo, kept>>)
<1> USE ResourceAdapterAssumption
<1>t. Shape /\ NothingYet /\ MetadataPassed /\ BlocksPassed /\ FinalizedFromTheEnd
  BY DEF IInv
<1>1. /\ UNCHANGED <<adapters, current, seen, handles, metadata, fed, delivered, todo, kept>>
      /\ \/ phase' = "ready" /\ phase = "updating" /\ count' = count
         \/ phase' = "finalizing" /\ phase = "ready" /\ count' = Len(handles)
         \/ phase' = "ended" /\ phase = "finalizing" /\ count' = count
         \/ phase' = "failed" /\ count' = count
         \/ phase' = phase /\ count' = count
  BY DEF UpdateReturns, Final, FinalReturns, Abort, vars, opening, streaming
<1>2. Shape'
  BY <1>t, <1>1 DEF Shape, Phases, Loading
<1>p. /\ \A n : Passed(n)' = Passed(n)
      /\ \A h : BlocksAt(h)' = BlocksAt(h)
  BY <1>1 DEF Passed, BlocksAt
<1>3. BlocksPassed'
  BY <1>t, <1>1, <1>p DEF BlocksPassed
<1>4. FinalizedFromTheEnd'
  <2>1. CASE phase' = "finalizing" /\ phase = "ready" /\ count' = Len(handles)
    BY <1>t, <1>1, <2>1 DEF FinalizedFromTheEnd, BlocksPassed, Shape, Adapters
  <2>2. CASE phase' # "finalizing" \/ (phase' = phase /\ count' = count)
    BY <1>t, <1>1, <2>2 DEF FinalizedFromTheEnd
  <2> QED
    BY <1>1, <2>1, <2>2
<1>5. NothingYet' /\ MetadataPassed'
  BY <1>t, <1>1, <1>p DEF NothingYet, MetadataPassed, Loading
<1> QED
  BY <1>1, <1>2, <1>3, <1>4, <1>5 DEF IInv

-----------------------------------------------------------------------------

\* Every step preserves the invariant, and writes nothing into a finalized handle.
LEMMA NextInv ==
    ASSUME IInv, [Next]_vars
    PROVE  IInv' /\ FinalizedRest
<1>1. CASE \E rewrites, hasHandle \in BOOLEAN : OpenNext(rewrites, hasHandle)
  BY <1>1, OpenStep DEF OpenNext, FinalizedRest
<1>2. CASE OpenFails \/ Opened
  BY <1>2, OpenStep DEF OpenFails, Opened, FinalizedRest
<1>3. CASE OnResponse \/ Normalize \/ ResponseReturns
  BY <1>3, ResponseStep DEF OnResponse, Normalize, ResponseReturns, FinalizedRest
<1>4. CASE \E writes \in 0..MaxBlocks : Update(writes)
  BY <1>4, UpdateStep DEF Update, FinalizedRest
<1>5. CASE \E h \in Adapters, writes \in 0..MaxBlocks : Forward(h, writes)
  BY <1>5, ForwardStep
<1>6. CASE FinalNext
  BY <1>6, FinalNextStep
<1>7. CASE UpdateReturns \/ Final \/ FinalReturns \/ Abort \/ UNCHANGED vars
  <2>1. IInv' /\ (phase = "finalizing" => UNCHANGED <<todo, kept>>)
    BY <1>7, CallStep
  <2>2. ASSUME phase = "finalizing", NEW h \in 1..Len(handles), count < h
        PROVE  Rests(h)
    <3>1. h \in Adapters
      BY ResourceAdapterAssumption DEF IInv, Shape, Adapters
    <3>2. kept[h] = <<>> /\ Len(todo[h]) \in Nat
      BY <2>2, <3>1 DEF IInv, FinalizedFromTheEnd, Shape
    <3> QED
      BY <2>1, <2>2, <3>2 DEF Rests
  <2> QED
    BY <2>1, <2>2 DEF FinalizedRest
<1> QED
  BY <1>1, <1>2, <1>3, <1>4, <1>5, <1>6, <1>7 DEF Next

\* The inductive invariant holds of every reachable state.
THEOREM Invariance == Spec => []IInv
<1>1. IInv /\ [Next]_vars => IInv'
  BY NextInv
<1> QED
  BY <1>1, InitInv, PTL DEF Spec

\* Metadata and every block pass each handle of a chain once, the innermost first,
\* however long the chain and the response are and whatever the handles keep back.
THEOREM TransformsInOrder == Spec => []InnermostFirst
<1>1. IInv => InnermostFirst
  <2> SUFFICES ASSUME IInv PROVE InnermostFirst
    OBVIOUS
  <2>1. handles \in Seq(Adapters) /\ Len(handles) + 1 - 1 = Len(handles)
    BY DEF IInv, Shape
  <2>2. Passed(Len(handles)) = Reverse(handles)
    BY <2>1, PassedAll
  <2>3. phase \in Loading => metadata = Reverse(handles)
    BY <2>2 DEF IInv, MetadataPassed
  <2>4. delivered \in Seq([id : 1..MaxBlocks, through : {Reverse(handles)}])
    BY <2>1, <2>2 DEF IInv, BlocksPassed, BlocksAt
  <2>5. \A i \in DOMAIN delivered : delivered[i].through = Reverse(handles)
    <3> DEFINE S == [id : 1..MaxBlocks, through : {Reverse(handles)}]
    <3>1. \A b \in S : b.through = Reverse(handles)
      OBVIOUS
    <3> HIDE DEF S
    <3>2. delivered \in Seq(S)
      BY <2>4 DEF S
    <3> QED
      BY <3>1, <3>2
  <2> QED
    BY <2>3, <2>5 DEF InnermostFirst, Loading
<1> QED
  BY <1>1, Invariance, PTL

\* Once the final() of a handle was called it takes in no further block.
THEOREM FinalIsLast == Spec => FinalizedHandlesRest
<1>1. IInv /\ [Next]_vars => [FinalizedRest]_vars
  BY NextInv
<1> QED
  BY <1>1, Invariance, PTL DEF Spec, FinalizedHandlesRest

-----------------------------------------------------------------------------
(***************************************************************************)
(* A chain of handles is a handle.  The blocks that have come in are       *)
(* numbered 1 to fed; those that have left it come first, then those of    *)
(* the first handle, and so on to the last one: b[h] is the number of the  *)
(* last block that is at the h-th handle or beyond.                        *)
(***************************************************************************)

\* The blocks from the first one of the consumer to the last one taken in, in order.
Ordered(b) ==
    /\ b \in [0..Len(handles) -> 0..fed]
    /\ b[0] = Len(delivered) /\ b[Len(handles)] = fed
    /\ \A i \in 1..Len(delivered) : delivered[i].id = i
    /\ \A h \in 1..Len(handles) :
         /\ b[h - 1] + Len(todo[h]) + Len(kept[h]) = b[h]
         /\ \A i \in 1..Len(todo[h]) : todo[h][i].id = b[h - 1] + i
         /\ \A i \in 1..Len(kept[h]) : kept[h][i].id = b[h - 1] + Len(todo[h]) + i

InOrder ==
    /\ phase \in {"opening", "opened", "responding"} => fed = 0
    /\ phase = "ready" => \A h \in Adapters : todo[h] = <<>>
    /\ \E b : Ordered(b)

\* One more block after those a handle keeps, of which it writes the first ones.
LEMMA SlicesAreOrdered ==
    \A base \in Nat, q \in Seq(AnyBlock), block \in AnyBlock, w \in Nat :
        /\ \A i \in 1..Len(q) : q[i].id = base + i
        /\ block.id = base + Len(q) + 1
        /\ w <= Len(Append(q, block))
        => /\ Len(SubSeq(Append(q, block), 1, w)) = w
           /\ Len(SubSeq(Append(q, block), w + 1, Len(Append(q, block)))) = (Len(q) + 1) - w
           /\ \A i \in 1..w : SubSeq(Append(q, block), 1, w)[i].id = base + i
           /\ \A i \in 1..((Len(q) + 1) - w) :
                SubSeq(Append(q, block), w + 1, Len(Append(q, block)))[i].id = base + w + i
<1> TAKE base \in Nat, q \in Seq(AnyBlock), block \in AnyBlock, w \in Nat
<1>h. HAVE /\ \A i \in 1..Len(q) : q[i].id = base + i
           /\ block.id = base + Len(q) + 1
           /\ w <= Len(Append(q, block))
<1> DEFINE all == Append(q, block)
           N == Len(q) + 1
<1> HIDE DEF AnyBlock
<1>1. Len(q) \in Nat /\ N \in Nat /\ all \in Seq(AnyBlock) /\ Len(all) = N
  OBVIOUS
<1>2. \A i \in 1..N : all[i].id = base + i
  <2> TAKE i \in 1..N
  <2>1. CASE i = N
    <3>1. all[i] = block
      BY <1>1, <2>1
    <3> QED BY <1>h, <1>1, <2>1, <3>1
  <2>2. CASE i # N
    <3>1. i \in 1..Len(q) /\ all[i] = q[i]
      BY <1>1, <2>2
    <3> QED BY <1>h, <3>1
  <2> QED BY <2>1, <2>2
<1>3. w <= N
  BY <1>h, <1>1
<1> HIDE DEF all, N
<1>4. Len(SubSeq(all, 1, w)) = w /\ \A i \in 1..w : SubSeq(all, 1, w)[i] = all[i]
  BY <1>1, <1>3
<1>5. /\ Len(SubSeq(all, w + 1, N)) = N - w
      /\ \A i \in 1..(N - w) : SubSeq(all, w + 1, N)[i] = all[w + i]
  BY <1>1, <1>3
<1>6. \A i \in 1..w : all[i].id = base + i
  BY <1>1, <1>2, <1>3
<1>7. \A i \in 1..(N - w) : all[w + i].id = base + w + i
  <2> TAKE i \in 1..(N - w)
  <2>1. w + i \in 1..N /\ base + (w + i) = base + w + i
    BY <1>1, <1>3
  <2> QED BY <1>2, <2>1
<1>8. /\ Len(SubSeq(all, 1, w)) = w /\ Len(SubSeq(all, w + 1, Len(all))) = N - w
      /\ \A i \in 1..w : SubSeq(all, 1, w)[i].id = base + i
      /\ \A i \in 1..(N - w) : SubSeq(all, w + 1, Len(all))[i].id = base + w + i
  BY <1>1, <1>4, <1>5, <1>6, <1>7
<1> QED BY <1>8, Zenon DEF all, N

\* One more, and the same number again on both sides.
LEMMA TakenIn ==
    ASSUME NEW x \in Nat, NEW y \in Nat, NEW w \in Nat, NEW z \in Nat, x + y = z
    PROVE  x + w + ((y + 1) - w) = z + 1
OBVIOUS

\* A block is between the handle n + 1 that gave it and the handle n, or the consumer;
\* calls is todo without it.
From(b, n, h) == b[h - 1] + (IF h - 1 = n THEN 1 ELSE 0)
Handed(b, n, calls, total) ==
    /\ b \in [0..Len(handles) -> 0..total]
    /\ b[0] = Len(delivered)
    /\ b[n] + 1 <= total
    /\ b[Len(handles)] + (IF n = Len(handles) THEN 1 ELSE 0) = total
    /\ \A i \in 1..Len(delivered) : delivered[i].id = i
    /\ \A h \in 1..Len(handles) :
         /\ From(b, n, h) + Len(calls[h]) + Len(kept[h]) = b[h]
         /\ \A i \in 1..Len(calls[h]) : calls[h][i].id = From(b, n, h) + i
         /\ \A i \in 1..Len(kept[h]) : kept[h][i].id = From(b, n, h) + Len(calls[h]) + i

\* The handle n takes the block in, and the blocks are in order again.
LEMMA PrefixOrdered ==
    ASSUME IInv, NEW n \in 0..Len(handles), NEW block \in AnyBlock, NEW writes \in Nat,
           NEW calls \in [Adapters -> Seq(AnyBlock)], NEW b, NEW total \in Nat,
           UNCHANGED handles, fed' = total,
           UpdatePrefix(n, block, writes, calls),
           Handed(b, n, calls, total), block.id = b[n] + 1,
           n # 0 => calls[n] = <<>>
    PROVE  \E c : Ordered(c)'
<1> DEFINE N == Len(handles)
<1>1. /\ N \in Nat /\ N <= MaxAdapters /\ handles \in Seq(Adapters)
      /\ todo \in [Adapters -> Seq(AnyBlock)] /\ kept \in [Adapters -> Seq(AnyBlock)]
      /\ delivered \in Seq(AnyBlock) /\ Len(delivered) \in Nat
  <2>1. /\ handles \in Seq(Adapters) /\ Len(handles) <= Len(seen) /\ Len(seen) <= adapters
        /\ adapters \in Adapters /\ seen \in Seq(Descriptions)
        /\ todo \in [Adapters -> Seq(AnyBlock)] /\ kept \in [Adapters -> Seq(AnyBlock)]
        /\ delivered \in Seq(AnyBlock)
    BY DEF IInv, Shape
  <2> HIDE DEF AnyBlock
  <2>2. N \in Nat /\ Len(seen) \in Nat /\ Len(delivered) \in Nat
    BY <2>1
  <2> QED BY <2>1, <2>2, ResourceAdapterAssumption DEF Adapters
<1>2. \A h \in 1..N : h \in Adapters /\ h - 1 \in 0..N /\ h \in 0..N /\ h # h - 1
  BY <1>1, ResourceAdapterAssumption DEF Adapters
<1>3. /\ b \in [0..N -> 0..total] /\ b[0] = Len(delivered) /\ b[n] + 1 <= total
      /\ b[N] + (IF n = N THEN 1 ELSE 0) = total
      /\ \A i \in 1..Len(delivered) : delivered[i].id = i
  BY DEF Handed
<1>b. \A h \in 0..N : b[h] \in Nat /\ b[h] <= total
  BY <1>3
<1>c. PICK c : c = [h \in 0..N |-> IF h = n THEN b[h] + 1 ELSE b[h]]
  OBVIOUS
<1>4. /\ c \in [0..N -> 0..total] /\ c[N] = total /\ c[0] = (IF n = 0 THEN b[0] + 1 ELSE b[0])
      /\ \A h \in 0..N : c[h] = IF h = n THEN b[h] + 1 ELSE b[h]
  <2>1. 0 \in 0..N /\ N \in 0..N /\ \A h \in 0..N : c[h] = IF h = n THEN b[h] + 1 ELSE b[h]
    BY <1>1, <1>c
  <2>2. \A h \in 0..N : c[h] \in 0..total
    BY <1>3, <1>b, <2>1
  <2>3. c[N] = total
    BY <1>3, <1>b, <2>1
  <2> QED BY <1>c, <2>1, <2>2, <2>3
<1>5. \A h \in 1..N :
         /\ c[h - 1] + Len(calls[h]) + Len(kept[h]) = b[h]
         /\ \A i \in 1..Len(calls[h]) : calls[h][i].id = c[h - 1] + i
         /\ \A i \in 1..Len(kept[h]) : kept[h][i].id = c[h - 1] + Len(calls[h]) + i
  <2> TAKE h \in 1..N
  <2>1. /\ From(b, n, h) + Len(calls[h]) + Len(kept[h]) = b[h]
        /\ \A i \in 1..Len(calls[h]) : calls[h][i].id = From(b, n, h) + i
        /\ \A i \in 1..Len(kept[h]) : kept[h][i].id = From(b, n, h) + Len(calls[h]) + i
    BY DEF Handed
  <2>2. b[h - 1] \in Nat
    BY <1>2, <1>b
  <2>3. c[h - 1] = From(b, n, h)
    BY <1>2, <1>4, <2>2 DEF From
  <2> QED BY <2>1, <2>3
<1>6. \A h \in 1..N :
         /\ c[h - 1] + Len(todo'[h]) + Len(kept'[h]) = c[h]
         /\ \A i \in 1..Len(todo'[h]) : todo'[h][i].id = c[h - 1] + i
         /\ \A i \in 1..Len(kept'[h]) : kept'[h][i].id = c[h - 1] + Len(todo'[h]) + i
  <2> TAKE h \in 1..N
  <2>1. h \in Adapters /\ h - 1 \in 0..N /\ h \in 0..N
    BY <1>2
  <2>2. CASE h # n
    <3>1. todo'[h] = calls[h] /\ kept'[h] = kept[h] /\ c[h] = b[h]
      BY <1>1, <1>4, <2>1, <2>2 DEF UpdatePrefix, Transform
    <3> QED BY <1>5, <3>1
  <2>3. CASE h = n
    <3> DEFINE new == [id |-> block.id, through |-> Append(block.through, handles[n])]
               all == Append(kept[n], new)
    <3>0. PICK base : base = c[n - 1]
      OBVIOUS
    <3>1. n # 0 /\ n \in Adapters /\ n - 1 \in 0..N /\ calls[n] = <<>>
      BY <2>1, <2>3
    <3>2. /\ writes <= Len(all)
          /\ todo' = [calls EXCEPT ![n] = SubSeq(all, 1, writes)]
          /\ kept' = [kept EXCEPT ![n] = SubSeq(all, writes + 1, Len(all))]
      BY <3>1 DEF UpdatePrefix, Transform
    <3>3. todo'[n] = SubSeq(all, 1, writes) /\ kept'[n] = SubSeq(all, writes + 1, Len(all))
      <4> HIDE DEF all
      <4> QED BY <1>1, <3>1, <3>2
    <3>4. new \in AnyBlock /\ new.id = block.id
      <4>1. handles[n] \in Adapters
        BY <1>1, <2>3
      <4> QED BY <4>1 DEF AnyBlock
    <3>5. kept[n] \in Seq(AnyBlock) /\ Len(kept[n]) \in Nat /\ Len(<<>>) = 0
      <4>1. kept[n] \in Seq(AnyBlock)
        BY <1>1, <3>1
      <4> HIDE DEF AnyBlock
      <4> QED BY <4>1
    <3>6. base \in Nat /\ b[n] \in Nat /\ c[n] = b[n] + 1
      <4>1. n \in 0..N /\ n # n - 1 /\ c[n - 1] = b[n - 1] /\ c[n] = b[n] + 1
        BY <1>4, <3>1
      <4>2. b[n - 1] \in Nat /\ b[n] \in Nat
        BY <1>b, <3>1
      <4> QED BY <3>0, <4>1, <4>2
    <3>7. base + Len(kept[n]) = b[n] /\ \A i \in 1..Len(kept[n]) : kept[n][i].id = base + i
      <4>1. base + 0 = base
        BY <3>6
      <4>2. /\ base + 0 + Len(kept[n]) = b[n]
            /\ \A i \in 1..Len(kept[n]) : kept[n][i].id = base + 0 + i
        <5>1. /\ c[n - 1] + Len(calls[n]) + Len(kept[n]) = b[n]
              /\ \A i \in 1..Len(kept[n]) : kept[n][i].id = c[n - 1] + Len(calls[n]) + i
          BY <1>5, <2>3
        <5>2. Len(calls[n]) = 0
          BY <3>1, <3>5
        <5> QED BY <3>0, <5>1, <5>2, Zenon
      <4> QED BY <4>1, <4>2
    <3> HIDE DEF new
    <3>8. new.id = base + Len(kept[n]) + 1
      BY <3>4, <3>7
    <3>9. /\ Len(SubSeq(all, 1, writes)) = writes
          /\ Len(SubSeq(all, writes + 1, Len(all))) = (Len(kept[n]) + 1) - writes
          /\ \A i \in 1..writes : SubSeq(all, 1, writes)[i].id = base + i
          /\ \A i \in 1..((Len(kept[n]) + 1) - writes) :
               SubSeq(all, writes + 1, Len(all))[i].id = base + writes + i
      <4>1. \A q \in Seq(AnyBlock), bl \in AnyBlock, w \in Nat :
              /\ \A i \in 1..Len(q) : q[i].id = base + i
              /\ bl.id = base + Len(q) + 1
              /\ w <= Len(Append(q, bl))
              => /\ Len(SubSeq(Append(q, bl), 1, w)) = w
                 /\ Len(SubSeq(Append(q, bl), w + 1, Len(Append(q, bl)))) = (Len(q) + 1) - w
                 /\ \A i \in 1..w : SubSeq(Append(q, bl), 1, w)[i].id = base + i
                 /\ \A i \in 1..((Len(q) + 1) - w) :
                      SubSeq(Append(q, bl), w + 1, Len(Append(q, bl)))[i].id = base + w + i
        BY <3>6, SlicesAreOrdered, ZenonT(30)
      <4> HIDE DEF AnyBlock
      <4> QED BY <3>2, <3>4, <3>5, <3>7, <3>8, <4>1, Zenon
    <3> HIDE DEF all
    <3>10. /\ Len(todo'[n]) = writes /\ Len(kept'[n]) = (Len(kept[n]) + 1) - writes
           /\ \A i \in 1..Len(todo'[n]) : todo'[n][i].id = base + i
           /\ \A i \in 1..Len(kept'[n]) : kept'[n][i].id = base + Len(todo'[n]) + i
      BY <3>3, <3>9
    <3>11. base + Len(todo'[n]) + Len(kept'[n]) = c[n]
      <4>2. base + writes + ((Len(kept[n]) + 1) - writes) = b[n] + 1
        <5>1. PICK y \in Nat : y = Len(kept[n])
          BY <3>5
        <5>2. PICK z \in Nat : z = b[n]
          BY <3>6
        <5>3. base + y = z
          BY <3>7, <5>1, <5>2, Zenon
        <5>4. base + writes + ((y + 1) - writes) = z + 1
          BY <3>6, <5>3
        <5> QED BY <5>1, <5>2, <5>4, Zenon
      <4> QED BY <3>6, <3>10, <4>2, Zenon
    <3> QED BY <2>3, <3>0, <3>10, <3>11
  <2> QED BY <2>2, <2>3
<1>7. c[0] = Len(delivered') /\ \A i \in 1..Len(delivered') : delivered'[i].id = i
  <2>1. CASE n = 0
    <3>1. delivered' = Append(delivered, block) /\ block.id = Len(delivered) + 1
      BY <1>3, <2>1 DEF UpdatePrefix
    <3> HIDE DEF AnyBlock
    <3>2. Len(delivered') = Len(delivered) + 1
      BY <1>1, <3>1
    <3>3. \A i \in 1..Len(delivered') : delivered'[i].id = i
      <4> TAKE i \in 1..Len(delivered')
      <4>1. CASE i = Len(delivered) + 1
        BY <1>1, <3>1, <4>1
      <4>2. CASE i \in 1..Len(delivered)
        BY <1>1, <1>3, <3>1, <4>2
      <4> QED BY <1>1, <3>2, <4>1, <4>2
    <3> QED BY <1>3, <1>4, <2>1, <3>2, <3>3
  <2>2. CASE n # 0
    <3>1. delivered' = delivered
      BY <2>2 DEF UpdatePrefix
    <3> QED BY <1>3, <1>4, <2>2, <3>1
  <2> QED BY <2>1, <2>2
<1>8. Ordered(c)'
  BY <1>4, <1>6, <1>7 DEF Ordered
<1> QED BY <1>8

\* The chain's boundaries are where they were: nothing has moved.
LEMMA NothingMoved ==
    ASSUME InOrder, UNCHANGED <<handles, todo, kept, fed, delivered>>
    PROVE  \E b : Ordered(b)'
<1>1. PICK b : Ordered(b)
  BY DEF InOrder
<1>2. /\ handles' = handles /\ todo' = todo /\ kept' = kept /\ fed' = fed /\ delivered' = delivered
  OBVIOUS
<1>3. Ordered(b)' <=> Ordered(b)
  <2> DEFINE N == Len(handles)
  <2>1. N' = N
    BY <1>2
  <2>2. (\A i \in 1..Len(delivered) : delivered[i].id = i)' <=> \A i \in 1..Len(delivered) : delivered[i].id = i
    BY <1>2
  <2>3. (b \in [0..N -> 0..fed] /\ b[0] = Len(delivered) /\ b[N] = fed)'
          <=> (b \in [0..N -> 0..fed] /\ b[0] = Len(delivered) /\ b[N] = fed)
    BY <1>2
  <2>4. (\A h \in 1..N : /\ b[h - 1] + Len(todo[h]) + Len(kept[h]) = b[h]
                         /\ \A i \in 1..Len(todo[h]) : todo[h][i].id = b[h - 1] + i
                         /\ \A i \in 1..Len(kept[h]) : kept[h][i].id = b[h - 1] + Len(todo[h]) + i)'
          <=> \A h \in 1..N : /\ b[h - 1] + Len(todo[h]) + Len(kept[h]) = b[h]
                              /\ \A i \in 1..Len(todo[h]) : todo[h][i].id = b[h - 1] + i
                              /\ \A i \in 1..Len(kept[h]) : kept[h][i].id = b[h - 1] + Len(todo[h]) + i
    BY <1>2
  <2> QED BY <2>2, <2>3, <2>4, Zenon DEF Ordered
<1> QED BY <1>1, <1>3

\* An empty chain that has taken nothing in.
LEMMA NothingTaken ==
    ASSUME fed' = 0, delivered' = <<>>, handles' \in Seq(Adapters), Len(handles') <= MaxAdapters,
           todo' = [h \in Adapters |-> <<>>], kept' = [h \in Adapters |-> <<>>]
    PROVE  \E b : Ordered(b)'
<1>1. PICK b : b = [h \in 0..Len(handles') |-> 0]
  OBVIOUS
<1>2. Len(handles') \in Nat /\ Len(<<>>) = 0 /\ 0 \in 0..Len(handles') /\ Len(handles') \in 0..Len(handles')
  OBVIOUS
<1>3. b \in [0..Len(handles') -> 0..0] /\ \A h \in 0..Len(handles') : b[h] = 0
  BY <1>1
<1>4. \A h \in 1..Len(handles') : h \in Adapters /\ h - 1 \in 0..Len(handles') /\ h \in 0..Len(handles')
  BY <1>2, ResourceAdapterAssumption DEF Adapters
<1>5. \A h \in 1..Len(handles') : todo'[h] = <<>> /\ kept'[h] = <<>> /\ b[h - 1] = 0 /\ b[h] = 0
  BY <1>3, <1>4
<1>6. Ordered(b)'
  BY <1>2, <1>3, <1>5 DEF Ordered
<1> QED BY <1>6

\* What the invariant says of the chain.
LEMMA ChainIs ==
    ASSUME IInv
    PROVE  /\ Len(handles) \in Nat /\ Len(handles) <= MaxAdapters /\ handles \in Seq(Adapters)
           /\ todo \in [Adapters -> Seq(AnyBlock)] /\ kept \in [Adapters -> Seq(AnyBlock)]
           /\ delivered \in Seq(AnyBlock) /\ fed \in 0..MaxBlocks
           /\ 1..Len(handles) \subseteq Adapters
           /\ \A h \in Adapters : h > Len(handles) => todo[h] = <<>> /\ kept[h] = <<>>
<1>1. /\ handles \in Seq(Adapters) /\ Len(handles) <= Len(seen) /\ Len(seen) <= adapters
      /\ adapters \in Adapters /\ seen \in Seq(Descriptions)
      /\ todo \in [Adapters -> Seq(AnyBlock)] /\ kept \in [Adapters -> Seq(AnyBlock)]
      /\ delivered \in Seq(AnyBlock) /\ fed \in 0..MaxBlocks
  BY DEF IInv, Shape
<1>2. Len(handles) \in Nat /\ Len(seen) \in Nat
  BY <1>1
<1>3. Len(handles) <= MaxAdapters /\ 1..Len(handles) \subseteq Adapters
  BY <1>1, <1>2, ResourceAdapterAssumption DEF Adapters
<1> QED BY <1>1, <1>2, <1>3 DEF IInv, BlocksPassed

\* The blocks of a running handle come before those it keeps, and the numbers rise.
LEMMA BoundariesAre ==
    ASSUME IInv, NEW b, Ordered(b)
    PROVE  /\ \A h \in 0..Len(handles) : b[h] \in Nat /\ b[h] <= fed
           /\ \A h \in 1..Len(handles) : /\ Len(todo[h]) \in Nat /\ Len(kept[h]) \in Nat
                                         /\ b[h - 1] + Len(todo[h]) + Len(kept[h]) = b[h]
<1>1. /\ fed \in Nat /\ b \in [0..Len(handles) -> 0..fed]
      /\ \A h \in 1..Len(handles) : b[h - 1] + Len(todo[h]) + Len(kept[h]) = b[h]
  <2>1. fed \in Nat
    BY ChainIs, ResourceAdapterAssumption
  <2> QED BY <2>1 DEF Ordered
<1>2. \A h \in 1..Len(handles) : todo[h] \in Seq(AnyBlock) /\ kept[h] \in Seq(AnyBlock)
  BY ChainIs
<1> HIDE DEF AnyBlock
<1>3. \A h \in 1..Len(handles) : Len(todo[h]) \in Nat /\ Len(kept[h]) \in Nat
  BY <1>2
<1>4. \A h \in 0..Len(handles) : b[h] \in Nat /\ b[h] <= fed
  BY <1>1
<1> QED BY <1>1, <1>3, <1>4

\* A block that the transport passes in comes after all others.
LEMMA UpdateOrdered ==
    ASSUME IInv, InOrder, NEW writes \in 0..MaxBlocks, Update(writes)
    PROVE  \E c : Ordered(c)'
<1> DEFINE N == Len(handles)
           block == [id |-> fed + 1, through |-> <<>>]
<1>1. PICK b : Ordered(b)
  BY DEF InOrder
<1>2. /\ N \in Nat /\ fed \in Nat /\ fed + 1 \in 1..MaxBlocks /\ fed' = fed + 1 /\ handles' = handles
      /\ UpdatePrefix(N, block, writes, todo)
      /\ todo \in [Adapters -> Seq(AnyBlock)] /\ 1..N \subseteq Adapters
      /\ handles # <<>>
  BY ChainIs, ResourceAdapterAssumption DEF Update, opening, IInv, MetadataPassed, Loading
<1>3. block \in AnyBlock /\ N \in 0..N /\ writes \in Nat /\ N # 0
  <2>1. <<>> \in Seq(Adapters) /\ handles \in Seq(Adapters)
    BY ChainIs
  <2>2. N # 0
    BY <1>2, <2>1, EmptySeq, Zenon
  <2> QED BY <1>2, <2>1, <2>2, ResourceAdapterAssumption DEF AnyBlock
<1>4. \A h \in 1..N : todo[h] = <<>>
  BY <1>2 DEF Update, InOrder
<1>5. /\ b \in [0..N -> 0..fed] /\ b[0] = Len(delivered) /\ b[N] = fed
      /\ \A i \in 1..Len(delivered) : delivered[i].id = i
      /\ \A h \in 1..N :
           /\ b[h - 1] + Len(todo[h]) + Len(kept[h]) = b[h]
           /\ \A i \in 1..Len(todo[h]) : todo[h][i].id = b[h - 1] + i
           /\ \A i \in 1..Len(kept[h]) : kept[h][i].id = b[h - 1] + Len(todo[h]) + i
  BY <1>1 DEF Ordered
<1>6. b \in [0..N -> 0..fed'] /\ \A h \in 1..N : From(b, N, h) = b[h - 1]
  <2>1. \A h \in 0..N : b[h] \in 0..fed'
    BY <1>2, <1>5
  <2>2. \A h \in 1..N : b[h - 1] \in Nat /\ h - 1 # N
    BY <1>2, <1>5
  <2> QED BY <1>5, <2>1, <2>2 DEF From
<1> HIDE DEF block
<1>7. Handed(b, N, todo, fed')
  <2>1. N \in 0..N /\ b[N] + 1 <= fed' /\ b[N] + (IF N = N THEN 1 ELSE 0) = fed'
    BY <1>2, <1>5
  <2> QED BY <1>5, <1>6, <2>1 DEF Handed
<1>8. block.id = b[N] + 1 /\ fed' \in Nat /\ todo[N] = <<>>
  <2>1. N \in 1..N
    BY <1>2, <1>3
  <2> QED BY <1>2, <1>4, <1>5, <2>1 DEF block
<1> QED BY <1>2, <1>3, <1>7, <1>8, PrefixOrdered

\* A block that a handle gives to the one before it, or to the consumer.
LEMMA ForwardOrdered ==
    ASSUME IInv, InOrder, NEW h \in Adapters, NEW writes \in 0..MaxBlocks, Forward(h, writes)
    PROVE  /\ \E c : Ordered(c)'
           /\ h = 1 => /\ Len(delivered) < fed
                       /\ delivered' = Append(delivered, Head(todo[h]))
                       /\ Head(todo[h]).id = Len(delivered) + 1
           /\ h # 1 => delivered' = delivered
<1> DEFINE N == Len(handles)
           n == h - 1
           block == Head(todo[h])
           calls == [todo EXCEPT ![h] = Tail(@)]
<1>1. PICK b : Ordered(b)
  BY DEF InOrder
<1>2. /\ todo[h] # <<>> /\ \A g \in 1..(h - 1) : todo[g] = <<>>
      /\ UpdatePrefix(n, block, writes, calls)
      /\ fed' = fed /\ handles' = handles
  BY DEF Forward, Running, Before, opening
<1>3. /\ N \in Nat /\ h \in 1..N /\ n \in 0..N /\ h \in Nat /\ fed \in Nat /\ writes \in Nat
      /\ todo \in [Adapters -> Seq(AnyBlock)] /\ 1..N \subseteq Adapters
  <2>1. /\ N \in Nat /\ fed \in 0..MaxBlocks /\ todo \in [Adapters -> Seq(AnyBlock)]
        /\ 1..N \subseteq Adapters /\ (h > N => todo[h] = <<>>)
    BY ChainIs
  <2>2. h \in 1..MaxAdapters /\ ~(h > N)
    BY <1>2, <2>1 DEF Adapters
  <2>3. h \in Nat /\ h \in 1..N /\ n \in 0..N
    BY <2>1, <2>2, ResourceAdapterAssumption
  <2> QED BY <2>1, <2>3, ResourceAdapterAssumption
<1>4. /\ block \in AnyBlock /\ Tail(todo[h]) \in Seq(AnyBlock) /\ Len(todo[h]) \in Nat \ {0}
      /\ Len(Tail(todo[h])) = Len(todo[h]) - 1 /\ block = todo[h][1]
      /\ \A i \in 1..(Len(todo[h]) - 1) : Tail(todo[h])[i] = todo[h][i + 1]
  <2>1. todo[h] \in Seq(AnyBlock) /\ todo[h] # <<>>
    BY <1>2, <1>3
  <2> DEFINE q == todo[h]
  <2> HIDE DEF AnyBlock, q
  <2>2. q \in Seq(AnyBlock) /\ q # <<>>
    BY <2>1 DEF q
  <2>3. /\ Head(q) \in AnyBlock /\ Tail(q) \in Seq(AnyBlock) /\ Len(q) \in Nat \ {0}
        /\ Len(Tail(q)) = Len(q) - 1 /\ Head(q) = q[1]
        /\ \A i \in 1..(Len(q) - 1) : Tail(q)[i] = q[i + 1]
    BY <2>2
  <2> QED BY <2>3 DEF q
<1>5. /\ calls \in [Adapters -> Seq(AnyBlock)]
      /\ \A g \in Adapters : calls[g] = IF g = h THEN Tail(todo[h]) ELSE todo[g]
  BY <1>3, <1>4
<1>6. n # 0 => calls[n] = <<>>
  BY <1>2, <1>3, <1>5
<1>7. /\ b \in [0..N -> 0..fed] /\ b[0] = Len(delivered) /\ b[N] = fed
      /\ \A i \in 1..Len(delivered) : delivered[i].id = i
      /\ \A g \in 1..N :
           /\ b[g - 1] + Len(todo[g]) + Len(kept[g]) = b[g]
           /\ \A i \in 1..Len(todo[g]) : todo[g][i].id = b[g - 1] + i
           /\ \A i \in 1..Len(kept[g]) : kept[g][i].id = b[g - 1] + Len(todo[g]) + i
  BY <1>1 DEF Ordered
<1>8. /\ \A g \in 0..N : b[g] \in Nat /\ b[g] <= fed
      /\ \A g \in 1..N : Len(todo[g]) \in Nat /\ Len(kept[g]) \in Nat
  BY <1>1, BoundariesAre
<1>9. b[n] + 1 <= fed
  <2>1. b[n] + Len(todo[h]) + Len(kept[h]) = b[h] /\ b[h] <= fed /\ b[n] \in Nat /\ b[h] \in Nat
        /\ Len(kept[h]) \in Nat
    BY <1>3, <1>7, <1>8
  <2>2. PICK x \in Nat : x = b[n]
    BY <2>1
  <2>3. PICK y \in Nat : y = b[h]
    BY <2>1
  <2>4. PICK z \in Nat \ {0} : z = Len(todo[h])
    BY <1>4
  <2>5. PICK w \in Nat : w = Len(kept[h])
    BY <2>1
  <2>6. x + z + w = y /\ y <= fed
    BY <2>1, <2>2, <2>3, <2>4, <2>5, Zenon
  <2>7. x + 1 <= fed
    BY <1>3, <2>6
  <2> QED BY <2>2, <2>7, Zenon
<1>10. block.id = b[n] + 1
  BY <1>3, <1>4, <1>7
<1> HIDE DEF block, calls
<1>11. \A g \in 1..N :
         /\ From(b, n, g) + Len(calls[g]) + Len(kept[g]) = b[g]
         /\ \A i \in 1..Len(calls[g]) : calls[g][i].id = From(b, n, g) + i
         /\ \A i \in 1..Len(kept[g]) : kept[g][i].id = From(b, n, g) + Len(calls[g]) + i
  <2> TAKE g \in 1..N
  <2>0. g \in Adapters /\ g - 1 \in 0..N /\ b[g - 1] \in Nat
    <3>1. N \in Nat /\ 1..N \subseteq Adapters
      BY <1>3
    <3>2. g \in Adapters /\ g - 1 \in 0..N
      BY <3>1
    <3> QED BY <1>8, <3>2, Zenon
  <2>1. CASE g = h
    <3>1. /\ calls[g] = Tail(todo[h]) /\ Len(calls[g]) = Len(todo[h]) - 1
          /\ b[n] + Len(todo[h]) + Len(kept[h]) = b[h] /\ Len(kept[h]) \in Nat /\ b[n] \in Nat
      BY <1>4, <1>5, <1>7, <1>8, <2>0, <2>1
    <3>2. From(b, n, g) = b[n] + 1
      BY <2>1, <3>1 DEF From
    <3>3. b[n] + 1 + Len(calls[g]) + Len(kept[g]) = b[g]
      BY <1>4, <2>1, <3>1
    <3>4. \A i \in 1..Len(calls[g]) : calls[g][i].id = b[n] + 1 + i
      <4> TAKE i \in 1..Len(calls[g])
      <4>1. i \in 1..(Len(todo[h]) - 1) /\ i + 1 \in 1..Len(todo[h])
        <5>1. PICK L \in Nat : L = Len(todo[h]) /\ L > 0
          BY <1>4
        <5>2. i \in 1..(L - 1)
          BY <3>1, <5>1
        <5>3. i + 1 \in 1..L
          BY <5>1, <5>2
        <5> QED BY <5>1, <5>2, <5>3
      <4>2. calls[g][i] = todo[h][i + 1] /\ todo[h][i + 1].id = b[n] + (i + 1)
        BY <1>3, <1>4, <1>7, <3>1, <4>1
      <4> QED BY <3>1, <4>1, <4>2
    <3>5. \A i \in 1..Len(kept[g]) : kept[g][i].id = b[n] + 1 + Len(calls[g]) + i
      <4> TAKE i \in 1..Len(kept[g])
      <4>1. kept[h][i].id = b[n] + Len(todo[h]) + i
        BY <1>3, <1>7, <2>1
      <4>2. b[n] + 1 + Len(calls[g]) + i = b[n] + Len(todo[h]) + i
        BY <1>4, <3>1
      <4> QED BY <2>1, <4>1, <4>2
    <3> QED BY <3>2, <3>3, <3>4, <3>5
  <2>2. CASE g # h
    <3>1. calls[g] = todo[g] /\ g - 1 # n
      BY <1>3, <1>5, <2>0, <2>2
    <3>2. From(b, n, g) = b[g - 1]
      BY <2>0, <3>1 DEF From
    <3> QED BY <1>7, <3>1, <3>2
  <2> QED BY <2>1, <2>2
<1>12. Handed(b, n, calls, fed)
  <2>1. n # N
    BY <1>3
  <2>2. b[N] + 0 = fed
    BY <1>3, <1>7
  <2> HIDE DEF n
  <2> QED BY <1>7, <1>9, <1>11, <2>1, <2>2 DEF Handed
<1>13. \E c : Ordered(c)'
  <2> HIDE DEF n
  <2> QED BY <1>2, <1>3, <1>4, <1>5, <1>6, <1>10, <1>12, PrefixOrdered
<1>14. h = 1 => /\ Len(delivered) < fed
                /\ delivered' = Append(delivered, block)
                /\ block.id = Len(delivered) + 1
  <2> SUFFICES ASSUME h = 1
               PROVE  /\ Len(delivered) < fed
                      /\ delivered' = Append(delivered, block)
                      /\ block.id = Len(delivered) + 1
    OBVIOUS
  <2>1. n = 0 /\ b[n] = Len(delivered) /\ b[n] \in Nat
    BY <1>3, <1>7, <1>8
  <2>2. delivered' = Append(delivered, block)
    BY <1>2, <2>1 DEF UpdatePrefix
  <2> QED BY <1>3, <1>9, <1>10, <2>1, <2>2
<1>15. h # 1 => delivered' = delivered
  <2>1. h # 1 => n # 0
    BY <1>3
  <2> QED BY <1>2, <2>1 DEF UpdatePrefix
<1> QED BY <1>13, <1>14, <1>15 DEF block

\* A final() moves what the next handle keeps to what it has yet to write.
LEMMA FinalOrdered ==
    ASSUME IInv, InOrder, FinalNext
    PROVE  \E c : Ordered(c)'
<1>1. PICK b : Ordered(b)
  BY DEF InOrder
<1>2. /\ \A h \in Adapters : todo[h] = <<>>
      /\ todo' = [todo EXCEPT ![count] = kept[count]]
      /\ kept' = [kept EXCEPT ![count] = <<>>]
      /\ handles' = handles /\ fed' = fed /\ delivered' = delivered
      /\ todo \in [Adapters -> Seq(AnyBlock)] /\ kept \in [Adapters -> Seq(AnyBlock)]
      /\ 1..Len(handles) \subseteq Adapters
  BY ChainIs DEF FinalNext, Settled, opening
<1>3. /\ b \in [0..Len(handles) -> 0..fed] /\ b[0] = Len(delivered) /\ b[Len(handles)] = fed
      /\ \A i \in 1..Len(delivered) : delivered[i].id = i
  BY <1>1 DEF Ordered
<1>4. \A h \in 1..Len(handles) :
        /\ b[h - 1] + Len(todo'[h]) + Len(kept'[h]) = b[h]
        /\ \A i \in 1..Len(todo'[h]) : todo'[h][i].id = b[h - 1] + i
        /\ \A i \in 1..Len(kept'[h]) : kept'[h][i].id = b[h - 1] + Len(todo'[h]) + i
  <2> TAKE h \in 1..Len(handles)
  <2>1. /\ b[h - 1] + Len(todo[h]) + Len(kept[h]) = b[h]
        /\ \A i \in 1..Len(todo[h]) : todo[h][i].id = b[h - 1] + i
        /\ \A i \in 1..Len(kept[h]) : kept[h][i].id = b[h - 1] + Len(todo[h]) + i
    BY <1>1 DEF Ordered
  <2>2. CASE h # count
    <3>1. todo'[h] = todo[h] /\ kept'[h] = kept[h]
      BY <1>2, <2>2
    <3> QED BY <2>1, <3>1
  <2>3. CASE h = count
    <3>1. todo'[h] = kept[h] /\ kept'[h] = <<>> /\ todo[h] = <<>>
      BY <1>2, <2>3
    <3>2. PICK x \in Nat : x = b[h - 1]
      <4>1. h - 1 \in 0..Len(handles) /\ fed \in Nat
        BY ChainIs, ResourceAdapterAssumption
      <4> QED BY <1>3, <4>1
    <3>3. PICK y \in Nat : y = Len(kept[h])
      BY <1>1, BoundariesAre
    <3>4. Len(<<>>) = 0 /\ x + 0 = x /\ x + y + 0 = x + y
      OBVIOUS
    <3>5. x + y = b[h] /\ \A i \in 1..y : kept[h][i].id = x + i
      BY <2>1, <3>1, <3>2, <3>3, <3>4, Zenon
    <3>6. /\ x + Len(todo'[h]) + Len(kept'[h]) = b[h]
          /\ \A i \in 1..Len(todo'[h]) : todo'[h][i].id = x + i
      BY <3>1, <3>3, <3>4, <3>5, Zenon
    <3>7. Len(kept'[h]) = 0
      BY <3>1, <3>4
    <3> QED BY <3>2, <3>6, <3>7
  <2> QED BY <2>2, <2>3
<1>5. Ordered(b)'
  BY <1>2, <1>3, <1>4 DEF Ordered
<1> QED BY <1>5

\* With nothing left in the chain every block has left it.
LEMMA AllGiven ==
    ASSUME IInv, InOrder, FinalReturns
    PROVE  Len(delivered) = fed
<1> DEFINE N == Len(handles)
<1>1. PICK b : Ordered(b)
  BY DEF InOrder
<1>2. /\ N \in Nat /\ 1..N \subseteq Adapters
      /\ \A h \in 1..N : todo[h] = <<>> /\ kept[h] = <<>>
  <2>1. N \in Nat /\ 1..N \subseteq Adapters
    BY ChainIs
  <2>2. \A h \in 1..N : todo[h] = <<>> /\ kept[h] = <<>>
    BY <2>1 DEF FinalReturns, Settled, IInv, FinalizedFromTheEnd
  <2> QED BY <2>1, <2>2
<1>3. /\ \A h \in 0..N : b[h] \in Nat
      /\ \A h \in 1..N : b[h - 1] + Len(todo[h]) + Len(kept[h]) = b[h]
  BY <1>1, BoundariesAre
<1>4. \A h \in 1..N : b[h - 1] = b[h]
  <2> TAKE h \in 1..N
  <2>1. Len(todo[h]) = 0 /\ Len(kept[h]) = 0 /\ b[h - 1] \in Nat
    BY <1>2, <1>3
  <2> QED BY <1>3, <2>1
<1> DEFINE Same == {h \in Nat : h <= N => b[h] = b[0]}
<1>5. 0 \in Same
  BY <1>2
<1>6. \A h \in Same : h + 1 \in Same
  <2> TAKE h \in Same
  <2>1. h \in Nat /\ (h <= N => b[h] = b[0])
    OBVIOUS
  <2>2. CASE h + 1 <= N
    <3>1. h + 1 \in 1..N /\ (h + 1) - 1 = h /\ h <= N
      BY <1>2, <2>1, <2>2
    <3> QED BY <1>4, <2>1, <3>1
  <2> QED BY <2>1, <2>2
<1>7. N \in Same
  <2>1. Same \in SUBSET Nat
    OBVIOUS
  <2> HIDE DEF Same
  <2> QED BY <1>2, <1>5, <1>6, <2>1, SetInduction
<1> QED BY <1>1, <1>2, <1>7 DEF Ordered

\* Every step keeps the blocks in order.
LEMMA OrderStep ==
    ASSUME IInv, InOrder, [Next]_vars
    PROVE  InOrder'
<1>0. IInv'
  BY NextInv
<1>1. /\ phase' \in {"opening", "opened", "responding"} => fed' = 0
      /\ phase' = "ready" => \A h \in Adapters : todo'[h] = <<>>
  <2>1. CASE (\E rewrites, hasHandle \in BOOLEAN : OpenNext(rewrites, hasHandle)) \/ OpenFails \/ Opened
    BY <2>1 DEF OpenNext, OpenFails, Opened, streaming, InOrder
  <2>2. CASE OnResponse \/ Normalize
    BY <2>2 DEF OnResponse, Normalize, streaming, InOrder
  <2>3. CASE ResponseReturns
    BY <2>3 DEF ResponseReturns, streaming, IInv, NothingYet
  <2>4. CASE \E writes \in 0..MaxBlocks : Update(writes)
    BY <2>4 DEF Update
  <2>5. CASE \E h \in Adapters, writes \in 0..MaxBlocks : Forward(h, writes)
    BY <2>5 DEF Forward, Busy
  <2>6. CASE UpdateReturns
    BY <2>6 DEF UpdateReturns, Settled, streaming
  <2>7. CASE FinalNext
    BY <2>7 DEF FinalNext
  <2>8. CASE Final \/ FinalReturns \/ Abort \/ UNCHANGED vars
    BY <2>8 DEF Final, FinalReturns, Abort, vars, streaming, InOrder
  <2> QED BY <2>1, <2>2, <2>3, <2>4, <2>5, <2>6, <2>7, <2>8 DEF Next
<1>2. \E b : Ordered(b)'
  <2>1. CASE (\E rewrites, hasHandle \in BOOLEAN : OpenNext(rewrites, hasHandle)) \/ OpenFails
    <3>1. /\ phase = "opening" /\ UNCHANGED streaming
      BY <2>1 DEF OpenNext, OpenFails
    <3>2. /\ fed' = 0 /\ delivered' = <<>>
          /\ todo' = [h \in Adapters |-> <<>>] /\ kept' = [h \in Adapters |-> <<>>]
      BY <3>1 DEF streaming, InOrder, IInv, NothingYet
    <3>3. handles' \in Seq(Adapters) /\ Len(handles') <= MaxAdapters
      <4>1. /\ handles' \in Seq(Adapters) /\ Len(handles') <= Len(seen') /\ Len(seen') <= adapters'
            /\ adapters' \in Adapters /\ seen' \in Seq(Descriptions)
        BY <1>0 DEF IInv, Shape
      <4> HIDE DEF Descriptions
      <4>2. Len(handles') \in Nat /\ Len(seen') \in Nat
        BY <4>1
      <4> QED BY <4>1, <4>2, ResourceAdapterAssumption DEF Adapters
    <3> QED BY <3>2, <3>3, NothingTaken
  <2>2. CASE Opened \/ OnResponse \/ Normalize \/ ResponseReturns \/ UpdateReturns \/ Final \/ FinalReturns \/ Abort \/ UNCHANGED vars
    <3>1. UNCHANGED <<handles, todo, kept, fed, delivered>>
      BY <2>2 DEF Opened, OnResponse, Normalize, ResponseReturns, UpdateReturns, Final,
                  FinalReturns, Abort, vars, opening, streaming
    <3> QED BY <3>1, NothingMoved
  <2>3. CASE \E writes \in 0..MaxBlocks : Update(writes)
    BY <2>3, UpdateOrdered
  <2>4. CASE \E h \in Adapters, writes \in 0..MaxBlocks : Forward(h, writes)
    BY <2>4, ForwardOrdered
  <2>5. CASE FinalNext
    BY <2>5, FinalOrdered
  <2> QED BY <2>1, <2>2, <2>3, <2>4, <2>5 DEF Next
<1> QED BY <1>1, <1>2 DEF InOrder

\* The empty chain is in order.
LEMMA OrderInit == Init => InOrder
<1> SUFFICES ASSUME Init PROVE InOrder
  OBVIOUS
<1>1. PICK b : b = [h \in 0..0 |-> 0]
  OBVIOUS
<1>2. /\ handles = <<>> /\ delivered = <<>> /\ fed = 0 /\ phase = "opening"
      /\ Len(handles) = 0 /\ Len(delivered) = 0
  BY DEF Init
<1>3. b \in [0..0 -> 0..0] /\ b[0] = 0
  BY <1>1
<1>4. Ordered(b)
  BY <1>2, <1>3 DEF Ordered
<1> QED BY <1>2, <1>4 DEF InOrder

-----------------------------------------------------------------------------

\* The numbers of a sequence's blocks, which Promise takes for what was given.
Numbers(blocks) == [i \in DOMAIN blocks |-> blocks[i].id]

\* One more block written is the next number given.
LEMMA NumbersAre ==
    ASSUME NEW d \in Seq(AnyBlock), NEW block \in AnyBlock, block.id = Len(d) + 1
    PROVE  /\ Len(Numbers(d)) = Len(d)
           /\ Numbers(Append(d, block)) = Append(Numbers(d), Len(Numbers(d)) + 1)
<1> DEFINE more == Append(d, block)
<1>1. \A i \in 1..Len(d) : d[i].id \in Nat
  <2>1. \A x \in AnyBlock : x.id \in Nat
    BY ResourceAdapterAssumption DEF AnyBlock
  <2> HIDE DEF AnyBlock
  <2> QED BY <2>1
<1> HIDE DEF AnyBlock
<1>2. /\ Len(d) \in Nat /\ DOMAIN d = 1..Len(d) /\ DOMAIN more = 1..(Len(d) + 1)
      /\ more[Len(d) + 1] = block /\ \A i \in 1..Len(d) : more[i] = d[i]
  OBVIOUS
<1> HIDE DEF more
<1>3. Numbers(d) \in Seq(Nat) /\ Len(Numbers(d)) = Len(d) /\ \A i \in 1..Len(d) : Numbers(d)[i] = d[i].id
  BY <1>1, <1>2 DEF Numbers
<1>4. Numbers(more) = [i \in 1..(Len(d) + 1) |-> more[i].id]
  BY <1>2 DEF Numbers
<1>5. \A i \in 1..(Len(d) + 1) : more[i].id = Append(Numbers(d), Len(d) + 1)[i]
  <2> TAKE i \in 1..(Len(d) + 1)
  <2>1. CASE i = Len(d) + 1
    BY <1>2, <1>3, <2>1
  <2>2. CASE i # Len(d) + 1
    <3>1. i \in 1..Len(d)
      BY <1>2, <2>2
    <3> QED BY <1>2, <1>3, <3>1
  <2> QED BY <2>1, <2>2
<1>6. /\ DOMAIN Append(Numbers(d), Len(d) + 1) = 1..(Len(d) + 1)
      /\ Append(Numbers(d), Len(d) + 1) \in Seq(Nat)
  BY <1>2, <1>3
<1>7. Append(Numbers(d), Len(d) + 1)
        = [i \in DOMAIN Append(Numbers(d), Len(d) + 1) |-> Append(Numbers(d), Len(d) + 1)[i]]
  BY <1>6
<1>8. Numbers(more) = Append(Numbers(d), Len(d) + 1)
  BY <1>4, <1>5, <1>6, <1>7
<1> QED BY <1>3, <1>8 DEF more

\* The chain begins as a handle does, and every step of it is one of a handle's or none.
LEMMA PromiseInit == Init => Promise!Init
<1>1. DOMAIN <<>> = {} /\ [i \in {} |-> <<>>[i].id] = <<>>
  OBVIOUS
<1> QED BY <1>1 DEF Init, Promise!Init

\* What Promise takes for the call the transport is in.
State == IF phase \in {"opening", "responding"} THEN "opened" ELSE phase

LEMMA PromiseStep ==
    ASSUME IInv, InOrder, [Next]_vars
    PROVE  [Promise!Next]_(Promise!vars)
<1> USE DEF Promise!Busy, Promise!Over, Promise!vars
<1>1. CASE (\E rewrites, hasHandle \in BOOLEAN : OpenNext(rewrites, hasHandle)) \/ Opened \/ OnResponse \/ Normalize \/ UNCHANGED vars
  <2>1. State' = State /\ fed' = fed /\ delivered' = delivered
    BY <1>1 DEF OpenNext, Opened, OnResponse, Normalize, vars, streaming, State
  <2> QED BY <2>1 DEF State
<1>2. CASE OpenFails \/ Abort
  <2>1. Promise!Fail
    BY <1>2 DEF OpenFails, Abort, streaming, Promise!Fail
  <2> QED BY <2>1 DEF Promise!Next
<1>3. CASE ResponseReturns
  <2>1. Promise!OnResponse
    BY <1>3 DEF ResponseReturns, streaming, Promise!OnResponse
  <2> QED BY <2>1 DEF Promise!Next
<1>4. CASE \E writes \in 0..MaxBlocks : Update(writes)
  <2>1. PICK writes \in 0..MaxBlocks : Update(writes)
    BY <1>4
  <2>2. handles # <<>>
    BY <2>1 DEF Update, IInv, MetadataPassed, Loading
  <2>3. Len(handles) # 0
    BY <2>2, ChainIs, EmptySeq, Zenon
  <2>4. delivered' = delivered
    BY <2>1, <2>3 DEF Update, UpdatePrefix
  <2>5. Promise!Update
    BY <2>1, <2>4 DEF Update, Promise!Update
  <2> QED BY <2>5 DEF Promise!Next
<1>5. CASE \E h \in Adapters, writes \in 0..MaxBlocks : Forward(h, writes)
  <2>1. PICK h \in Adapters, writes \in 0..MaxBlocks : Forward(h, writes)
    BY <1>5
  <2>2. phase' = phase /\ fed' = fed /\ phase \in {"updating", "finalizing"}
    BY <2>1 DEF Forward, Busy
  <2>3. CASE h # 1
    <3>1. delivered' = delivered
      BY <2>1, <2>3, ForwardOrdered
    <3> QED BY <2>2, <3>1
  <2>4. CASE h = 1
    <3>1. /\ Len(delivered) < fed /\ delivered' = Append(delivered, Head(todo[h]))
          /\ Head(todo[h]).id = Len(delivered) + 1
      BY <2>1, <2>4, ForwardOrdered
    <3>2. Head(todo[h]) \in AnyBlock /\ delivered \in Seq(AnyBlock)
      <4>1. todo[h] \in Seq(AnyBlock) /\ todo[h] # <<>> /\ delivered \in Seq(AnyBlock)
        BY <2>1, ChainIs DEF Forward, Running
      <4> HIDE DEF AnyBlock
      <4> QED BY <4>1
    <3>3. /\ Len(Numbers(delivered)) < fed
          /\ Numbers(delivered') = Append(Numbers(delivered), Len(Numbers(delivered)) + 1)
      BY <3>1, <3>2, NumbersAre
    <3>4. Promise!Write
      BY <2>2, <3>3 DEF Promise!Write, Numbers
    <3> QED BY <3>4 DEF Promise!Next
  <2> QED BY <2>3, <2>4
<1>6. CASE UpdateReturns
  <2>1. Promise!UpdateReturns
    BY <1>6 DEF UpdateReturns, streaming, Promise!UpdateReturns
  <2> QED BY <2>1 DEF Promise!Next
<1>7. CASE Final
  <2>1. Promise!Final
    BY <1>7 DEF Final, streaming, Promise!Final
  <2> QED BY <2>1 DEF Promise!Next
<1>8. CASE FinalNext
  <2>1. phase' = phase /\ fed' = fed /\ delivered' = delivered
    BY <1>8 DEF FinalNext, opening
  <2> QED BY <2>1
<1>9. CASE FinalReturns
  <2>1. Len(delivered) = fed /\ delivered \in Seq(AnyBlock)
    BY <1>9, AllGiven, ChainIs
  <2>2. Len(Numbers(delivered)) = fed
    <3> HIDE DEF AnyBlock
    <3>1. DOMAIN delivered = 1..Len(delivered) /\ Len(delivered) \in Nat
      BY <2>1
    <3> QED BY <2>1, <3>1 DEF Numbers
  <2>3. Promise!FinalReturns
    BY <1>9, <2>2 DEF FinalReturns, streaming, Promise!FinalReturns, Numbers
  <2> QED BY <2>3 DEF Promise!Next
<1> QED BY <1>1, <1>2, <1>3, <1>4, <1>5, <1>6, <1>7, <1>8, <1>9 DEF Next

\* A chain of handles is a handle: blocks leave it in the order in which they came in,
\* none twice and none too early, and none is left in it once final() has answered,
\* for chains and responses of any length and whatever each handle keeps back.
THEOREM ChainsAreHandles == Spec => KeepsThePromise
<1>1. Init => IInv /\ InOrder
  BY InitInv, OrderInit
<1>2. IInv /\ InOrder /\ [Next]_vars => (IInv /\ InOrder)'
  BY NextInv, OrderStep
<1>3. IInv /\ InOrder /\ [Next]_vars => [Promise!Next]_(Promise!vars)
  BY PromiseStep
<1> QED BY <1>1, <1>2, <1>3, PromiseInit, PTL DEF Spec, Promise!Spec, KeepsThePromise

=============================================================================

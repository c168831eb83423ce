---------------------------- MODULE DecisionProofs ----------------------------
(***************************************************************************)
(* Theorems about the algo engine's decisions: the regime that is in force *)
(* for a bar, and the trailing stops of its open positions.                *)
(***************************************************************************)
EXTENDS SignalDecision, TrailingStops, SequenceTheorems, TLAPS


-----------------------------------------------------------------------------
(* The regime.                                                             *)

\* The bars that speak for the candidate are the last ones that were classified.
Nth(i) == recent[Len(recent) - regime.count + i]

CandidateInv ==
    /\ regime.count \in 0..(Hysteresis - 1)
    /\ regime.count <= Len(recent)
    /\ \A i \in 1..regime.count : Nth(i).raw = regime.candidate
    /\ regime.candidate = "REVERSAL" => \A i \in 1..(regime.count - 1) : Nth(i).flat

\* A bar that is no trend though its ADX is high has equal averages.
LastBarInv ==
    /\ regime.prevAdx \in Int
    /\ recent # <<>> /\ recent[Len(recent)].raw = "REVERSAL" /\ regime.prevAdx > 40
          => recent[Len(recent)].flat

RawRegimes == {"HIGH_VOLATILITY", "TRENDING_UP", "TRENDING_DOWN", "REVERSAL", "RANGING"}

RegimeInv ==
    /\ regime = [current |-> regime.current, candidate |-> regime.candidate, count |-> regime.count,
                 prevAdx |-> regime.prevAdx, atrs |-> regime.atrs]
    /\ recent \in Seq([raw : RawRegimes, flat : BOOLEAN])
    /\ Len(recent) <= Hysteresis
    /\ CandidateInv
    /\ LastBarInv

\* The features of a bar that the regime reads.
ReadFeatures(f) == f.adx \in Int /\ f.emaFast \in Int /\ f.emaSlow \in Int

\* A bar says REVERSAL only after a strong one, and is flat if it is strong itself.
LEMMA RawFacts ==
    ASSUME NEW r, NEW f, r.prevAdx \in Int, ReadFeatures(f)
    PROVE  /\ ClassifyRaw(r, f) \in RawRegimes
           /\ ClassifyRaw(r, f) = "REVERSAL" => r.prevAdx > 40 /\ (f.adx > 40 => Flat(f))
<1> DEFINE volatile == LET limit == IF r.current = "HIGH_VOLATILITY" THEN 150 ELSE 200
                       IN  AtrSum(r) > 0 /\ 100 * f.atr * Len(r.atrs) > limit * AtrSum(r)
           strong == f.emaSlow > 0 /\ f.adx > (IF r.current \in Trending THEN 23 ELSE 27)
           turning == /\ r.prevAdx # Missing /\ r.prevAdx > 40 /\ f.adx < r.prevAdx
                      /\ f.rsi > 70 \/ f.rsi < 30
<1>1. ClassifyRaw(r, f) = IF volatile THEN "HIGH_VOLATILITY"
                          ELSE IF strong /\ f.emaFast > f.emaSlow THEN "TRENDING_UP"
                          ELSE IF strong /\ f.emaFast < f.emaSlow THEN "TRENDING_DOWN"
                          ELSE IF turning THEN "REVERSAL" ELSE "RANGING"
  BY DEF ClassifyRaw
<1> HIDE DEF volatile
<1>2. turning => r.prevAdx > 40
  OBVIOUS
<1>3. ~(strong /\ f.emaFast > f.emaSlow) /\ ~(strong /\ f.emaFast < f.emaSlow) /\ f.adx > 40 => Flat(f)
  BY DEF Flat, ReadFeatures
<1> HIDE DEF turning, strong
<1> QED
  BY <1>1, <1>2, <1>3 DEF RawRegimes

\* What a step may never do to the regime.
ConfirmedChange ==
    regime'.current # regime.current =>
       /\ Len(recent') = Hysteresis
       /\ \A i \in 1..Hysteresis : recent'[i].raw = regime'.current
       /\ regime'.current = "REVERSAL" => \A i \in 1..(Hysteresis - 1) : recent'[i].flat

\* One bar more in a window of Hysteresis bars.
LEMMA WindowMoves ==
    ASSUME NEW S, NEW s \in Seq(S), NEW e \in S, Len(s) <= Hysteresis,
           NEW t, t = Append(IF Len(s) = Hysteresis THEN Tail(s) ELSE s, e)
    PROVE  /\ t \in Seq(S) /\ Len(t) \in 1..Hysteresis /\ t[Len(t)] = e
           /\ Len(t) >= Len(s) /\ (Len(s) < Hysteresis => Len(t) = Len(s) + 1)
           /\ \A m \in 1..(Len(t) - 1) : t[Len(t) - m] = s[Len(s) - m + 1]
<1>1. Hysteresis \in Nat \ {0} /\ Len(s) \in Nat
  BY DecisionAssumption
<1>2. CASE Len(s) = Hysteresis
  <2>1. s # <<>>
    BY <1>1, <1>2
  <2>2. /\ Tail(s) \in Seq(S) /\ Len(Tail(s)) = Len(s) - 1
        /\ \A i \in 1..(Len(s) - 1) : Tail(s)[i] = s[i + 1]
    BY <2>1, HeadTailProperties
  <2>3. /\ t \in Seq(S) /\ Len(t) = Len(s) /\ t[Len(t)] = e
        /\ \A i \in 1..(Len(s) - 1) : t[i] = s[i + 1]
    BY <1>1, <1>2, <2>2, AppendProperties
  <2> QED
    BY <1>1, <1>2, <2>3
<1>3. CASE Len(s) # Hysteresis
  <2>1. /\ t \in Seq(S) /\ Len(t) = Len(s) + 1 /\ t[Len(t)] = e
        /\ \A i \in 1..Len(s) : t[i] = s[i]
    BY <1>1, <1>3, AppendProperties
  <2> QED
    BY <1>1, <1>3, <2>1
<1> QED
  BY <1>2, <1>3

\* The records that ApplyHysteresis makes of a regime.
LEMMA RegimeRecord ==
    ASSUME NEW r, NEW raw, NEW n,
           r = [current |-> r.current, candidate |-> r.candidate, count |-> r.count,
                prevAdx |-> r.prevAdx, atrs |-> r.atrs]
    PROVE  /\ [r EXCEPT !.candidate = "none", !.count = 0]
                = [current |-> r.current, candidate |-> "none", count |-> 0,
                   prevAdx |-> r.prevAdx, atrs |-> r.atrs]
           /\ [r EXCEPT !.current = raw, !.candidate = "none", !.count = 0]
                = [current |-> raw, candidate |-> "none", count |-> 0,
                   prevAdx |-> r.prevAdx, atrs |-> r.atrs]
           /\ [r EXCEPT !.candidate = raw, !.count = n]
                = [current |-> r.current, candidate |-> raw, count |-> n,
                   prevAdx |-> r.prevAdx, atrs |-> r.atrs]
<1> DEFINE current == r.current
           candidate == r.candidate
           count == r.count
           prevAdx == r.prevAdx
           atrs == r.atrs
           idle == [r EXCEPT !.candidate = "none"]
           moved == [r EXCEPT !.current = raw]
           gone == [moved EXCEPT !.candidate = "none"]
           named == [r EXCEPT !.candidate = raw]
<1>1. r = [current |-> current, candidate |-> candidate, count |-> count,
           prevAdx |-> prevAdx, atrs |-> atrs]
  OBVIOUS
<1> HIDE DEF current, candidate, count, prevAdx, atrs
<1>2. /\ idle = [current |-> current, candidate |-> "none", count |-> count,
                 prevAdx |-> prevAdx, atrs |-> atrs]
      /\ moved = [current |-> raw, candidate |-> candidate, count |-> count,
                  prevAdx |-> prevAdx, atrs |-> atrs]
      /\ named = [current |-> current, candidate |-> raw, count |-> count,
                  prevAdx |-> prevAdx, atrs |-> atrs]
  BY <1>1
<1>3. gone = [current |-> raw, candidate |-> "none", count |-> count,
              prevAdx |-> prevAdx, atrs |-> atrs]
  <2> HIDE DEF moved
  <2> QED
    BY <1>2
<1>4. [idle EXCEPT !.count = 0] = [current |-> current, candidate |-> "none", count |-> 0,
                                   prevAdx |-> prevAdx, atrs |-> atrs]
  <2> HIDE DEF idle
  <2> QED
    BY <1>2
<1>5. [gone EXCEPT !.count = 0] = [current |-> raw, candidate |-> "none", count |-> 0,
                                   prevAdx |-> prevAdx, atrs |-> atrs]
  <2> HIDE DEF gone
  <2> QED
    BY <1>3
<1>6. [named EXCEPT !.count = n] = [current |-> current, candidate |-> raw, count |-> n,
                                    prevAdx |-> prevAdx, atrs |-> atrs]
  <2> HIDE DEF named
  <2> QED
    BY <1>2
<1> QED
  BY <1>4, <1>5, <1>6 DEF current, prevAdx, atrs

\* A classified bar: the candidate counts bars in a row, and a change of regime has enough.
LEMMA ClassifyStep ==
    ASSUME RegimeInv, NEW f, ReadFeatures(f), regime' = ClassifyBar(regime, f),
           recent' = Append(IF Len(recent) = Hysteresis THEN Tail(recent) ELSE recent,
                            [raw |-> ClassifyRaw(regime, f), flat |-> Flat(f)])
    PROVE  RegimeInv' /\ ConfirmedChange
<1> DEFINE raw == ClassifyRaw(regime, f)
           e == [raw |-> raw, flat |-> Flat(f)]
           n == IF raw = regime.candidate THEN regime.count + 1 ELSE 1
           old(i) == recent[Len(recent) - regime.count + i]
           new(i) == recent'[Len(recent') - n + i]
<1>1. /\ regime = [current |-> regime.current, candidate |-> regime.candidate, count |-> regime.count,
                   prevAdx |-> regime.prevAdx, atrs |-> regime.atrs]
      /\ recent \in Seq([raw : RawRegimes, flat : BOOLEAN]) /\ Len(recent) <= Hysteresis /\ Len(recent) \in Nat
      /\ CandidateInv /\ LastBarInv /\ Hysteresis \in Nat \ {0}
  BY DecisionAssumption DEF RegimeInv
<1>2. /\ raw \in RawRegimes
      /\ raw = "REVERSAL" => regime.prevAdx > 40 /\ (f.adx > 40 => Flat(f))
  BY <1>1, RawFacts DEF LastBarInv
<1>3. e \in [raw : RawRegimes, flat : BOOLEAN] /\ e.raw = raw /\ e.flat = Flat(f)
  <2>1. Flat(f) \in BOOLEAN
    BY DEF Flat
  <2> HIDE DEF raw
  <2> QED
    BY <1>2, <2>1
<1>4. /\ recent' \in Seq([raw : RawRegimes, flat : BOOLEAN]) /\ Len(recent') \in 1..Hysteresis
      /\ recent'[Len(recent')] = e
      /\ Len(recent') >= Len(recent) /\ (Len(recent) < Hysteresis => Len(recent') = Len(recent) + 1)
      /\ \A m \in 1..(Len(recent') - 1) : recent'[Len(recent') - m] = recent[Len(recent) - m + 1]
  BY <1>1, <1>3, WindowMoves
<1>5. /\ regime.count \in 0..(Hysteresis - 1) /\ regime.count <= Len(recent)
      /\ \A i \in 1..regime.count : old(i).raw = regime.candidate
      /\ regime.candidate = "REVERSAL" => \A i \in 1..(regime.count - 1) : old(i).flat
  BY <1>1 DEF CandidateInv, Nth
<1>6. /\ regime'.current = IF raw # regime.current /\ n >= Hysteresis THEN raw ELSE regime.current
      /\ regime'.candidate = IF raw = regime.current \/ n >= Hysteresis THEN "none" ELSE raw
      /\ regime'.count = IF raw = regime.current \/ n >= Hysteresis THEN 0 ELSE n
      /\ regime'.prevAdx = f.adx
      /\ regime' = [current |-> regime'.current, candidate |-> regime'.candidate, count |-> regime'.count,
                    prevAdx |-> regime'.prevAdx, atrs |-> regime'.atrs]
  <2> DEFINE hold == [regime EXCEPT !.candidate = "none", !.count = 0]
             switch == [regime EXCEPT !.current = raw, !.candidate = "none", !.count = 0]
             count == [regime EXCEPT !.candidate = raw, !.count = n]
  <2>1. \E atrs : regime' = [(IF raw = regime.current THEN hold ELSE IF n >= Hysteresis THEN switch ELSE count)
                              EXCEPT !.prevAdx = f.adx, !.atrs = atrs]
    BY DEF ClassifyBar, ApplyHysteresis
  <2> HIDE DEF n, raw
  <2>2. /\ hold = [current |-> regime.current, candidate |-> "none", count |-> 0,
                   prevAdx |-> regime.prevAdx, atrs |-> regime.atrs]
        /\ switch = [current |-> raw, candidate |-> "none", count |-> 0,
                     prevAdx |-> regime.prevAdx, atrs |-> regime.atrs]
        /\ count = [current |-> regime.current, candidate |-> raw, count |-> n,
                    prevAdx |-> regime.prevAdx, atrs |-> regime.atrs]
    BY <1>1, RegimeRecord
  <2> HIDE DEF hold, switch, count
  <2>3. CASE raw = regime.current
    BY <2>1, <2>2, <2>3
  <2>4. CASE raw # regime.current /\ n >= Hysteresis
    BY <2>1, <2>2, <2>4
  <2>5. CASE raw # regime.current /\ ~(n >= Hysteresis)
    BY <2>1, <2>2, <2>5
  <2> QED
    BY <2>3, <2>4, <2>5
<1> HIDE DEF raw
<1>7. n \in 1..Hysteresis /\ n <= Len(recent')
  BY <1>1, <1>4, <1>5
<1>8. (\A i \in 1..n : new(i).raw = raw) /\ (raw = "REVERSAL" => \A i \in 1..(n - 1) : new(i).flat)
  <2>1. new(n) = e
    BY <1>4, <1>7
  <2>2. CASE n = 1
    BY <1>3, <2>1, <2>2
  <2>3. CASE n # 1
    <3>1. raw = regime.candidate /\ n = regime.count + 1 /\ regime.count \in 1..(Hysteresis - 1)
      BY <1>1, <1>5, <2>3
    <3>2. ASSUME NEW i \in 1..regime.count PROVE new(i) = old(i)
      <4>1. regime.count + 1 - i \in 1..(Len(recent') - 1)
        BY <1>4, <1>7, <3>1
      <4>2. /\ Len(recent') - (regime.count + 1 - i) = Len(recent') - n + i
            /\ Len(recent) - (regime.count + 1 - i) + 1 = Len(recent) - regime.count + i
        BY <1>1, <1>4, <3>1
      <4> QED
        BY <1>4, <4>1, <4>2
    <3>3. ASSUME raw = "REVERSAL" PROVE new(regime.count).flat
      <4>1. old(regime.count) = recent[Len(recent)] /\ recent # <<>>
        BY <1>1, <1>5, <3>1
      <4>2. recent[Len(recent)].raw = "REVERSAL"
        BY <1>5, <3>1, <3>3, <4>1
      <4>3. recent[Len(recent)].flat
        BY <1>1, <1>2, <3>3, <4>1, <4>2 DEF LastBarInv
      <4>4. new(regime.count) = old(regime.count)
        <5>1. regime.count \in 1..regime.count
          BY <1>1, <3>1
        <5> HIDE DEF old, new
        <5> QED
          BY <3>2, <5>1
      <4> HIDE DEF old, new
      <4> QED
        BY <4>1, <4>3, <4>4
    <3> HIDE DEF n, old, new, e
    <3>4. \A i \in 1..n : new(i).raw = raw
      BY <1>3, <1>5, <2>1, <3>1, <3>2
    <3>5. raw = "REVERSAL" => \A i \in 1..(n - 1) : new(i).flat
      BY <1>5, <3>1, <3>2, <3>3
    <3> QED
      BY <3>4, <3>5
  <2> QED
    BY <2>2, <2>3
<1>9. CandidateInv'
  <2>1. CASE raw = regime.current \/ n >= Hysteresis
    BY <1>1, <1>4, <1>6, <2>1 DEF CandidateInv
  <2>2. CASE raw # regime.current /\ ~(n >= Hysteresis)
    <3>1. regime'.count = n /\ regime'.candidate = raw
      BY <1>6, <2>2
    <3>2. n \in 0..(Hysteresis - 1)
      BY <1>1, <1>7, <2>2
    <3>3. \A i : Nth(i)' = new(i)
      BY <3>1 DEF Nth
    <3> HIDE DEF n, new
    <3> QED
      BY <1>7, <1>8, <3>1, <3>2, <3>3 DEF CandidateInv
  <2> QED
    BY <2>1, <2>2
<1>10. LastBarInv'
  BY <1>2, <1>3, <1>4, <1>6 DEF LastBarInv, ReadFeatures
<1>11. RegimeInv'
  BY <1>1, <1>4, <1>6, <1>9, <1>10 DEF RegimeInv
<1>12. ConfirmedChange
  <2> SUFFICES ASSUME regime'.current # regime.current
               PROVE  /\ Len(recent') = Hysteresis
                      /\ \A i \in 1..Hysteresis : recent'[i].raw = regime'.current
                      /\ regime'.current = "REVERSAL" => \A i \in 1..(Hysteresis - 1) : recent'[i].flat
    BY DEF ConfirmedChange
  <2>1. regime'.current = raw /\ n >= Hysteresis
    BY <1>6
  <2>2. n = Hysteresis /\ Len(recent') = Hysteresis
    BY <1>1, <1>4, <1>7, <2>1
  <2>3. ASSUME NEW i \in Nat PROVE new(i) = recent'[i]
    <3>1. Len(recent') - n + i = i
      BY <1>1, <2>2
    <3> QED
      BY <3>1
  <2> HIDE DEF n, new
  <2> QED
    BY <1>1, <1>8, <2>1, <2>2, <2>3
<1> QED
  BY <1>11, <1>12

\* A regime is confirmed by Hysteresis bars in a row, and REVERSAL only by flat ones, for any
\* bars of any symbols and time frames, any number of them, and any width of the hysteresis.
THEOREM RegimeAlwaysConfirmed == DecisionSpec => RegimeIsConfirmed
<1>1. DecisionInit => RegimeInv
  BY DecisionAssumption DEF DecisionInit, RegimeInv, CandidateInv, LastBarInv, Missing
<1>2. RegimeInv /\ [DecisionNext]_decisionVars => RegimeInv' /\ (ConfirmedChange \/ UNCHANGED decisionVars)
  <2> SUFFICES ASSUME RegimeInv, [DecisionNext]_decisionVars
               PROVE  RegimeInv' /\ (ConfirmedChange \/ UNCHANGED decisionVars)
    OBVIOUS
  <2>1. ASSUME UNCHANGED <<regime, recent>> PROVE RegimeInv' /\ ConfirmedChange
    BY <2>1 DEF RegimeInv, CandidateInv, LastBarInv, Nth, ConfirmedChange
  <2>2. ASSUME NEW b \in BarInputs, BadBar(b) \/ EarlyBar(b) PROVE RegimeInv' /\ ConfirmedChange
    BY <2>1, <2>2 DEF BadBar, EarlyBar
  <2>3. ASSUME NEW b \in BarInputs, NEW posteriors \in Posteriors, DecideBar(b, posteriors)
        PROVE  RegimeInv' /\ ConfirmedChange
    <3> DEFINE f == FeaturesOf(b, frames')
    <3>1. f \in {b.f, b.own}
      BY DEF FeaturesOf
    <3>2. ReadFeatures(f)
      BY <3>1, DecisionAssumption DEF ReadFeatures
    <3>3. /\ regime' = ClassifyBar(regime, f)
          /\ recent' = Append(IF Len(recent) = Hysteresis THEN Tail(recent) ELSE recent,
                              [raw |-> ClassifyRaw(regime, f), flat |-> Flat(f)])
      BY <2>3 DEF DecideBar
    <3> HIDE DEF f
    <3> QED
      BY <3>2, <3>3, ClassifyStep
  <2>4. CASE UNCHANGED decisionVars
    BY <2>1, <2>4 DEF decisionVars
  <2> QED
    BY <2>2, <2>3, <2>4 DEF DecisionNext
<1>3. RegimeInv /\ [DecisionNext]_decisionVars => RegimeInv'
  BY <1>2
<1>4. RegimeInv /\ [DecisionNext]_decisionVars =>
         [regime'.current # regime.current =>
             /\ Len(recent') = Hysteresis
             /\ \A i \in 1..Hysteresis : recent'[i].raw = regime'.current
             /\ regime'.current = "REVERSAL" => \A i \in 1..(Hysteresis - 1) : recent'[i].flat]_decisionVars
  BY <1>2 DEF ConfirmedChange
<1> QED
  BY <1>1, <1>3, <1>4, PTL DEF DecisionSpec, RegimeIsConfirmed

-----------------------------------------------------------------------------
(* Trailing stops.                                                         *)

StopStates ==
    [dir : {"BUY", "SELL"}, entry : Int, stop : Int, mode : Modes, highest : Int, lowest : Int,
     isBreakEven : BOOLEAN]

\* A position at break even has a rounded stop that is not behind the entry by more than
\* the entry's own rounding.
AtBreakEven(p) == p.isBreakEven => Rounded(p.stop) /\ 2 * Back(p.dir, p.stop, p.entry) <= Lost(p.entry)

TrailInv == \A s \in DOMAIN tracked : tracked[s] \in StopStates /\ AtBreakEven(tracked[s])

\* What a step may do to a stop: nothing, or round it and move it back by no more than that.
MovesOn(dir, new, old) == new = old \/ (Rounded(new) /\ 2 * Back(dir, new, old) <= Lost(old))

\* A product with a larger factor is larger by at least the other one.
LEMMA NextMultiple ==
    ASSUME NEW d \in Nat, NEW x \in Int, NEW y \in Int, x < y
    PROVE  d * x + d <= d * y
<1> DEFINE z == y - x
<1>1. z \in Nat /\ z >= 1 /\ y = x + z
  OBVIOUS
<1>2. d * z >= d
  BY <1>1
<1>3. d * y = d * x + d * z
  BY <1>1
<1> QED
  BY <1>2, <1>3

\* quantize() goes to a multiple at most half a unit away, and stays on the side of every
\* multiple that the number is on.
LEMMA HalfEvenFacts ==
    ASSUME NEW n \in Int, NEW d \in Nat \ {0}
    PROVE  LET h == HalfEven(n, d)
           IN  /\ h \in Int
               /\ 2 * n - d <= 2 * (d * h) /\ 2 * (d * h) <= 2 * n + d
               /\ \A x \in Int : /\ n >= d * x => h >= x
                                 /\ n <= d * x => h <= x
<1> DEFINE q == n \div d
           r == n % d
           h == HalfEven(n, d)
<1>1. q \in Int /\ r \in Nat /\ r < d /\ n = d * q + r
  OBVIOUS
<1>2. (h = q /\ 2 * r <= d) \/ (h = q + 1 /\ 2 * r >= d)
  BY <1>1 DEF HalfEven
<1> HIDE DEF q, r, h
<1>3. h \in Int
  BY <1>1, <1>2
<1>4. d * q \in Int /\ d * (q + 1) = d * q + d /\ d * h \in Int
  BY <1>1, <1>3
<1>5. 2 * n - d <= 2 * (d * h) /\ 2 * (d * h) <= 2 * n + d
  <2>1. CASE h = q /\ 2 * r <= d
    BY <1>1, <1>4, <2>1
  <2>2. CASE h = q + 1 /\ 2 * r >= d
    BY <1>1, <1>4, <2>2
  <2> QED
    BY <1>2, <2>1, <2>2
<1>6. ASSUME NEW x \in Int, n >= d * x PROVE h >= x
  <2>1. d * x \in Int
    OBVIOUS
  <2>2. ~(q < x)
    BY <1>1, <1>4, <1>6, <2>1, NextMultiple
  <2> QED
    BY <1>1, <1>2, <2>2
<1>7. ASSUME NEW x \in Int, n <= d * x PROVE h <= x
  <2>1. d * x \in Int
    OBVIOUS
  <2>2. ~(x < q)
    BY <1>1, <1>4, <1>7, <2>1, NextMultiple
  <2>3. CASE h = q
    BY <1>1, <2>2, <2>3
  <2>4. CASE h = q + 1 /\ 2 * r >= d
    <3>1. q # x
      BY <1>1, <1>4, <1>7, <2>4
    <3> QED
      BY <1>1, <2>2, <2>4, <3>1
  <2> QED
    BY <1>2, <2>3, <2>4
<1> QED
  BY <1>3, <1>5, <1>6, <1>7 DEF h

\* A quantised number is rounded, and no further behind a price the number was not behind
\* than that price would lose by rounding.
LEMMA QuantiseFacts ==
    ASSUME NEW n \in Int, NEW y \in Int, NEW dir \in {"BUY", "SELL"},
           IF dir = "BUY" THEN n >= 1000 * y ELSE n <= 1000 * y
    PROVE  /\ Quantise(n) \in Int /\ Rounded(Quantise(n))
           /\ 2 * Back(dir, Quantise(n), y) <= Lost(y)
<1> DEFINE d == 1000 * Grain
           h == HalfEven(n, d)
           u == Quantise(n)
<1>1. Grain \in Nat \ {0} /\ d \in Nat \ {0}
  BY TrailAssumption
<1> HIDE DEF d
<1>2. /\ h \in Int
      /\ 2 * n - d <= 2 * (d * h) /\ 2 * (d * h) <= 2 * n + d
      /\ \A x \in Int : (n >= d * x => h >= x) /\ (n <= d * x => h <= x)
  BY <1>1, HalfEvenFacts
<1> HIDE DEF h
<1>3. u = Grain * h /\ u \in Int
  BY <1>1, <1>2 DEF Quantise, h, d
<1>4. Rounded(u)
  BY <1>1, <1>2, <1>3 DEF Rounded
<1>5. d * h = 1000 * u
  BY <1>1, <1>2, <1>3 DEF d
<1> HIDE DEF u
<1>6. 2 * Back(dir, u, y) <= Grain
  BY <1>1, <1>2, <1>3, <1>5 DEF Back, d
<1>7. ASSUME Rounded(y) PROVE 2 * Back(dir, u, y) <= 0
  <2> DEFINE x == y \div Grain
  <2>1. x \in Int /\ y = Grain * x
    BY <1>1, <1>7 DEF Rounded
  <2> HIDE DEF x
  <2>2. d * x = 1000 * y
    BY <1>1, <2>1 DEF d
  <2>3. CASE dir = "BUY"
    <3>1. h >= x
      BY <1>2, <2>1, <2>2, <2>3
    <3>2. Grain * h >= Grain * x
      BY <1>1, <1>2, <2>1, <3>1, NextMultiple
    <3> QED
      BY <1>3, <2>1, <2>3, <3>2 DEF Back
  <2>4. CASE dir = "SELL"
    <3>1. h <= x
      BY <1>2, <2>1, <2>2, <2>4
    <3>2. Grain * h <= Grain * x
      BY <1>1, <1>2, <2>1, <3>1, NextMultiple
    <3> QED
      BY <1>3, <2>1, <2>4, <3>2 DEF Back
  <2> QED
    BY <2>3, <2>4
<1> QED
  BY <1>3, <1>4, <1>6, <1>7 DEF u, Lost

\* The better of candidate and old stop is not behind either of them.
LEMMA BetterFacts ==
    ASSUME NEW p \in StopStates, NEW n \in Int
    PROVE  /\ Better(p, n) \in Int
           /\ IF p.dir = "BUY" THEN Better(p, n) >= 1000 * p.stop /\ Better(p, n) >= n
              ELSE Better(p, n) <= 1000 * p.stop /\ Better(p, n) <= n
<1>1. p.stop \in Int
  BY DEF StopStates
<1> QED
  BY <1>1 DEF Better

\* What update() quantises is, in every mode, not behind the old stop, and on a
\* promotion not behind the entry either.
LEMMA NewStopFacts ==
    ASSUME NEW p \in StopStates, NEW bar \in TrailBars
    PROVE  LET promoted == Promoted(p, bar.price, bar.atr)
               n == NewStop(p, bar)
           IN  /\ n \in Int
               /\ IF p.dir = "BUY" THEN n >= 1000 * p.stop ELSE n <= 1000 * p.stop
               /\ promoted => IF p.dir = "BUY" THEN n >= 1000 * p.entry ELSE n <= 1000 * p.entry
<1> DEFINE promoted == Promoted(p, bar.price, bar.atr)
           n == NewStop(p, bar)
           Holds == IF p.dir = "BUY" THEN n >= 1000 * p.stop ELSE n <= 1000 * p.stop
<1> SUFFICES /\ n \in Int /\ Holds
             /\ promoted => IF p.dir = "BUY" THEN n >= 1000 * p.entry ELSE n <= 1000 * p.entry
  OBVIOUS
<1>1. bar.atr \in Int
  BY TrailAssumption
<1>2. /\ p.highest \in Int /\ p.lowest \in Int /\ p.entry \in Int /\ p.stop \in Int
      /\ p.mode \in Modes
  BY DEF StopStates
<1>3. promoted => p.mode = "break_even"
  BY DEF Promoted
<1>4. /\ p.mode = "atr_trail" => n = AtrTrail(p, bar.atr)
      /\ p.mode = "chandelier" => n = Chandelier(p, bar.atr)
      /\ p.mode = "break_even" => n = BreakEven(p, bar.price, bar.atr)
      /\ p.mode = "percentage" => n = Percentage(p)
  BY Zenon DEF NewStop
<1> HIDE DEF n, promoted
<1>5. ASSUME NEW c \in Int, n = Better(p, c) PROVE n \in Int /\ Holds
  BY <1>5, BetterFacts
<1>6. CASE p.mode = "atr_trail"
  <2>1. Behind(p, 2500, bar.atr) \in Int
    BY <1>1, <1>2 DEF Behind
  <2> QED
    BY <1>3, <1>4, <1>5, <1>6, <2>1 DEF AtrTrail
<1>7. CASE p.mode = "chandelier"
  <2>1. Behind(p, 3000, bar.atr) \in Int
    BY <1>1, <1>2 DEF Behind
  <2> QED
    BY <1>3, <1>4, <1>5, <1>7, <2>1 DEF Chandelier
<1>8. CASE p.mode = "percentage"
  <2>1. 985 * p.highest \in Int /\ 1015 * p.lowest \in Int
    BY <1>2
  <2> QED
    BY <1>3, <1>4, <1>5, <1>8, <2>1 DEF Percentage
<1>9. CASE p.mode = "break_even" /\ promoted
  <2>1. n = Better(p, 1000 * p.entry)
    BY <1>4, <1>9 DEF BreakEven, promoted
  <2>2. 1000 * p.entry \in Int
    BY <1>2
  <2> QED
    BY <2>1, <2>2, BetterFacts
<1>10. CASE p.mode = "break_even" /\ ~promoted
  <2>1. n = 1000 * p.stop
    BY <1>4, <1>10 DEF BreakEven, promoted
  <2> QED
    BY <1>2, <1>10, <2>1
<1> QED
  BY <1>2, <1>6, <1>7, <1>8, <1>9, <1>10 DEF Modes

\* update() in every mode.
LEMMA UpdatedFacts ==
    ASSUME NEW old \in StopStates, AtBreakEven(old), NEW bar \in TrailBars
    PROVE  /\ Updated(old, bar) \in StopStates
           /\ AtBreakEven(Updated(old, bar))
           /\ MovesOn(old.dir, Updated(old, bar).stop, old.stop)
<1> DEFINE p == [old EXCEPT !.highest = IF bar.high > @ THEN bar.high ELSE @,
                            !.lowest = IF bar.low < @ THEN bar.low ELSE @]
           promoted == Promoted(p, bar.price, bar.atr)
           n == NewStop(p, bar)
           new == Updated(old, bar)
<1> SUFFICES new \in StopStates /\ AtBreakEven(new) /\ MovesOn(old.dir, new.stop, old.stop)
  OBVIOUS
<1>1. bar.price \in Int /\ bar.high \in Int /\ bar.low \in Int /\ bar.atr \in Int
  BY TrailAssumption
<1>2. /\ p \in StopStates
      /\ p.dir = old.dir /\ p.entry = old.entry /\ p.stop = old.stop
      /\ p.isBreakEven = old.isBreakEven
  BY <1>1 DEF StopStates
<1>3. new = [p EXCEPT !.stop = Quantise(n), !.mode = IF promoted THEN "atr_trail" ELSE @,
                      !.isBreakEven = promoted \/ @]
  BY Zenon DEF Updated
<1>4. /\ n \in Int
      /\ IF p.dir = "BUY" THEN n >= 1000 * p.stop ELSE n <= 1000 * p.stop
      /\ promoted => IF p.dir = "BUY" THEN n >= 1000 * p.entry ELSE n <= 1000 * p.entry
  <2> HIDE DEF p
  <2> QED
    BY <1>2, NewStopFacts
<1>5. promoted \in BOOLEAN
  BY DEF Promoted
<1> HIDE DEF p, promoted, n, new
<1>6. p.dir \in {"BUY", "SELL"} /\ p.stop \in Int /\ p.entry \in Int /\ Grain \in Nat \ {0}
  BY <1>2, TrailAssumption DEF StopStates
<1>7. /\ Quantise(n) \in Int /\ Rounded(Quantise(n))
      /\ 2 * Back(p.dir, Quantise(n), p.stop) <= Lost(p.stop)
      /\ promoted => 2 * Back(p.dir, Quantise(n), p.entry) <= Lost(p.entry)
  BY <1>4, <1>6, QuantiseFacts
<1>8. /\ new \in StopStates /\ new.stop = Quantise(n)
      /\ new.dir = p.dir /\ new.entry = p.entry
      /\ new.isBreakEven => promoted \/ p.isBreakEven
  <2>1. /\ new.stop = Quantise(n) /\ new.dir = p.dir /\ new.entry = p.entry
        /\ new.isBreakEven = (promoted \/ p.isBreakEven)
    BY <1>2, <1>3, Zenon DEF StopStates
  <2>2. new \in StopStates
    BY <1>2, <1>3, <1>5, <1>7 DEF StopStates, Modes
  <2> QED
    BY <2>1, <2>2
<1>9. MovesOn(old.dir, new.stop, old.stop)
  BY <1>2, <1>7, <1>8 DEF MovesOn
<1>10. ASSUME new.isBreakEven, ~promoted PROVE 2 * Back(new.dir, new.stop, new.entry) <= Lost(new.entry)
  <2>1. Rounded(p.stop) /\ 2 * Back(p.dir, p.stop, p.entry) <= Lost(p.entry)
    BY <1>2, <1>8, <1>10 DEF AtBreakEven
  <2>2. 2 * Back(p.dir, new.stop, p.stop) <= 0
    BY <1>7, <1>8, <2>1 DEF Lost
  <2>3. Lost(p.entry) \in Int
    BY <1>6 DEF Lost
  <2>4. 2 * Back(p.dir, new.stop, p.entry) <= Lost(p.entry)
    BY <1>6, <1>7, <1>8, <2>1, <2>2, <2>3 DEF Back
  <2> QED
    BY <1>8, <2>4
<1>11. AtBreakEven(new)
  BY <1>7, <1>8, <1>10 DEF AtBreakEven
<1> QED
  BY <1>8, <1>9, <1>11

\* What a step does to the position of each symbol.
LEMMA TrailStep ==
    ASSUME TrailInv, [TrailNext]_trailVars
    PROVE  /\ TrailInv'
           /\ \A s \in DOMAIN tracked \cap DOMAIN tracked' :
                 \/ MovesOn(tracked[s].dir, tracked'[s].stop, tracked[s].stop)
                 \/ \E e \in Entries : TrackOpen(s, e)
<1>1. ASSUME NEW sym \in TrailSymbols, NEW e \in Entries, TrackOpen(sym, e)
      PROVE  /\ TrailInv'
             /\ \A s \in DOMAIN tracked \cap DOMAIN tracked' :
                   \/ MovesOn(tracked[s].dir, tracked'[s].stop, tracked[s].stop)
                   \/ \E x \in Entries : TrackOpen(s, x)
  <2>1. OpenPosition(e) \in StopStates /\ ~OpenPosition(e).isBreakEven
    BY TrailAssumption DEF OpenPosition, StopStates
  <2>2. /\ DOMAIN tracked' = DOMAIN tracked \cup {sym}
        /\ tracked'[sym] = OpenPosition(e)
        /\ \A s \in DOMAIN tracked \ {sym} : tracked'[s] = tracked[s]
    BY <1>1 DEF TrackOpen
  <2>3. TrailInv'
    BY <2>1, <2>2 DEF TrailInv, AtBreakEven
  <2> QED
    BY <1>1, <2>2, <2>3 DEF MovesOn
<1>2. ASSUME NEW some \in SUBSET TrailSymbols, NEW bars \in [some -> TrailBars], UpdateAll(bars)
      PROVE  /\ TrailInv'
             /\ \A s \in DOMAIN tracked \cap DOMAIN tracked' :
                   MovesOn(tracked[s].dir, tracked'[s].stop, tracked[s].stop)
  <2>1. /\ DOMAIN tracked' = DOMAIN tracked
        /\ \A s \in DOMAIN tracked :
              \/ s \in some /\ tracked'[s] = Updated(tracked[s], bars[s])
              \/ tracked'[s] = tracked[s]
    BY <1>2 DEF UpdateAll
  <2>2. \A s \in some : bars[s] \in TrailBars
    OBVIOUS
  <2>3. ASSUME NEW s \in DOMAIN tracked
        PROVE  /\ tracked'[s] \in StopStates /\ AtBreakEven(tracked'[s])
               /\ MovesOn(tracked[s].dir, tracked'[s].stop, tracked[s].stop)
    <3>1. tracked[s] \in StopStates /\ AtBreakEven(tracked[s])
      BY DEF TrailInv
    <3>2. CASE s \in some /\ tracked'[s] = Updated(tracked[s], bars[s])
      BY <2>2, <3>1, <3>2, UpdatedFacts
    <3>3. CASE tracked'[s] = tracked[s]
      BY <3>1, <3>3 DEF MovesOn
    <3> QED
      BY <2>1, <3>2, <3>3
  <2> QED
    BY <2>1, <2>3, Zenon DEF TrailInv, AtBreakEven
<1>3. ASSUME NEW sym \in TrailSymbols, TrackClose(sym)
      PROVE  /\ TrailInv'
             /\ \A s \in DOMAIN tracked \cap DOMAIN tracked' :
                   MovesOn(tracked[s].dir, tracked'[s].stop, tracked[s].stop)
  <2>1. /\ DOMAIN tracked' \subseteq DOMAIN tracked
        /\ \A s \in DOMAIN tracked' : tracked'[s] = tracked[s]
    BY <1>3 DEF TrackClose
  <2> QED
    BY <2>1 DEF TrailInv, AtBreakEven, MovesOn
<1>4. CASE UNCHANGED trailVars
  BY <1>4 DEF trailVars, TrailInv, AtBreakEven, MovesOn
<1> QED
  BY <1>1, <1>2, <1>3, <1>4 DEF TrailNext

\* StopLocksIn (trailing_stop.py, TrailingStopManager.update and PositionTracker), for any
\* unit, entries and first stops on it or not, prices and ATR, through the rounding of
\* quantize() and the change of mode.
THEOREM StopLocksInAlways == TrailSpec => StopLocksIn
<1>1. TrailInit => TrailInv
  BY DEF TrailInit, TrailInv
<1>2. TrailInv =>
         \A s \in DOMAIN tracked :
            LET p == tracked[s] IN p.isBreakEven => 2 * Back(p.dir, p.stop, p.entry) <= Lost(p.entry)
  BY DEF TrailInv, AtBreakEven
<1>3. TrailInv /\ [TrailNext]_trailVars =>
         [\A s \in DOMAIN tracked \cap DOMAIN tracked' :
            LET old == tracked[s].stop
                new == tracked'[s].stop
            IN  \/ new = old
                \/ Rounded(new) /\ 2 * Back(tracked[s].dir, new, old) <= Lost(old)
                \/ \E e \in Entries : TrackOpen(s, e)]_trailVars
  BY TrailStep DEF MovesOn
<1>4. TrailInv /\ [TrailNext]_trailVars => TrailInv'
  BY TrailStep
<1> QED
  BY <1>1, <1>2, <1>3, <1>4, PTL DEF TrailSpec, StopLocksIn
=============================================================================

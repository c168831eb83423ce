---------------------------- MODULE TrailingStops ----------------------------
(***************************************************************************)
(* The trailing stops of the algo engine: PositionTracker keeps one        *)
(* position per symbol and TrailingStopManager moves its stop in one of    *)
(* four modes.  Prices are counted in grains, Grain of them the unit of    *)
(* quantize(); entries, first stops and bars are not rounded to that unit. *)
(* New stops are computed in thousandths of a grain.                       *)
(***************************************************************************)
EXTENDS Rounding, FiniteSets

CONSTANTS
    TrailSymbols,
    Grain,          \* grains to the unit of quantize, 0.00001
    Entries,        \* positions that may be opened: [dir, entry, stop, mode]
    TrailBars       \* bars of a symbol: [price, high, low, atr]

Modes == {"atr_trail", "chandelier", "break_even", "percentage"}

ASSUME TrailAssumption ==
    /\ Grain \in Nat \ {0}
    /\ Entries \subseteq [dir : {"BUY", "SELL"}, entry : Int, stop : Int, mode : Modes]
    /\ TrailBars \subseteq [price : Int, high : Int, low : Int, atr : Int]

VARIABLES
    tracked,    \* symbol -> its TrailingStopState; only symbols with a position
    stopped     \* symbols that the last update_all returned

trailVars == <<tracked, stopped>>

OpenPosition(e) ==
    [dir |-> e.dir, entry |-> e.entry, stop |-> e.stop, mode |-> e.mode,
     highest |-> e.entry, lowest |-> e.entry, isBreakEven |-> FALSE]

\* Sensitivity variant: the old stop does not hold the new one.
BetterOnly(p, candidate) == candidate

\* The candidate, unless the old stop is the better one.
Better(p, candidate) ==
    LET keeps == IF p.dir = "BUY" THEN candidate <= 1000 * p.stop ELSE candidate >= 1000 * p.stop
    IN  IF keeps THEN 1000 * p.stop ELSE candidate

\* A distance of so many thousandths of the ATR behind the best price.
Behind(p, thousandths, atr) ==
    IF p.dir = "BUY" THEN 1000 * p.highest - thousandths * atr
    ELSE 1000 * p.lowest + thousandths * atr

AtrTrail(p, atr) == Better(p, Behind(p, 2500, atr))

Chandelier(p, atr) == Better(p, Behind(p, 3000, atr))

Percentage(p) == Better(p, IF p.dir = "BUY" THEN 985 * p.highest ELSE 1015 * p.lowest)

\* Beyond two ATR of profit ...
Promoted(p, price, atr) ==
    LET profit == IF p.dir = "BUY" THEN price - p.entry ELSE p.entry - price
    IN  p.mode = "break_even" /\ ~p.isBreakEven /\ profit > 2 * atr

\* ... the stop goes to the entry.
BreakEven(p, price, atr) ==
    IF Promoted(p, price, atr) THEN Better(p, 1000 * p.entry) ELSE 1000 * p.stop

NewStop(p, bar) ==
    CASE p.mode = "atr_trail" -> AtrTrail(p, bar.atr)
      [] p.mode = "chandelier" -> Chandelier(p, bar.atr)
      [] p.mode = "break_even" -> BreakEven(p, bar.price, bar.atr)
      [] p.mode = "percentage" -> Percentage(p)

\* From thousandths of a grain to the unit, and back to grains.
Quantise(n) == Grain * HalfEven(n, 1000 * Grain)

\* update: the result is quantised whether or not the stop moved, and a promoted
\* position trails from then on.
Updated(old, bar) ==
    LET p == [old EXCEPT !.highest = IF bar.high > @ THEN bar.high ELSE @,
                         !.lowest = IF bar.low < @ THEN bar.low ELSE @]
        promoted == Promoted(p, bar.price, bar.atr)
    IN  [p EXCEPT !.stop = Quantise(NewStop(p, bar)), !.mode = IF promoted THEN "atr_trail" ELSE @,
                  !.isBreakEven = promoted \/ @]

IsStoppedOut(p, price) == IF p.dir = "BUY" THEN price <= p.stop ELSE price >= p.stop

\* PositionTracker.open replaces a position of the symbol.
TrackOpen(sym, e) ==
    /\ tracked' = [s \in DOMAIN tracked \cup {sym} |->
                      IF s = sym THEN OpenPosition(e) ELSE tracked[s]]
    /\ stopped' = stopped \ {sym}

\* update_all; symbols without a bar are left alone, and nothing is closed here.
UpdateAll(bars) ==
    /\ tracked' = [s \in DOMAIN tracked |->
                      IF s \in DOMAIN bars THEN Updated(tracked[s], bars[s]) ELSE tracked[s]]
    /\ stopped' = {s \in DOMAIN tracked \cap DOMAIN bars :
                      IsStoppedOut(tracked'[s], bars[s].price)}

TrackClose(sym) ==
    /\ tracked' = [s \in DOMAIN tracked \ {sym} |-> tracked[s]]
    /\ stopped' = stopped \ {sym}

TrailInit == tracked = [s \in {} |-> 0] /\ stopped = {}

TrailNext ==
    \/ \E sym \in TrailSymbols, e \in Entries : TrackOpen(sym, e)
    \/ \E some \in SUBSET TrailSymbols : \E bars \in [some -> TrailBars] : UpdateAll(bars)
    \/ \E sym \in TrailSymbols : TrackClose(sym)

TrailSpec == TrailInit /\ [][TrailNext]_trailVars

-----------------------------------------------------------------------------
Rounded(x) == x % Grain = 0

\* How far x is behind y, for a position of that direction.
Back(dir, x, y) == IF dir = "BUY" THEN y - x ELSE x - y

\* How far a price goes back when it is rounded, at most, in half grains.
Lost(x) == IF Rounded(x) THEN 0 ELSE Grain

\* A position keeps its profit, but for the rounding of its first stop: an update leaves
\* the stop on a unit, moves a stop that is on one only toward the price, and any
\* other by at most half a unit away from it; and a position that reached break even
\* has its stop at the entry or beyond, half a unit behind if the entry is on no
\* unit.  So through every mode and the change of mode (TrailingStopManager.update).
StopLocksIn ==
    /\ [](\A s \in DOMAIN tracked :
            LET p == tracked[s] IN p.isBreakEven => 2 * Back(p.dir, p.stop, p.entry) <= Lost(p.entry))
    /\ [][\A s \in DOMAIN tracked \cap DOMAIN tracked' :
            LET old == tracked[s].stop
                new == tracked'[s].stop
            IN  \/ new = old
                \/ Rounded(new) /\ 2 * Back(tracked[s].dir, new, old) <= Lost(old)
                \/ \E e \in Entries : TrackOpen(s, e)]_trailVars

\* What the docstring of TrailingStopManager.update says: the stop only ever moves in the
\* protective direction and never widens (trailing_stop.py:127-128).  The first
\* update of an unrounded stop refutes it.
StopNeverWidens ==
    [][\A s \in DOMAIN tracked \cap DOMAIN tracked' :
        \/ Back(tracked[s].dir, tracked'[s].stop, tracked[s].stop) <= 0
        \/ \E e \in Entries : TrackOpen(s, e)]_trailVars
=============================================================================

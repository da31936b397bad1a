--------------------------- MODULE MCNetworkFactory ---------------------------
(* Four parts of WorldSpec, each with bounds of its own inside those of the   *)
(* cfg.  "overlap": two passes by one process or by two, one change of any     *)
(* file.  "growth": three passes of one process over a series with six         *)
(* experiences and up to two points beyond its end, which is where a fifth     *)
(* more evidence and its rounding begin to differ from one more experience.    *)
(* "corrections": two passes of one process, up to two changes of the results, *)
(* so that one event may have two experiences in an open gate.  "overtaken":   *)
(* three passes of two processes and a correction, so that one may commit from *)
(* a copy of the network that is a generation behind.                          *)
EXTENDS NetworkFactory, TLC

CONSTANTS p, q

VARIABLE part

Symmetry == Permutations({p, q})

MCTimeOf == [e \in Events |-> IF e = "match-1" THEN 1 ELSE 2]

(* match-2 is played; match-1 is open, void, reported twice or played. *)
MCResults ==
  {[f \in Files |-> [e \in Events |-> IF e = "match-1" THEN first ELSE {"2"}]] :
     first \in {{}, {"void"}, {"1", "2"}, {"1"}}}

MCRows == {[f \in Files |-> [e \in Events |-> "quoted"]]}

(* A series of the parent; the child has none.                                *)
SeriesOf(points) ==
  [d \in Markets |-> [t \in Ticks |-> IF d \in Children THEN NoValue ELSE points[t]]]

(* Three periods, the second with two points.                                 *)
Short == SeriesOf([t \in Ticks |-> IF t \in {0, 2, 4} THEN "low"
                                   ELSE IF t = 3 THEN "high" ELSE NoValue])
(* Seven periods with a point each.                                           *)
Long  == SeriesOf([t \in Ticks |-> IF t > 12 \/ t % 2 = 1 THEN NoValue
                                   ELSE IF t = 4 THEN "high" ELSE "low"])
None  == SeriesOf([t \in Ticks |-> NoValue])

MCSeries == {Short, Long, None}

First1 == scored["day-1"]["match-1"]

PartsInit ==
  /\ WorldInit
  /\ \/ part = "overlap" /\ raw = Short /\ First1 = {}
     \/ part = "growth" /\ raw = Long /\ First1 = {}
     \/ part = "overtaken" /\ raw = None /\ First1 = {"1"}
     \/ part = "corrections" /\ raw = None /\ First1 # {}

WrittenTicks(d) == {t \in Ticks : raw'[d][t] # raw[d][t]}

Changes ==
  /\ part \in {"overlap", "overtaken"} => changes < 1
  /\ EvidenceChanges /\ Apart
  /\ part = "overlap" =>
       \A d \in Markets : \A t \in WrittenTicks(d) : t <= (IF d \in Children THEN 0 ELSE 5)
  /\ part = "growth" =>
       /\ listed' = listed /\ scored' = scored
       /\ \A d \in Markets : \A t \in WrittenTicks(d) :
            d \in Parents /\ t > 12 /\ t % 2 = 0 /\ raw'[d][t] = "low"
  /\ part \in {"corrections", "overtaken"} => listed' = listed /\ raw' = raw
  /\ part = "overtaken" => scored'["day-1"]["match-1"] = {"2"}

Steps(x) ==
  /\ part \in {"growth", "corrections"} => \A y \in Procs \ {x} : pc[y] = "idle"
  /\ WorldStep(x)
  /\ part # "growth" => mem'[x].passing \subseteq {"MLP"}
  /\ part \in {"overlap", "corrections"} => passes' <= 2
  /\ part = "overtaken" =>
       /\ faults' = 0
       /\ pc'[x] = "routes" => mem'[x].lab = "real"
       /\ pc'[x] = "saving" => mem'[x].passing = {"MLP"}

PartsNext == (Changes \/ \E x \in Procs : Steps(x)) /\ part' = part

PartsSpec == PartsInit /\ [][PartsNext]_<<worldVars, part>>
=============================================================================

---------------------------- MODULE MCBeliefStore ----------------------------
(* Small instances of BeliefStore for TLC.                                 *)
EXTENDS BeliefStore, TLC

\* A whole probabilistic belief formed at t: one value per probability.
Distribution(t, f) == {[bt |-> t, cp |-> p, val |-> f[p]] : p \in Probabilities}

Distributions(t) == {Distribution(t, f) : f \in [Probabilities -> Values]}

\* One belief time per event, as the API sends them.
AtOneTime == UNION {Distributions(t) : t \in Times}

\* A report that holds a forecast and a measurement of the same event.
ForecastAndMeasurement ==
    {B \cup C : B \in Distributions(Known - 1), C \in Distributions(Known)}

\* Two forecasts of the same event in one batch, as a worker saves them.
TwoForecasts == {B \cup C : B \in Distributions(1), C \in Distributions(2)}

WholeBatches == AtOneTime \cup ForecastAndMeasurement \cup TwoForecasts

Symmetry ==
    Permutations(Writers) \cup Permutations(Values) \cup Permutations(Probabilities)

=============================================================================

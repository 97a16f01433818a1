------------------------ MODULE MCForecastingPipeline ------------------------
(***************************************************************************)
(* Small requests for ForecastingPipeline: an hour is 2 units of time, and *)
(* periods are of 1 to 8 units.                                            *)
(***************************************************************************)
EXTENDS ForecastingPipeline

CONSTANTS w1, w2

MCWorkers == {w1, w2}

Trigger(res, end, byDuration, horizon, frequency, retrain) ==
    [resolution |-> res, end |-> end, byDuration |-> byDuration,
     horizon |-> horizon, frequency |-> frequency, retrain |-> retrain]

MCRequests == {
    Trigger(1, 6, TRUE,  0, 0, 2),   \* one viewpoint: a single cycle
    Trigger(1, 6, FALSE, 2, 0, 2),   \* the horizon cuts the period down to an hour
    Trigger(1, 6, FALSE, 2, 2, 2),   \* three cycles side by side
    Trigger(2, 6, FALSE, 2, 2, 2),   \* the same, hourly
    Trigger(1, 5, FALSE, 2, 1, 2),   \* two cycles, and a rest without one
    Trigger(1, 6, FALSE, 4, 2, 2),   \* each cycle runs into the next
    Trigger(1, 8, FALSE, 6, 2, 4),   \* two cycles, a viewpoint every hour
    Trigger(1, 8, FALSE, 2, 4, 2),   \* viewpoints further apart than the horizon
    Trigger(2, 8, FALSE, 4, 2, 3),   \* cycles off the sensor's resolution
    Trigger(1, 2, TRUE,  0, 0, 6),   \* retraining takes longer than the period
    Trigger(1, 6, TRUE,  2, 0, 2),   \* rejected: not the whole duration
    Trigger(2, 6, FALSE, 3, 0, 2),   \* rejected: horizon off the resolution
    Trigger(1, 2, FALSE, 4, 0, 2),   \* rejected: horizon beyond the period
    Trigger(1, 1, TRUE,  0, 0, 2),   \* less than an hour: no viewpoints
    Trigger(4, 8, TRUE,  0, 0, 2) }  \* a sensor coarser than an hour: none either

\* Retrain every hour, and look an hour ahead from a viewpoint in every hour.
MCRetraining == {Trigger(1, 6, FALSE, 2, 2, 2)}

=============================================================================

--------------------------- MODULE MCJobDelivery ---------------------------
\* JobDelivery on a small instance.  A behaviour has one job: a guarded one, with every
\* failure there is, or one that is written past the guarded transitions, with fewer of
\* them.  The two spaces add up instead of multiplying.
EXTENDS JobDelivery

OneJob == Cardinality({j \in Job : status[j] # "none"}) <= 1

Edited == \E j \in EditableJob : status[j] # "none"
FewFailures == Edited => adrift = {} /\ cancelReq = {} /\ phase # "direct"

MCSpec == Init /\ [][Next /\ (OneJob /\ FewFailures)']_vars /\ Fairness
=============================================================================

----------------------------- MODULE MCServices -----------------------------
\* The parts of the control plane and of the agent that share no state, each on a small
\* instance: a behaviour is about one of them, its focus, and the others rest.
EXTENDS Services, TLC

CONSTANTS ann, bob, cyd, mail, post

VARIABLE focus

allVars == <<servicesVars, focus>>

\* Accounts: the first administrator has the address ADMIN_EMAIL, and so has a later user,
\* about whom nobody asks anything.
MCEmailOf == [u \in User |-> IF u = bob THEN post ELSE mail]
NobodyAsksAboutCyd == {q \in Call : calls'[q] # Nobody /\ calls'[q].user = cyd} = {}

\* Schedules: windows within a day and through midnight, and an absent one, and wrong
\* expressions.
Daily(bk, t, r, k, s, e) ==
  [backup |-> bk, test |-> t, retention |-> r, rules |-> k, window |-> [start |-> s, end |-> e]]
MCSetting ==
  {Daily("right", "", "", FALSE, 1, 3), Daily("right", "wrong", "right", TRUE, 3, 1),
   Daily("wrong", "", "right", FALSE, Missing, 1)}

\* Migrations: an instance of an older release and two of the current one.
MCEmbedded == [i \in Instance |-> IF i = 1 THEN 2 ELSE 4]

MCInit ==
  /\ focus \in {"accounts", "enrollment", "schedule", "migrations", "updater", "rate"}
  /\ ServicesInit /\ known = {ann}
  /\ (focus # "schedule" => plans = [p \in Plan |-> Missing])
  /\ (focus # "migrations" => rows = {} /\ ~dirty)
  /\ focus # "updater" => bin = CHOOSE v \in Release : TRUE

On(part, move) == focus = part /\ move /\ UNCHANGED focus

MCNext ==
  \/ On("accounts", AccountsStep /\ NobodyAsksAboutCyd) \/ On("enrollment", EnrollmentStep)
  \/ On("schedule", ScheduleStep) \/ On("migrations", MigrationsStep)
  \/ On("updater", UpdaterStep) \/ On("rate", RateStep)

MCSpec == MCInit /\ [][MCNext]_allVars
=============================================================================

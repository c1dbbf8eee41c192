------------------------------ MODULE Services ------------------------------
(***************************************************************************)
(* The parts of the control plane and of the agent that share no state:    *)
(* accounts and sessions, enrollment, the schedule, the migrations, the    *)
(* updater and the rate limiter.  They run beside each other, and a step   *)
(* of one leaves the others as they are.                                   *)
(***************************************************************************)
EXTENDS Accounts, Enrollment, PolicySchedule, Migrations, Updater, RateLimit

servicesVars ==
  <<accountsVars, enrollmentVars, scheduleVars, migrationVars, updaterVars, rateVars>>

ServicesInit ==
  /\ AccountsInit /\ EnrollmentInit /\ ScheduleInit
  /\ MigrationsInit /\ UpdaterInit /\ RateInit

AccountsStep ==
  /\ AccountsNext
  /\ UNCHANGED <<enrollmentVars, scheduleVars, migrationVars, updaterVars, rateVars>>
EnrollmentStep ==
  /\ EnrollmentNext
  /\ UNCHANGED <<accountsVars, scheduleVars, migrationVars, updaterVars, rateVars>>
ScheduleStep ==
  /\ ScheduleNext
  /\ UNCHANGED <<accountsVars, enrollmentVars, migrationVars, updaterVars, rateVars>>
MigrationsStep ==
  /\ MigrationsNext
  /\ UNCHANGED <<accountsVars, enrollmentVars, scheduleVars, updaterVars, rateVars>>
UpdaterStep ==
  /\ UpdaterNext
  /\ UNCHANGED <<accountsVars, enrollmentVars, scheduleVars, migrationVars, rateVars>>
RateStep ==
  /\ RateNext
  /\ UNCHANGED <<accountsVars, enrollmentVars, scheduleVars, migrationVars, updaterVars>>

ServicesNext ==
  \/ AccountsStep \/ EnrollmentStep \/ ScheduleStep
  \/ MigrationsStep \/ UpdaterStep \/ RateStep

ServicesSpec == ServicesInit /\ [][ServicesNext]_servicesVars

\* Every variable of every part has its type.
TypeOK ==
  /\ AccountsTypeOK /\ EnrollmentTypeOK /\ ScheduleTypeOK
  /\ MigrationsTypeOK /\ UpdaterTypeOK /\ RateTypeOK
=============================================================================

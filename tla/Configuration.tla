----------------------------- MODULE Configuration -----------------------------
(***************************************************************************)
(* Brands and chat channels, and what names them: a tenant's profile its   *)
(* brand, a schedule and the alerts the channel they post to               *)
(* (web/routes_ui.py, branding.py, delivery/chat.py).  A handler looks and *)
(* commits in two steps, other requests in between; reports read what they *)
(* are dressed in and posted to while all that changes.                    *)
(*                                                                         *)
(* Rows have the ids the database gives them.  made, the number of a row   *)
(* in the order of their creation, and meant, the number of the row that   *)
(* was chosen, are history: they tell what an id stood for.                *)
(***************************************************************************)
EXTENDS Integers

CONSTANTS
  Tenants,       \* ids of tenants
  Schedules,     \* ids of schedules
  MaxBrands,     \* bound on the brands ever created
  MaxChannels,   \* bound on the channels ever created
  ReuseIds,      \* SQLite gives the highest id out again once its row is gone
  Forms,         \* slots for requests
  MaxForms,      \* bound on the requests that look before they commit
  Jobs           \* slots for running schedules

BrandIds == 1..MaxBrands
ChannelIds == 1..MaxChannels

ASSUME ConfigurationConstants == MaxBrands \in Nat /\ MaxChannels \in Nat /\ ReuseIds \in BOOLEAN

VARIABLES
  brands,     \* the table brands
  channels,   \* the table chat_channels: the number of the channel, or 0
  profiles,   \* Tenant.profile: the brand
  posting,    \* ReportSchedule: the channel it posts to, or Gone
  alerting,   \* the setting alert_chat_channel_id
  form,       \* what a request is about to commit
  job,        \* a report that a schedule is running
  created,    \* brands and channels created so far (history)
  handled,    \* requests so far (history)
  crossed     \* the alerts were given a channel while it was deleted (history)

configured == <<brands, channels, profiles, posting, alerting>>
configurationVars == <<configured, form, job, created, handled, crossed>>

\* No brand, no channel: NULL in the database, 0 in the settings
Unset == [id |-> 0, meant |-> 0]
Gone == [id |-> 0, meant |-> 0, gone |-> TRUE]
NoBrand == [made |-> 0, default |-> FALSE]
NoForm == [op |-> "none"]
NoJob == [at |-> "none"]

ConfigurationInit ==
  /\ brands = [b \in BrandIds |-> NoBrand]
  /\ channels = [c \in ChannelIds |-> 0]
  /\ profiles = [t \in Tenants |-> Unset]
  /\ posting = [s \in Schedules |-> Gone]
  /\ alerting = Unset
  /\ form = [f \in Forms |-> NoForm]
  /\ job = [j \in Jobs |-> NoJob]
  /\ created = [brands |-> 0, channels |-> 0] /\ handled = 0 /\ crossed = FALSE

BrandExists(b) == brands[b].made > 0
ChannelExists(c) == channels[c] > 0

\* The id of a new row, where taken are the ids in use and n rows were ever made
NewId(taken, n) ==
  IF ReuseIds THEN 1 + (CHOOSE m \in taken \union {0} : \A i \in taken : i <= m) ELSE n + 1

-----------------------------------------------------------------------------
(* What reports and alerts make of it *)

DefaultBrands == {b \in BrandIds : brands[b].default}

\* default_brand: the first of them; 0 is the neutral look
DefaultBrand ==
  IF DefaultBrands = {} THEN 0 ELSE CHOOSE b \in DefaultBrands : \A d \in DefaultBrands : b <= d

\* brand_for
BrandFor(t) ==
  LET own == profiles[t].id
  IN IF own # 0 /\ own \in {b \in BrandIds : BrandExists(b)} THEN own ELSE DefaultBrand

\* load_target: the channel an id stands for now
Target(id) == IF id = 0 THEN 0 ELSE channels[id]

\* run_schedule reads the channel once, for all reports of a fan-out
RunSchedule(j, s) ==
  /\ job[j] = NoJob /\ posting[s] # Gone
  /\ job' = [job EXCEPT ![j] = [at |-> "report", channel |-> posting[s]]]
  /\ UNCHANGED <<configured, form, created, handled, crossed>>

\* run_report, while its data is read: the address is kept for phase 3
LoadTarget(j) ==
  /\ job[j].at = "report"
  /\ job' = [job EXCEPT ![j] = [at |-> "post", channel |-> job[j].channel, target |-> Target(job[j].channel.id)]]
  /\ UNCHANGED <<configured, form, created, handled, crossed>>

\* The report is posted, if there is a target; then comes the next tenant's, or none
Posted(j) ==
  /\ job[j].at = "post"
  /\ job' \in {[job EXCEPT ![j] = [at |-> "report", channel |-> job[j].channel]], [job EXCEPT ![j] = NoJob]}
  /\ UNCHANGED <<configured, form, created, handled, crossed>>

-----------------------------------------------------------------------------
(* Brands.  The handlers are coroutines of one event loop: after their last *)
(* await nothing of another one comes in between.                           *)

\* _make_default; written is FALSE when the row already said so when it was
\* read, and is not written then
MakeDefault(table, b, written) ==
  [i \in BrandIds |->
     IF i # b THEN [table[i] EXCEPT !.default = FALSE]
     ELSE IF written /\ table[i].made > 0 THEN [table[i] EXCEPT !.default = TRUE] ELSE table[i]]

\* branding_create: the first brand applies straight away
BrandingCreate(default) ==
  LET id == NewId({b \in BrandIds : BrandExists(b)}, created.brands)
      made == created.brands + 1
      added == [brands EXCEPT ![id] = [made |-> made, default |-> FALSE]]
      first == \A b \in BrandIds : ~BrandExists(b)
  IN  /\ created.brands < MaxBrands
      /\ created' = [created EXCEPT !.brands = made]
      /\ brands' = IF first \/ default THEN MakeDefault(added, id, TRUE) ELSE added
      /\ UNCHANGED <<channels, profiles, posting, alerting, form, job, handled, crossed>>

\* branding_update reads the brand, and awaits the form
BrandingUpdate(f, b) ==
  /\ BrandExists(b)
  /\ form' = [form EXCEPT ![f] = [op |-> "branding_update", brand |-> b, was |-> brands[b].default]]

\* Then it writes what differs from what it had read.  A row that is gone
\* fails the request, unless there is nothing to write to it.
BrandingUpdated(f, default, otherwise) ==
  LET r == form[f]
      writes == default # r.was
  IN  /\ r.op = "branding_update"
      /\ form' = [form EXCEPT ![f] = NoForm]
      /\ brands' =
           IF ~BrandExists(r.brand) /\ (writes \/ otherwise) THEN brands
           ELSE IF default THEN MakeDefault(brands, r.brand, writes)
           ELSE IF writes THEN [brands EXCEPT ![r.brand].default = FALSE] ELSE brands
      /\ UNCHANGED <<channels, profiles, posting, alerting, job, created, handled, crossed>>

\* branding_delete leaves the profiles alone
BrandingDelete(b) ==
  /\ BrandExists(b)
  /\ brands' = [brands EXCEPT ![b] = NoBrand]
  /\ UNCHANGED <<channels, profiles, posting, alerting, form, job, created, handled, crossed>>

\* tenant_profile: a brand that does not exist is not taken
TenantProfile(f, t, b) ==
  form' = [form EXCEPT ![f] =
    [op |-> "tenant_profile", tenant |-> t,
     brand |-> IF b = 0 \/ ~BrandExists(b) THEN Unset ELSE [id |-> b, meant |-> brands[b].made]]]

TenantProfileSaved(f) ==
  /\ form[f].op = "tenant_profile"
  /\ profiles' = [profiles EXCEPT ![form[f].tenant] = form[f].brand]
  /\ form' = [form EXCEPT ![f] = NoForm]
  /\ UNCHANGED <<brands, channels, posting, alerting, job, created, handled, crossed>>

-----------------------------------------------------------------------------
(* Channels *)

Named(c) == IF c = 0 \/ ~ChannelExists(c) THEN Unset ELSE [id |-> c, meant |-> channels[c]]

ChatChannelCreate ==
  LET id == NewId({c \in ChannelIds : ChannelExists(c)}, created.channels)
  IN  /\ created.channels < MaxChannels
      /\ created' = [created EXCEPT !.channels = @ + 1]
      /\ channels' = [channels EXCEPT ![id] = created.channels + 1]
      /\ UNCHANGED <<brands, profiles, posting, alerting, form, job, handled, crossed>>

\* schedule_create
ScheduleCreate(f, s, c) ==
  /\ posting[s] = Gone
  /\ form' = [form EXCEPT ![f] = [op |-> "schedule_create", schedule |-> s, channel |-> Named(c)]]

\* The foreign key refuses a channel that is gone
ScheduleCreated(f) ==
  LET r == form[f]
  IN  /\ r.op = "schedule_create"
      /\ posting' = IF posting[r.schedule] # Gone \/ (r.channel # Unset /\ ~ChannelExists(r.channel.id))
                    THEN posting ELSE [posting EXCEPT ![r.schedule] = r.channel]
      /\ form' = [form EXCEPT ![f] = NoForm]
      /\ UNCHANGED <<brands, channels, profiles, alerting, job, created, handled, crossed>>

ScheduleDelete(s) ==
  /\ posting[s] # Gone
  /\ posting' = [posting EXCEPT ![s] = Gone]
  /\ UNCHANGED <<brands, channels, profiles, alerting, form, job, created, handled, crossed>>

\* chat_channel_delete: which schedules post there, and whether the alerts do
ChatChannelDelete(f, c) ==
  /\ ChannelExists(c)
  /\ form' = [form EXCEPT ![f] =
       [op |-> "chat_channel_delete", channel |-> c, alerts |-> alerting.id = c,
        schedules |-> {s \in Schedules : posting[s] # Gone /\ posting[s].id = c}]]

\* Mutant: the alerts are not looked at
AlertsLeft(r) == alerting

AlertsAfter(r) == IF r.alerts THEN Unset ELSE alerting

\* A schedule that is gone by then fails the request; the foreign key empties
\* the schedules that came to name the channel meanwhile (SET NULL)
ChatChannelDeleted(f) ==
  LET r == form[f]
      fails == \E s \in r.schedules : posting[s] = Gone
      emptied == {s \in Schedules : posting[s] # Gone /\ (s \in r.schedules \/ posting[s].id = r.channel)}
  IN  /\ r.op = "chat_channel_delete"
      /\ form' = [form EXCEPT ![f] = NoForm]
      /\ IF fails THEN UNCHANGED <<channels, posting, alerting>>
         ELSE /\ channels' = [channels EXCEPT ![r.channel] = 0]
              /\ posting' = [s \in Schedules |-> IF s \in emptied THEN Unset ELSE posting[s]]
              /\ alerting' = AlertsAfter(r)
      /\ UNCHANGED <<brands, profiles, job, created, handled, crossed>>

\* chat_alerts
ChatAlerts(f, c) ==
  form' = [form EXCEPT ![f] = [op |-> "chat_alerts", channel |-> Named(c)]]

ChatAlertsSaved(f) ==
  /\ form[f].op = "chat_alerts"
  /\ alerting' = form[f].channel
  /\ form' = [form EXCEPT ![f] = NoForm]
  /\ UNCHANGED <<brands, channels, profiles, posting, job, created, handled, crossed>>

-----------------------------------------------------------------------------

\* A request that names a channel for the alerts and one that deletes it are
\* both under way
Crossing ==
  \E f, g \in Forms :
    /\ form'[f].op = "chat_alerts" /\ form'[g].op = "chat_channel_delete"
    /\ form'[f].channel.id = form'[g].channel

\* A request looks at what it is about to change
Looks(f) ==
  /\ form[f] = NoForm /\ handled < MaxForms
  /\ \/ \E b \in BrandIds : BrandingUpdate(f, b)
     \/ \E t \in Tenants, b \in BrandIds \union {0} : TenantProfile(f, t, b)
     \/ \E s \in Schedules, c \in ChannelIds \union {0} : ScheduleCreate(f, s, c)
     \/ \E c \in ChannelIds : ChatChannelDelete(f, c)
     \/ \E c \in ChannelIds \union {0} : ChatAlerts(f, c)
  /\ handled' = handled + 1
  /\ crossed' = (crossed \/ Crossing)
  /\ UNCHANGED <<configured, job, created>>

Commits(f) ==
  \/ \E default, otherwise \in BOOLEAN : BrandingUpdated(f, default, otherwise)
  \/ TenantProfileSaved(f) \/ ScheduleCreated(f) \/ ChatChannelDeleted(f) \/ ChatAlertsSaved(f)

ConfigurationNext ==
  \/ \E f \in Forms : Looks(f) \/ Commits(f)
  \/ \E default \in BOOLEAN : BrandingCreate(default)
  \/ \E b \in BrandIds : BrandingDelete(b)
  \/ ChatChannelCreate
  \/ \E s \in Schedules : ScheduleDelete(s)
  \/ \E j \in Jobs : (\E s \in Schedules : RunSchedule(j, s)) \/ LoadTarget(j) \/ Posted(j)

ConfigurationSpec == ConfigurationInit /\ [][ConfigurationNext]_configurationVars

-----------------------------------------------------------------------------

\* At most one brand is the default, whatever else a request had read before it
\* waited for its form: which brand a report wears does not hang on the order
\* of rows (_make_default, default_brand).
OneDefaultBrand == \A b, d \in DefaultBrands : b = d

\* No schedule names a channel that is gone, and the alerts do not, unless they
\* were given the channel while it was being deleted (chat_channel_delete,
\* chat_alerts, the foreign key of report_schedules).
ChannelsExist ==
  /\ \A s \in Schedules : posting[s].id # 0 => ChannelExists(posting[s].id)
  /\ alerting.id # 0 => ChannelExists(alerting.id) \/ crossed

\* A report is posted to the channel that was chosen for its schedule or to
\* none, however long the schedule has been running (run_schedule, load_target).
PostsGoWhereMeant ==
  \A j \in Jobs : job[j].at = "post" => job[j].target \in {0, job[j].channel.meant}

\* Brands and channels are what those who named them mean - on a database that
\* does not give ids out again.
ChoicesHold == OneDefaultBrand /\ ChannelsExist /\ PostsGoWhereMeant

\* "Tenants that used it get the default brand" (branding_delete): a report wears
\* the brand that was chosen for its tenant, or the default one.
DeletedBrandIsReplaced ==
  \A t \in Tenants :
    LET b == BrandFor(t)
    IN b = DefaultBrand \/ brands[b].made = profiles[t].meant
=============================================================================

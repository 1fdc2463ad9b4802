------------------------------- MODULE WebProofs -------------------------------
(***************************************************************************)
(* What people do in the browser beside Accounts and Sessions: brands and  *)
(* chat channels keep their meaning, whoever is signed in is the one the   *)
(* provider signed in, and the activity log tells of what was done and is  *)
(* read without gaps, for any number of requests, rows and providers.      *)
(***************************************************************************)
EXTENDS Configuration, SingleSignOn, ActivityLog, FiniteSetTheorems, WellFoundedInduction, TLAPS

-----------------------------------------------------------------------------
(* Brands and chat channels: types                                           *)

ChoiceRows == [id : Nat, meant : Nat]

FormRows ==
  {NoForm}
  \union [op : {"branding_update"}, brand : BrandIds, was : BOOLEAN]
  \union [op : {"tenant_profile"}, tenant : Tenants, brand : ChoiceRows]
  \union [op : {"schedule_create"}, schedule : Schedules, channel : ChoiceRows]
  \union [op : {"chat_channel_delete"}, channel : ChannelIds, alerts : BOOLEAN, schedules : SUBSET Schedules]
  \union [op : {"chat_alerts"}, channel : ChoiceRows]

JobRows ==
  {NoJob} \union [at : {"report"}, channel : ChoiceRows] \union [at : {"post"}, channel : ChoiceRows, target : Nat]

ConfigurationTypeOK ==
  /\ brands \in [BrandIds -> [made : Nat, default : BOOLEAN]]
  /\ channels \in [ChannelIds -> Nat]
  /\ posting \in [Schedules -> ChoiceRows \union {Gone}]
  /\ alerting \in ChoiceRows
  /\ form \in [Forms -> FormRows]
  /\ job \in [Jobs -> JobRows]
  /\ created \in [brands : Nat, channels : Nat]
  /\ crossed \in BOOLEAN

\* Without reuse the id of a channel is its number, so that an id means one channel
Own(x) == x.id = x.meant

ChannelsNumbered ==
  /\ created.channels <= MaxChannels
  /\ \A c \in ChannelIds : channels[c] \in {0, c} /\ (channels[c] # 0 => c <= created.channels)

Chosen ==
  /\ \A s \in Schedules : posting[s].id # 0 =>
       Own(posting[s]) /\ posting[s].id \in ChannelIds /\ ChannelExists(posting[s].id)
  /\ \A f \in Forms : form[f].op = "schedule_create" =>
       (form[f].channel.id # 0 => Own(form[f].channel) /\ form[f].channel.id \in ChannelIds)
  /\ \A j \in Jobs : job[j].at # "none" =>
       /\ job[j].channel.id = 0 \/ (Own(job[j].channel) /\ job[j].channel.id \in ChannelIds)
       /\ job[j].at = "post" => job[j].target \in {0, job[j].channel.meant}

\* A request that gives the alerts a channel, and one that takes it away
Alerts ==
  ~crossed =>
    /\ alerting.id # 0 => alerting.id \in ChannelIds /\ ChannelExists(alerting.id)
    /\ \A f \in Forms :
         /\ form[f].op = "chat_alerts" /\ form[f].channel.id # 0 =>
              form[f].channel.id \in ChannelIds /\ ChannelExists(form[f].channel.id)
         /\ form[f].op = "chat_channel_delete" => (alerting.id = form[f].channel => form[f].alerts)
         /\ \A g \in Forms : form[f].op = "chat_alerts" /\ form[g].op = "chat_channel_delete"
              => form[f].channel.id # form[g].channel

Configured ==
  ConfigurationTypeOK /\ ChannelsNumbered /\ Chosen /\ Alerts /\ OneDefaultBrand

LEMMA IdFacts ==
  /\ MaxBrands \in Nat /\ MaxChannels \in Nat
  /\ BrandIds \subseteq Nat \ {0} /\ ChannelIds \subseteq Nat \ {0}
  /\ \A c : c \in ChannelIds <=> c \in Nat /\ 1 <= c /\ c <= MaxChannels
  BY ConfigurationConstants DEF BrandIds, ChannelIds

LEMMA ChoiceFacts ==
  /\ Unset \in ChoiceRows /\ Unset.id = 0 /\ Unset.meant = 0 /\ Gone.id = 0
  /\ NoForm \in FormRows /\ NoForm.op = "none" /\ NoJob \in JobRows /\ NoJob.at = "none"
  BY DEF Unset, Gone, ChoiceRows, FormRows, NoForm, JobRows, NoJob

\* The fields of what a request is about to commit
LEMMA FormFacts ==
  ASSUME NEW q \in FormRows
  PROVE  /\ q.op = "schedule_create" => q.channel \in ChoiceRows /\ q.schedule \in Schedules
         /\ q.op = "chat_alerts" => q.channel \in ChoiceRows
         /\ q.op = "chat_channel_delete" => /\ q.channel \in ChannelIds /\ q.alerts \in BOOLEAN
                                            /\ q.schedules \subseteq Schedules
         /\ q.op = "branding_update" => q.brand \in BrandIds /\ q.was \in BOOLEAN
  BY DEF FormRows, NoForm

LEMMA JobFacts ==
  ASSUME NEW q \in JobRows
  PROVE  /\ q.at # "none" => q.channel \in ChoiceRows
         /\ q.at = "post" => q.target \in Nat
  BY DEF JobRows, NoJob

LEMMA NamedFacts ==
  ASSUME ConfigurationTypeOK, ChannelsNumbered, NEW c \in ChannelIds \union {0}
  PROVE  /\ Named(c) \in ChoiceRows
         /\ Named(c).id # 0 => Own(Named(c)) /\ Named(c).id \in ChannelIds /\ ChannelExists(Named(c).id)
<1>1. CASE c = 0 \/ ~ChannelExists(c)
  BY <1>1, ChoiceFacts DEF Named
<1>2. CASE c \in ChannelIds /\ ChannelExists(c)
  <2>1. c \in Nat /\ c # 0 /\ channels[c] = c
    BY <1>2, IdFacts DEF ChannelsNumbered, ChannelExists
  <2>2. Named(c) = [id |-> c, meant |-> c]
    BY <1>2, <2>1 DEF Named
  <2> QED
    BY <1>2, <2>1, <2>2 DEF ChoiceRows, Own
<1> QED
  BY <1>1, <1>2

\* A request looks: what it is about to commit was so when it looked
LookedUp(q) ==
  /\ q.op \in {"schedule_create", "chat_alerts"} /\ q.channel.id # 0 =>
       Own(q.channel) /\ q.channel.id \in ChannelIds /\ ChannelExists(q.channel.id)
  /\ q.op = "chat_channel_delete" => (alerting.id = q.channel => q.alerts)

Looking(f) == \E q \in FormRows : LookedUp(q) /\ form' = [form EXCEPT ![f] = q]

LEMMA LooksKeep ==
  ASSUME Configured, NEW f \in Forms, Looks(f)
  PROVE  Configured'
<1>1. ConfigurationTypeOK /\ UNCHANGED <<configured, job, created>>
  BY DEF Configured, Looks
<1>2. Looking(f)
  <2>1. ASSUME NEW b \in BrandIds, BrandingUpdate(f, b) PROVE Looking(f)
    <3>1. PICK was \in BOOLEAN : was = brands[b].default
      BY <1>1 DEF ConfigurationTypeOK
    <3>2. PICK q : q = [op |-> "branding_update", brand |-> b, was |-> was]
      OBVIOUS
    <3>3. q \in FormRows /\ LookedUp(q)
      BY <3>1, <3>2 DEF FormRows, LookedUp
    <3>4. form' = [form EXCEPT ![f] = q]
      BY <2>1, <3>1, <3>2 DEF BrandingUpdate
    <3> QED
      BY <3>3, <3>4 DEF Looking
  <2>2. ASSUME NEW t \in Tenants, NEW b \in BrandIds \union {0}, TenantProfile(f, t, b) PROVE Looking(f)
    <3>1. PICK c : c = IF b = 0 \/ ~BrandExists(b) THEN Unset ELSE [id |-> b, meant |-> brands[b].made]
      OBVIOUS
    <3>2. c \in ChoiceRows
      BY <1>1, <3>1, IdFacts, ChoiceFacts DEF ChoiceRows, ConfigurationTypeOK
    <3>3. PICK q : q = [op |-> "tenant_profile", tenant |-> t, brand |-> c]
      OBVIOUS
    <3>4. q \in FormRows /\ LookedUp(q)
      BY <3>1, <3>2, <3>3 DEF FormRows, LookedUp
    <3>5. form' = [form EXCEPT ![f] = q]
      BY <2>2, <3>1, <3>2, <3>3 DEF TenantProfile
    <3> QED
      BY <3>4, <3>5 DEF Looking
  <2>3. ASSUME NEW s \in Schedules, NEW c \in ChannelIds \union {0}, ScheduleCreate(f, s, c) PROVE Looking(f)
    <3>1. PICK n : n = Named(c)
      OBVIOUS
    <3>2. PICK q : q = [op |-> "schedule_create", schedule |-> s, channel |-> n]
      OBVIOUS
    <3>3. n \in ChoiceRows /\ (n.id # 0 => Own(n) /\ n.id \in ChannelIds /\ ChannelExists(n.id))
      BY <1>1, <3>1, NamedFacts DEF Configured
    <3>4. q \in FormRows /\ LookedUp(q)
      BY <3>1, <3>2, <3>3 DEF FormRows, LookedUp
    <3>5. form' = [form EXCEPT ![f] = q]
      BY <2>3, <3>1, <3>2, <3>3 DEF ScheduleCreate
    <3> QED
      BY <3>4, <3>5 DEF Looking
  <2>4. ASSUME NEW c \in ChannelIds, ChatChannelDelete(f, c) PROVE Looking(f)
    <3>1. PICK alerts \in BOOLEAN : alerts = (alerting.id = c)
      OBVIOUS
    <3>2. PICK gone \in SUBSET Schedules : gone = {s \in Schedules : posting[s] # Gone /\ posting[s].id = c}
      OBVIOUS
    <3>3. PICK q : q = [op |-> "chat_channel_delete", channel |-> c, alerts |-> alerts, schedules |-> gone]
      OBVIOUS
    <3>4. q \in FormRows /\ LookedUp(q)
      BY <3>1, <3>2, <3>3 DEF FormRows, LookedUp
    <3>5. form' = [form EXCEPT ![f] = q]
      BY <2>4, <3>1, <3>2, <3>3 DEF ChatChannelDelete
    <3> QED
      BY <3>4, <3>5 DEF Looking
  <2>5. ASSUME NEW c \in ChannelIds \union {0}, ChatAlerts(f, c) PROVE Looking(f)
    <3>1. PICK n : n = Named(c)
      OBVIOUS
    <3>2. PICK q : q = [op |-> "chat_alerts", channel |-> n]
      OBVIOUS
    <3>3. n \in ChoiceRows /\ (n.id # 0 => Own(n) /\ n.id \in ChannelIds /\ ChannelExists(n.id))
      BY <1>1, <3>1, NamedFacts DEF Configured
    <3>4. q \in FormRows /\ LookedUp(q)
      BY <3>1, <3>2, <3>3 DEF FormRows, LookedUp
    <3>5. form' = [form EXCEPT ![f] = q]
      BY <2>5, <3>1, <3>2, <3>3 DEF ChatAlerts
    <3> QED
      BY <3>4, <3>5 DEF Looking
  <2> QED
    BY <2>1, <2>2, <2>3, <2>4, <2>5 DEF Looks
<1>3. PICK q \in FormRows : LookedUp(q) /\ form' = [form EXCEPT ![f] = q]
  BY <1>2 DEF Looking
<1>4. form'[f] = q /\ \A g \in Forms \ {f} : form'[g] = form[g]
  BY <1>1, <1>3 DEF ConfigurationTypeOK
<1>5. UNCHANGED <<brands, channels, posting, alerting, job, created>>
  BY <1>1 DEF configured
<1>6. ConfigurationTypeOK'
  <2>1. crossed' \in BOOLEAN
    BY DEF Looks
  <2>2. form' \in [Forms -> FormRows]
    BY <1>1, <1>3 DEF ConfigurationTypeOK
  <2> QED
    BY <1>1, <1>5, <2>1, <2>2 DEF ConfigurationTypeOK
<1>7. ChannelsNumbered'
  BY <1>5 DEF Configured, ChannelsNumbered
<1>8. Chosen'
  BY <1>3, <1>4, <1>5 DEF Configured, Chosen, Own, ChannelExists, LookedUp
<1>9. Alerts'
  <2> SUFFICES ASSUME ~crossed'
               PROVE  /\ alerting.id # 0 => alerting.id \in ChannelIds /\ ChannelExists(alerting.id)
                      /\ \A h \in Forms :
                           /\ form'[h].op = "chat_alerts" /\ form'[h].channel.id # 0 =>
                                form'[h].channel.id \in ChannelIds /\ ChannelExists(form'[h].channel.id)
                           /\ form'[h].op = "chat_channel_delete" =>
                                (alerting.id = form'[h].channel => form'[h].alerts)
                           /\ \A g \in Forms : form'[h].op = "chat_alerts" /\ form'[g].op = "chat_channel_delete"
                                => form'[h].channel.id # form'[g].channel
    BY <1>5 DEF Alerts, ChannelExists
  <2>1. ~crossed /\ ~Crossing
    BY DEF Looks
  <2>2. ASSUME NEW h \in Forms, NEW g \in Forms, form'[h].op = "chat_alerts", form'[g].op = "chat_channel_delete"
        PROVE  form'[h].channel.id # form'[g].channel
    BY <2>1, <2>2 DEF Crossing
  <2>3. ASSUME NEW h \in Forms
        PROVE  /\ form'[h].op = "chat_alerts" /\ form'[h].channel.id # 0 =>
                    form'[h].channel.id \in ChannelIds /\ ChannelExists(form'[h].channel.id)
               /\ form'[h].op = "chat_channel_delete" => (alerting.id = form'[h].channel => form'[h].alerts)
    <3>1. CASE h = f
      BY <1>3, <1>4, <3>1 DEF LookedUp
    <3>2. CASE h # f
      BY <1>4, <2>1, <3>2 DEF Configured, Alerts
    <3> QED
      BY <3>1, <3>2
  <2> QED
    BY <2>1, <2>2, <2>3 DEF Configured, Alerts
<1>10. OneDefaultBrand'
  BY <1>5 DEF Configured, OneDefaultBrand, DefaultBrands
<1> QED
  BY <1>6, <1>7, <1>8, <1>9, <1>10 DEF Configured

-----------------------------------------------------------------------------
(* A request commits; reports are posted                                     *)

BrandsKept ==
  /\ brands' \in [BrandIds -> [made : Nat, default : BOOLEAN]]
  /\ OneDefaultBrand'
  /\ created' \in [brands : Nat, channels : Nat] /\ created'.channels = created.channels

FormsEnd == \A f \in Forms : form'[f] = form[f] \/ form'[f] = NoForm

\* Nothing of the channels changes
LEMMA OnlyBrands ==
  ASSUME Configured, form' \in [Forms -> FormRows], FormsEnd, BrandsKept,
         UNCHANGED <<channels, posting, alerting, job, crossed>>
  PROVE  Configured'
<1>1. ConfigurationTypeOK'
  BY DEF Configured, ConfigurationTypeOK, BrandsKept
<1>2. ChannelsNumbered'
  BY DEF Configured, ChannelsNumbered, BrandsKept
<1>3. Chosen'
  BY ChoiceFacts DEF Configured, Chosen, Own, ChannelExists, FormsEnd
<1>4. Alerts'
  BY ChoiceFacts DEF Configured, Alerts, ChannelExists, FormsEnd
<1> QED
  BY <1>1, <1>2, <1>3, <1>4 DEF Configured, BrandsKept

LEMMA MakeDefaultFacts ==
  ASSUME NEW before \in [BrandIds -> [made : Nat, default : BOOLEAN]], NEW b \in BrandIds, NEW written \in BOOLEAN
  PROVE  /\ MakeDefault(before, b, written) \in [BrandIds -> [made : Nat, default : BOOLEAN]]
         /\ \A i \in BrandIds \ {b} : ~MakeDefault(before, b, written)[i].default
<1>1. ASSUME NEW row \in [made : Nat, default : BOOLEAN]
      PROVE  /\ [row EXCEPT !.default = FALSE] \in [made : Nat, default : BOOLEAN]
             /\ ~[row EXCEPT !.default = FALSE].default
             /\ [row EXCEPT !.default = TRUE] \in [made : Nat, default : BOOLEAN]
  OBVIOUS
<1> QED
  BY <1>1 DEF MakeDefault

LEMMA OneDefault ==
  ASSUME NEW b, \A i \in BrandIds \ {b} : ~brands'[i].default
  PROVE  OneDefaultBrand'
  BY DEF OneDefaultBrand, DefaultBrands

LEMMA BrandsKeep ==
  ASSUME ConfigurationTypeOK, OneDefaultBrand,
         \/ \E f \in Forms, default, otherwise \in BOOLEAN : BrandingUpdated(f, default, otherwise)
         \/ \E default \in BOOLEAN : ~ReuseIds /\ BrandingCreate(default)
         \/ \E b \in BrandIds : BrandingDelete(b)
  PROVE  BrandsKept
<1> DEFINE Brand == [made : Nat, default : BOOLEAN]
<1>1. brands \in [BrandIds -> Brand] /\ created \in [brands : Nat, channels : Nat]
  BY DEF ConfigurationTypeOK
<1>2. ASSUME NEW i \in BrandIds, NEW row \in Brand, ~row.default, created' = created,
             brands' = [brands EXCEPT ![i] = row]
      PROVE  BrandsKept
  <2>1. brands' \in [BrandIds -> Brand]
    BY <1>1, <1>2
  <2>2. \A b \in BrandIds : brands'[b].default => brands[b].default
    BY <1>1, <1>2
  <2>3. OneDefaultBrand'
    BY <2>2 DEF OneDefaultBrand, DefaultBrands
  <2> QED
    BY <1>1, <1>2, <2>1, <2>3 DEF BrandsKept
<1>3. ASSUME NEW f \in Forms, NEW default \in BOOLEAN, NEW otherwise \in BOOLEAN,
             BrandingUpdated(f, default, otherwise)
      PROVE  BrandsKept
  <2>1. form[f].brand \in BrandIds /\ created' = created
    BY <1>3, FormFacts DEF BrandingUpdated, ConfigurationTypeOK
  <2>2. PICK b \in BrandIds : b = form[f].brand
    BY <2>1
  <2>3. PICK written \in BOOLEAN : written = (default # form[f].was)
    OBVIOUS
  <2>4. CASE brands' = brands
    BY <1>1, <2>1, <2>4 DEF BrandsKept, OneDefaultBrand, DefaultBrands
  <2>5. CASE brands' = MakeDefault(brands, b, written)
    BY <1>1, <2>1, <2>5, MakeDefaultFacts, OneDefault DEF BrandsKept
  <2>6. CASE brands' = [brands EXCEPT ![b].default = FALSE]
    <3>1. PICK row : row = [brands[b] EXCEPT !.default = FALSE]
      OBVIOUS
    <3>2. row \in Brand /\ ~row.default /\ brands' = [brands EXCEPT ![b] = row]
      BY <1>1, <2>6, <3>1
    <3> QED
      BY <1>2, <2>1, <3>2
  <2> QED
    BY <1>3, <2>2, <2>3, <2>4, <2>5, <2>6 DEF BrandingUpdated
<1>4. ASSUME NEW default \in BOOLEAN, ~ReuseIds, BrandingCreate(default)
      PROVE  BrandsKept
  <2>1. PICK id : id = created.brands + 1
    OBVIOUS
  <2>2. id \in BrandIds /\ created' = [created EXCEPT !.brands = id]
    BY <1>1, <1>4, <2>1, IdFacts DEF BrandingCreate, BrandIds
  <2>3. created' \in [brands : Nat, channels : Nat] /\ created'.channels = created.channels
    BY <1>1, <2>2, IdFacts
  <2>4. PICK row : row = [made |-> id, default |-> FALSE]
    OBVIOUS
  <2>5. row \in Brand /\ ~row.default
    BY <2>2, <2>4, IdFacts
  <2>6. PICK added : added = [brands EXCEPT ![id] = row]
    OBVIOUS
  <2>7. added \in [BrandIds -> Brand] /\ \A b \in BrandIds : added[b].default => brands[b].default
    BY <1>1, <2>5, <2>6
  <2>8. PICK written \in BOOLEAN : written = TRUE
    OBVIOUS
  <2>9. brands' = MakeDefault(added, id, written) \/ brands' = added
    BY <1>4, <2>1, <2>4, <2>6, <2>8 DEF BrandingCreate, NewId
  <2>10. CASE brands' = MakeDefault(added, id, written)
    BY <2>2, <2>3, <2>7, <2>10, MakeDefaultFacts, OneDefault DEF BrandsKept
  <2>11. CASE brands' = added
    BY <2>3, <2>7, <2>11 DEF BrandsKept, OneDefaultBrand, DefaultBrands
  <2> QED
    BY <2>9, <2>10, <2>11
<1>5. ASSUME NEW b \in BrandIds, BrandingDelete(b)
      PROVE  BrandsKept
  <2>1. NoBrand \in Brand /\ ~NoBrand.default
    BY DEF NoBrand
  <2> QED
    BY <1>2, <1>5, <2>1 DEF BrandingDelete
<1> QED
  BY <1>3, <1>4, <1>5

\* Channels come and go
LEMMA ChannelsKeep ==
  ASSUME Configured, ~ReuseIds,
         \/ ChatChannelCreate
         \/ \E f \in Forms : ScheduleCreated(f) \/ ChatChannelDeleted(f) \/ ChatAlertsSaved(f)
         \/ \E s \in Schedules : ScheduleDelete(s)
  PROVE  Configured'
<1>1. ConfigurationTypeOK /\ ChannelsNumbered /\ Chosen /\ Alerts /\ OneDefaultBrand
  BY DEF Configured
<1>2. CASE ChatChannelCreate
  <2>1. PICK c : c = created.channels + 1
    OBVIOUS
  <2>2. /\ c \in ChannelIds /\ channels' = [channels EXCEPT ![c] = c]
        /\ created' = [created EXCEPT !.channels = c]
        /\ UNCHANGED <<brands, profiles, posting, alerting, form, job, handled, crossed>>
    BY <1>1, <1>2, <2>1, IdFacts DEF ChatChannelCreate, NewId, ConfigurationTypeOK
  <2>3. /\ created' \in [brands : Nat, channels : Nat] /\ created'.channels = c
        /\ channels' \in [ChannelIds -> Nat]
        /\ channels'[c] = c /\ \A d \in ChannelIds \ {c} : channels'[d] = channels[d]
    BY <1>1, <2>2, IdFacts DEF ConfigurationTypeOK
  <2>4. ConfigurationTypeOK' /\ OneDefaultBrand'
    BY <1>1, <2>2, <2>3 DEF ConfigurationTypeOK, OneDefaultBrand, DefaultBrands
  <2>5. ChannelsNumbered'
    BY <1>1, <2>1, <2>2, <2>3, IdFacts DEF ChannelsNumbered, ConfigurationTypeOK
  <2>6. \A d \in ChannelIds : ChannelExists(d) => ChannelExists(d)'
    BY <2>2, <2>3, IdFacts DEF ChannelExists
  <2>7. Chosen' /\ Alerts'
    BY <1>1, <2>2, <2>6 DEF Chosen, Alerts, Own, ChannelExists
  <2> QED
    BY <2>4, <2>5, <2>7 DEF Configured
<1>3. ASSUME NEW f \in Forms, ScheduleCreated(f) PROVE Configured'
  <2>1. PICK q \in FormRows : q = form[f] /\ q.op = "schedule_create"
    BY <1>1, <1>3 DEF ScheduleCreated, ConfigurationTypeOK
  <2>2. PICK c \in ChoiceRows : c = q.channel
    BY <2>1, FormFacts
  <2>3. PICK s \in Schedules : s = q.schedule
    BY <2>1, FormFacts
  <2>4. /\ form' = [form EXCEPT ![f] = NoForm]
        /\ UNCHANGED <<brands, channels, profiles, alerting, job, created, handled, crossed>>
        /\ posting' = posting \/ (posting' = [posting EXCEPT ![s] = c] /\ (c = Unset \/ ChannelExists(c.id)))
    BY <1>3, <2>1, <2>2, <2>3 DEF ScheduleCreated
  <2>5. form' \in [Forms -> FormRows] /\ FormsEnd
    BY <1>1, <2>4, ChoiceFacts DEF ConfigurationTypeOK, FormsEnd
  <2>6. c.id # 0 => (Own(c) /\ c.id \in ChannelIds /\ ChannelExists(c.id)) \/ posting' = posting
    BY <1>1, <2>1, <2>2, <2>4, ChoiceFacts DEF Chosen
  <2>7. /\ posting' \in [Schedules -> ChoiceRows \union {Gone}]
        /\ \A t \in Schedules : posting'[t].id # 0 =>
             Own(posting'[t]) /\ posting'[t].id \in ChannelIds /\ ChannelExists(posting'[t].id)
    BY <1>1, <2>1, <2>2, <2>4, ChoiceFacts DEF ConfigurationTypeOK, Chosen
  <2>8. ConfigurationTypeOK' /\ OneDefaultBrand' /\ ChannelsNumbered'
    BY <1>1, <2>4, <2>5, <2>7 DEF ConfigurationTypeOK, OneDefaultBrand, DefaultBrands, ChannelsNumbered
  <2>9. Chosen'
    BY <1>1, <2>4, <2>5, <2>7, ChoiceFacts DEF Chosen, Own, ChannelExists, FormsEnd
  <2>10. Alerts'
    BY <1>1, <2>4, <2>5, ChoiceFacts DEF Alerts, ChannelExists, FormsEnd
  <2> QED
    BY <2>8, <2>9, <2>10 DEF Configured
<1>4. ASSUME NEW f \in Forms, ChatChannelDeleted(f) PROVE Configured'
  <2>1. PICK q \in FormRows : q = form[f] /\ q.op = "chat_channel_delete"
    BY <1>1, <1>4 DEF ChatChannelDeleted, ConfigurationTypeOK
  <2>2. PICK c \in ChannelIds : c = q.channel /\ q.schedules \subseteq Schedules
    BY <2>1, FormFacts
  <2>3. PICK emptied : emptied = {s \in Schedules : posting[s] # Gone /\ (s \in q.schedules \/ posting[s].id = c)}
    OBVIOUS
  <2>4. /\ form' = [form EXCEPT ![f] = NoForm]
        /\ UNCHANGED <<brands, profiles, job, created, handled, crossed>>
        /\ \/ UNCHANGED <<channels, posting, alerting>>
           \/ /\ channels' = [channels EXCEPT ![c] = 0]
              /\ posting' = [s \in Schedules |-> IF s \in emptied THEN Unset ELSE posting[s]]
              /\ alerting' = IF q.alerts THEN Unset ELSE alerting
    BY <1>4, <2>1, <2>2, <2>3 DEF ChatChannelDeleted, AlertsAfter
  <2>5. form' \in [Forms -> FormRows] /\ FormsEnd /\ form'[f].op = "none"
    BY <1>1, <2>4, ChoiceFacts DEF ConfigurationTypeOK, FormsEnd
  <2>6. CASE UNCHANGED <<channels, posting, alerting>>
    <3>1. BrandsKept
      BY <1>1, <2>4 DEF BrandsKept, ConfigurationTypeOK, OneDefaultBrand, DefaultBrands
    <3> QED
      BY <2>4, <2>5, <2>6, <3>1, OnlyBrands
  <2>7. CASE /\ channels' = [channels EXCEPT ![c] = 0]
             /\ posting' = [s \in Schedules |-> IF s \in emptied THEN Unset ELSE posting[s]]
             /\ alerting' = IF q.alerts THEN Unset ELSE alerting
    <3>1. /\ channels' \in [ChannelIds -> Nat] /\ channels'[c] = 0
          /\ \A d \in ChannelIds \ {c} : channels'[d] = channels[d]
          /\ posting' \in [Schedules -> ChoiceRows \union {Gone}] /\ alerting' \in ChoiceRows
      BY <1>1, <2>7, ChoiceFacts DEF ConfigurationTypeOK
    <3>2. ConfigurationTypeOK' /\ OneDefaultBrand' /\ ChannelsNumbered'
      BY <1>1, <2>4, <2>5, <3>1 DEF ConfigurationTypeOK, OneDefaultBrand, DefaultBrands, ChannelsNumbered
    <3>3. \A s \in Schedules : posting'[s].id # 0 =>
            posting'[s] = posting[s] /\ posting[s].id # c
      BY <2>3, <2>7, ChoiceFacts
    <3>4. Chosen'
      BY <1>1, <2>4, <2>5, <3>1, <3>3, ChoiceFacts DEF Chosen, Own, ChannelExists, FormsEnd
    <3>5. ASSUME ~crossed PROVE alerting'.id # 0 => alerting' = alerting /\ alerting.id # c
      BY <1>1, <2>1, <2>2, <2>7, <3>5, ChoiceFacts DEF Alerts
    <3>6. ASSUME ~crossed, NEW g \in Forms, form'[g].op = "chat_alerts"
          PROVE  form[g].op = "chat_alerts" /\ form'[g] = form[g] /\ form[g].channel.id # c
      BY <1>1, <2>1, <2>2, <2>5, <3>6, ChoiceFacts DEF Alerts, FormsEnd
    <3>7. Alerts'
      <4> SUFFICES ASSUME ~crossed
                   PROVE  /\ alerting'.id # 0 => alerting'.id \in ChannelIds /\ ChannelExists(alerting.id)'
                          /\ \A h \in Forms :
                               /\ form'[h].op = "chat_alerts" /\ form'[h].channel.id # 0 =>
                                    form'[h].channel.id \in ChannelIds /\ ChannelExists(form[h].channel.id)'
                               /\ form'[h].op = "chat_channel_delete" =>
                                    (alerting'.id = form'[h].channel => form'[h].alerts)
                               /\ \A g \in Forms : form'[h].op = "chat_alerts" /\ form'[g].op = "chat_channel_delete"
                                    => form'[h].channel.id # form'[g].channel
        BY <2>4 DEF Alerts
      <4>1. alerting'.id # 0 => alerting'.id \in ChannelIds /\ ChannelExists(alerting.id)'
        BY <1>1, <3>1, <3>5 DEF Alerts, ChannelExists
      <4>2. ASSUME NEW h \in Forms, form'[h].op = "chat_alerts", form'[h].channel.id # 0
            PROVE  form'[h].channel.id \in ChannelIds /\ ChannelExists(form[h].channel.id)'
        BY <1>1, <3>1, <3>6, <4>2 DEF Alerts, ChannelExists
      <4>3. ASSUME NEW h \in Forms, form'[h].op = "chat_channel_delete", alerting'.id = form'[h].channel
            PROVE  form'[h].alerts
        <5>1. form'[h] = form[h] /\ form[h].channel \in ChannelIds
          BY <1>1, <2>5, <4>3, ChoiceFacts, FormFacts DEF FormsEnd, ConfigurationTypeOK
        <5>2. alerting'.id # 0
          BY <4>3, <5>1, IdFacts
        <5> QED
          BY <1>1, <3>5, <4>3, <5>1, <5>2 DEF Alerts
      <4>4. ASSUME NEW h \in Forms, NEW g \in Forms, form'[h].op = "chat_alerts", form'[g].op = "chat_channel_delete"
            PROVE  form'[h].channel.id # form'[g].channel
        BY <1>1, <2>5, <4>4, ChoiceFacts DEF Alerts, FormsEnd
      <4> QED
        BY <4>1, <4>2, <4>3, <4>4
    <3> QED
      BY <3>2, <3>4, <3>7 DEF Configured
  <2> QED
    BY <2>4, <2>6, <2>7
<1>5. ASSUME NEW f \in Forms, ChatAlertsSaved(f) PROVE Configured'
  <2>1. PICK q \in FormRows : q = form[f] /\ q.op = "chat_alerts"
    BY <1>1, <1>5 DEF ChatAlertsSaved, ConfigurationTypeOK
  <2>2. /\ form' = [form EXCEPT ![f] = NoForm] /\ alerting' = q.channel /\ q.channel \in ChoiceRows
        /\ UNCHANGED <<brands, channels, profiles, posting, job, created, handled, crossed>>
    BY <1>5, <2>1, FormFacts DEF ChatAlertsSaved
  <2>3. form' \in [Forms -> FormRows] /\ FormsEnd
    BY <1>1, <2>2, ChoiceFacts DEF ConfigurationTypeOK, FormsEnd
  <2>4. ConfigurationTypeOK' /\ OneDefaultBrand' /\ ChannelsNumbered'
    BY <1>1, <2>2, <2>3 DEF ConfigurationTypeOK, OneDefaultBrand, DefaultBrands, ChannelsNumbered
  <2>5. Chosen'
    BY <1>1, <2>2, <2>3, ChoiceFacts DEF Chosen, Own, ChannelExists, FormsEnd
  <2>6. Alerts'
    BY <1>1, <2>1, <2>2, <2>3, ChoiceFacts DEF Alerts, ChannelExists, FormsEnd
  <2> QED
    BY <2>4, <2>5, <2>6 DEF Configured
<1>6. ASSUME NEW s \in Schedules, ScheduleDelete(s) PROVE Configured'
  <2>1. /\ posting' = [posting EXCEPT ![s] = Gone]
        /\ UNCHANGED <<brands, channels, profiles, alerting, form, job, created, handled, crossed>>
    BY <1>6 DEF ScheduleDelete
  <2>2. posting' \in [Schedules -> ChoiceRows \union {Gone}] /\ \A t \in Schedules : posting'[t] \in {posting[t], Gone}
    BY <1>1, <2>1 DEF ConfigurationTypeOK
  <2>3. ConfigurationTypeOK' /\ OneDefaultBrand' /\ ChannelsNumbered'
    BY <1>1, <2>1, <2>2 DEF ConfigurationTypeOK, OneDefaultBrand, DefaultBrands, ChannelsNumbered
  <2>4. Chosen' /\ Alerts'
    BY <1>1, <2>1, <2>2, ChoiceFacts DEF Chosen, Own, ChannelExists, Alerts
  <2> QED
    BY <2>3, <2>4 DEF Configured
<1> QED
  BY <1>2, <1>3, <1>4, <1>5, <1>6

\* A schedule runs: the channel it has been given is kept for all its reports
LEMMA JobsKeep ==
  ASSUME Configured, NEW j \in Jobs,
         (\E s \in Schedules : RunSchedule(j, s)) \/ LoadTarget(j) \/ Posted(j)
  PROVE  Configured'
<1>1. /\ ConfigurationTypeOK /\ ChannelsNumbered /\ Chosen
      /\ UNCHANGED <<brands, channels, posting, alerting, form, created, crossed>>
  BY DEF Configured, RunSchedule, LoadTarget, Posted, configured
<1>2. /\ job[j] \in JobRows
      /\ job[j].at # "none" => /\ job[j].channel \in ChoiceRows
                               /\ job[j].channel.id = 0 \/ (Own(job[j].channel) /\ job[j].channel.id \in ChannelIds)
  BY <1>1, JobFacts DEF ConfigurationTypeOK, Chosen
<1>3. PICK q \in JobRows :
        /\ job' = [job EXCEPT ![j] = q]
        /\ q.at # "none" => q.channel.id = 0 \/ (Own(q.channel) /\ q.channel.id \in ChannelIds)
        /\ q.at = "post" => q.target \in {0, q.channel.meant}
  <2>1. ASSUME NEW c \in ChoiceRows, c.id = 0 \/ (Own(c) /\ c.id \in ChannelIds), NEW q,
               q = [at |-> "report", channel |-> c]
        PROVE  /\ q \in JobRows
               /\ q.at # "none" => q.channel.id = 0 \/ (Own(q.channel) /\ q.channel.id \in ChannelIds)
               /\ q.at = "post" => q.target \in {0, q.channel.meant}
    BY <2>1 DEF JobRows
  <2>2. ASSUME LoadTarget(j)
        PROVE  \E q \in JobRows :
                 /\ job' = [job EXCEPT ![j] = q]
                 /\ q.at # "none" => q.channel.id = 0 \/ (Own(q.channel) /\ q.channel.id \in ChannelIds)
                 /\ q.at = "post" => q.target \in {0, q.channel.meant}
    <3>1. PICK c \in ChoiceRows : c = job[j].channel /\ (c.id = 0 \/ (Own(c) /\ c.id \in ChannelIds))
      BY <1>2, <2>2 DEF LoadTarget
    <3>2. PICK t : t = Target(c.id)
      OBVIOUS
    <3>3. t \in Nat /\ t \in {0, c.meant}
      BY <1>1, <3>1, <3>2, IdFacts DEF Target, ChannelsNumbered, Own
    <3>4. PICK q : q = [at |-> "post", channel |-> c, target |-> t]
      OBVIOUS
    <3>5. /\ q \in JobRows
          /\ q.at # "none" => q.channel.id = 0 \/ (Own(q.channel) /\ q.channel.id \in ChannelIds)
          /\ q.at = "post" => q.target \in {0, q.channel.meant}
      BY <3>1, <3>3, <3>4 DEF JobRows
    <3>6. job' = [job EXCEPT ![j] = q]
      BY <2>2, <3>1, <3>2, <3>4 DEF LoadTarget
    <3> QED
      BY <3>5, <3>6
  <2>3. CASE LoadTarget(j)
    BY <2>2, <2>3
  <2>4. CASE Posted(j)
    <3>1. CASE job' = [job EXCEPT ![j] = NoJob]
      BY <3>1, ChoiceFacts
    <3>2. CASE job' = [job EXCEPT ![j] = [at |-> "report", channel |-> job[j].channel]]
      <4>1. PICK c \in ChoiceRows : c = job[j].channel /\ (c.id = 0 \/ (Own(c) /\ c.id \in ChannelIds))
        BY <1>2, <2>4 DEF Posted
      <4>2. PICK q : q = [at |-> "report", channel |-> c]
        OBVIOUS
      <4> QED
        BY <2>1, <3>2, <4>1, <4>2
    <3> QED
      BY <2>4, <3>1, <3>2 DEF Posted
  <2>5. CASE \E s \in Schedules : RunSchedule(j, s)
    <3>1. PICK s \in Schedules : RunSchedule(j, s)
      BY <2>5
    <3>2. PICK c \in ChoiceRows : c = posting[s] /\ (c.id = 0 \/ (Own(c) /\ c.id \in ChannelIds))
      BY <1>1, <3>1 DEF RunSchedule, ConfigurationTypeOK, Chosen
    <3>3. PICK q : q = [at |-> "report", channel |-> c]
      OBVIOUS
    <3>4. job' = [job EXCEPT ![j] = q]
      BY <3>1, <3>2, <3>3 DEF RunSchedule
    <3> QED
      BY <2>1, <3>2, <3>3, <3>4
  <2> QED
    BY <2>3, <2>4, <2>5
<1>4. job' \in [Jobs -> JobRows] /\ job'[j] = q /\ \A i \in Jobs \ {j} : job'[i] = job[i]
  BY <1>1, <1>3 DEF ConfigurationTypeOK
<1>5. ConfigurationTypeOK' /\ ChannelsNumbered' /\ OneDefaultBrand'
  BY <1>1, <1>4 DEF Configured, ConfigurationTypeOK, ChannelsNumbered, OneDefaultBrand, DefaultBrands
<1>6. Chosen'
  BY <1>1, <1>3, <1>4 DEF Chosen, Own, ChannelExists
<1>7. Alerts'
  BY <1>1 DEF Configured, Alerts, ChannelExists
<1> QED
  BY <1>5, <1>6, <1>7 DEF Configured

LEMMA ConfiguredStep ==
  ASSUME Configured, ~ReuseIds, [ConfigurationNext]_configurationVars
  PROVE  Configured'
<1>1. ConfigurationTypeOK /\ OneDefaultBrand
  BY DEF Configured
<1>2. ASSUME NEW f \in Forms, Looks(f) PROVE Configured'
  BY <1>2, LooksKeep
<1>3. ASSUME NEW f \in Forms, NEW default \in BOOLEAN, NEW otherwise \in BOOLEAN,
             BrandingUpdated(f, default, otherwise)
      PROVE  Configured'
  <2>1. BrandsKept
    BY <1>1, <1>3, BrandsKeep
  <2>2. form' \in [Forms -> FormRows] /\ FormsEnd /\ UNCHANGED <<channels, posting, alerting, job, crossed>>
    BY <1>1, <1>3, ChoiceFacts DEF BrandingUpdated, ConfigurationTypeOK, FormsEnd
  <2> QED
    BY <2>1, <2>2, OnlyBrands
<1>4. ASSUME NEW f \in Forms, TenantProfileSaved(f) PROVE Configured'
  <2>1. BrandsKept
    BY <1>1, <1>4 DEF TenantProfileSaved, BrandsKept, ConfigurationTypeOK, OneDefaultBrand, DefaultBrands
  <2>2. form' \in [Forms -> FormRows] /\ FormsEnd /\ UNCHANGED <<channels, posting, alerting, job, crossed>>
    BY <1>1, <1>4, ChoiceFacts DEF TenantProfileSaved, ConfigurationTypeOK, FormsEnd
  <2> QED
    BY <2>1, <2>2, OnlyBrands
<1>5. CASE (\E default \in BOOLEAN : BrandingCreate(default)) \/ (\E b \in BrandIds : BrandingDelete(b))
  <2>1. BrandsKept
    BY <1>1, <1>5, BrandsKeep
  <2>2. form' \in [Forms -> FormRows] /\ FormsEnd /\ UNCHANGED <<channels, posting, alerting, job, crossed>>
    BY <1>1, <1>5 DEF BrandingCreate, BrandingDelete, ConfigurationTypeOK, FormsEnd
  <2> QED
    BY <2>1, <2>2, OnlyBrands
<1>6. CASE \/ ChatChannelCreate
           \/ \E f \in Forms : ScheduleCreated(f) \/ ChatChannelDeleted(f) \/ ChatAlertsSaved(f)
           \/ \E s \in Schedules : ScheduleDelete(s)
  BY <1>6, ChannelsKeep
<1>7. ASSUME NEW j \in Jobs, (\E s \in Schedules : RunSchedule(j, s)) \/ LoadTarget(j) \/ Posted(j)
      PROVE  Configured'
  BY <1>7, JobsKeep
<1>8. CASE UNCHANGED configurationVars
  BY <1>8 DEF configurationVars, configured, Configured, ConfigurationTypeOK, ChannelsNumbered, Chosen, Alerts,
              OneDefaultBrand, DefaultBrands, Own, ChannelExists
<1> QED
  BY <1>2, <1>3, <1>4, <1>5, <1>6, <1>7, <1>8 DEF ConfigurationNext, Commits

LEMMA ConfiguredInit == ConfigurationInit => Configured
<1> SUFFICES ASSUME ConfigurationInit PROVE Configured
  OBVIOUS
<1>1. ConfigurationTypeOK
  BY ChoiceFacts DEF ConfigurationInit, ConfigurationTypeOK, NoBrand
<1>2. ChannelsNumbered /\ Chosen /\ Alerts
  BY ChoiceFacts, IdFacts DEF ConfigurationInit, ChannelsNumbered, Chosen, Alerts
<1>3. OneDefaultBrand
  BY DEF ConfigurationInit, OneDefaultBrand, DefaultBrands, NoBrand
<1> QED
  BY <1>1, <1>2, <1>3 DEF Configured

\* On a database that gives no id out twice there is one default brand, no
\* schedule and no alert names a channel that is gone, and reports are posted
\* where they were meant to go (_make_default, chat_channel_delete, load_target).
THEOREM ChoicesAreKept ==
  ASSUME ~ReuseIds
  PROVE  ConfigurationSpec => []ChoicesHold
<1>1. ConfigurationInit => Configured
  BY ConfiguredInit
<1>2. Configured /\ [ConfigurationNext]_configurationVars => Configured'
  BY ConfiguredStep
<1>3. Configured => ChoicesHold
  BY DEF Configured, ChoicesHold, Chosen, Alerts, ChannelsExist, PostsGoWhereMeant
<1> QED
  BY <1>1, <1>2, <1>3, PTL DEF ConfigurationSpec

-----------------------------------------------------------------------------
(* Signing in at a provider: types                                           *)

SsoSpec == SsoInit /\ [][SsoNext]_ssoVars

Entries == [at : Int, value : Nat]
SignIns == [browser : Browsers, issuer : Issuers, place : Nat, at : Nat, person : People \union {Nobody}, used : BOOLEAN]
Steps == {"none", "exchange", "verify", "sign in"}
Callbacks == [step : Steps, code : Nat, saved : Nat, issuer : Issuers \union {"none"}, key : Nat, timely : BOOLEAN]

SsoTypeOK ==
  /\ second \in Nat /\ changes \in 0..MaxChanges
  /\ setting \in [issuer : Issuers, enabled : BOOLEAN]
  /\ provider \in [Issuers -> [keys : Seq(Nat), place : Nat, up : BOOLEAN]]
  /\ known \in [Issuers -> Entries]
  /\ certificates \in [Issuers \X Places -> Entries]
  /\ begun \in Seq(SignIns)
  /\ cookie \in [Browsers -> Nat]
  /\ callback \in [Browsers -> Callbacks]

\* A provider has a key, and has been at no more places than there were changes
ProvidersThere ==
  \A i \in Issuers :
    /\ Len(provider[i].keys) >= 1
    /\ provider[i].place >= 1 /\ provider[i].place <= changes + 1
    /\ known[i].value <= changes + 1

\* What is kept: nothing is kept of a provider that did not answer, and a key that
\* is kept was the provider's when it was read
Empty(entry) == entry.at = -CacheSeconds /\ entry.value = 0
WasCurrent(i, entry) ==
  /\ entry.value >= 1 /\ entry.value <= Len(provider[i].keys) /\ entry.at <= second
  /\ entry.value < Len(provider[i].keys) => provider[i].keys[entry.value + 1] >= entry.at
KeysKept ==
  \A i \in Issuers, place \in Places :
    Empty(certificates[<<i, place>>]) \/ WasCurrent(i, certificates[<<i, place>>])

\* A sign-in that somebody came back from, in the browser it was begun in
Returned(b, n) == n \in 1..Len(begun) /\ begun[n].browser = b /\ begun[n].person # Nobody

CallbackOK(b, c) ==
  c.step # "none" =>
    /\ c.code = c.saved /\ Returned(b, c.code) /\ c.issuer \in Issuers
    /\ c.step # "exchange" => c.key >= 1 /\ c.key <= Len(provider[c.issuer].keys)
    /\ c.step = "sign in" => c.timely

Browsing ==
  \A b \in Browsers :
    /\ cookie[b] # 0 => cookie[b] \in 1..Len(begun) /\ begun[cookie[b]].browser = b
    /\ CallbackOK(b, callback[b])

SignedInOK ==
  \A s \in signedIn :
    /\ Returned(s.browser, s.number) /\ begun[s.number].person = s.subject
    /\ s.claims \in {Nobody, s.subject} /\ s.timely

TurnedAwayOK == \A t \in turnedAway : t.current /\ t.up => t.moved

Confirmed == SsoTypeOK /\ ProvidersThere /\ KeysKept /\ Browsing /\ SignedInOK /\ TurnedAwayOK

LEMMA SsoFacts ==
  /\ CacheSeconds \in Nat /\ CacheSeconds >= 1 /\ MaxChanges \in Nat /\ Nobody \notin People
  /\ \A place : place \in Places <=> place \in Nat /\ 1 <= place /\ place <= MaxChanges + 1
<1>1. CacheSeconds \in Nat /\ CacheSeconds >= 1 /\ MaxChanges \in Nat /\ Nobody \notin People
  BY SingleSignOnConstants DEF SingleSignOnConstants
<1> QED
  BY <1>1 DEF Places

LEMMA EmptyFacts ==
  /\ Unread \in Entries /\ Empty(Unread)
  /\ NoCallback \in Callbacks /\ NoCallback.step = "none" /\ NoCallback.key = 0
  BY SsoFacts DEF Unread, Entries, Empty, NoCallback, Callbacks, Steps

\* An entry that is empty is not recent
LEMMA NotRecent ==
  ASSUME SsoTypeOK, NEW entry, Empty(entry)
  PROVE  ~Recent(entry)
  BY SsoFacts DEF SsoTypeOK, Empty, Recent

LEMMA DiscoverFacts ==
  ASSUME Confirmed, NEW i \in Issuers, NEW fresh \in BOOLEAN
  PROVE  /\ Discover(i, fresh) \in Entries /\ Discover(i, fresh).value <= changes + 1
         /\ Discover(i, fresh).value # 0 => Discover(i, fresh).value \in Places
<1>1. known[i] \in Entries /\ known[i].value <= changes + 1 /\ second \in Nat /\ changes \in 0..MaxChanges
  BY DEF Confirmed, SsoTypeOK, ProvidersThere
<1>2. provider[i].place \in Nat /\ provider[i].place <= changes + 1
  BY DEF Confirmed, SsoTypeOK, ProvidersThere
<1>3. PICK v \in Nat : v = (IF provider[i].up THEN provider[i].place ELSE 0) /\ v <= changes + 1
  BY <1>1, <1>2, SsoFacts
<1>4. [at |-> second, value |-> v] \in Entries
  BY <1>1, <1>3 DEF Entries
<1>5. PICK d : d = Discover(i, fresh)
  OBVIOUS
<1>6. d \in Entries /\ d.value <= changes + 1
  <2>1. d = known[i] \/ d = [at |-> second, value |-> v]
    BY <1>3, <1>5 DEF Discover
  <2> QED
    BY <1>1, <1>3, <1>4, <2>1
<1>7. d.value \in Nat
  BY <1>6 DEF Entries
<1> QED
  BY <1>1, <1>5, <1>6, <1>7, SsoFacts

LEMMA JwksFacts ==
  ASSUME Confirmed, NEW i \in Issuers, NEW place \in Places, NEW fresh \in BOOLEAN, NEW e,
         e = Jwks(i, place, fresh)
  PROVE  /\ e \in Entries /\ e.at <= second
         /\ e.value # 0 => WasCurrent(i, e) /\ second - e.at < CacheSeconds
         /\ provider[i].up /\ provider[i].place = place => e.value # 0
         /\ fresh /\ e.value # 0 => e.value = CurrentKey(i)
         /\ fresh /\ provider[i].up /\ provider[i].place = place => e.value = CurrentKey(i)
<1>1. PICK k : k = certificates[<<i, place>>]
  OBVIOUS
<1>2. k \in Entries /\ (Empty(k) \/ WasCurrent(i, k)) /\ second \in Nat
  BY <1>1 DEF Confirmed, SsoTypeOK, KeysKept
<1>3. CurrentKey(i) \in Nat /\ CurrentKey(i) >= 1 /\ provider[i].keys \in Seq(Nat)
  BY DEF Confirmed, SsoTypeOK, ProvidersThere, CurrentKey
<1>4. CASE Recent(k) /\ ~fresh
  <2>1. e = k
    BY <1>1, <1>4 DEF Jwks
  <2>2. WasCurrent(i, k)
    BY <1>2, <1>4, NotRecent DEF Confirmed
  <2> QED
    BY <1>2, <1>4, <2>1, <2>2 DEF WasCurrent, Recent, Entries
<1>5. CASE ~(Recent(k) /\ ~fresh)
  <2>1. PICK v \in Nat : v = IF provider[i].up /\ provider[i].place = place THEN CurrentKey(i) ELSE 0
    BY <1>3
  <2>2. e = [at |-> second, value |-> v]
    BY <1>1, <1>5, <2>1 DEF Jwks
  <2>3. e \in Entries /\ e.at = second /\ e.value = v
    BY <1>2, <2>2 DEF Entries
  <2>4. v # 0 => WasCurrent(i, e)
    BY <1>2, <1>3, <2>1, <2>3 DEF WasCurrent, CurrentKey
  <2> QED
    BY <1>2, <1>3, <2>1, <2>3, <2>4, SsoFacts
<1> QED
  BY <1>4, <1>5

\* Looking for a key once more finds it when the provider has it, and what is
\* found was the provider's not long ago
LEMMA SigningKeyFacts ==
  ASSUME Confirmed, NEW i \in Issuers, NEW place \in Places, NEW key \in Nat, key >= 1, NEW e,
         e = SigningKey(i, place, key)
  PROVE  /\ e \in Entries /\ (e.value # 0 => WasCurrent(i, e))
         /\ e.value = key => Timely(i, key)
         /\ key = CurrentKey(i) /\ provider[i].up /\ provider[i].place = place => e.value = key
<1>1. PICK kept, again : kept = Jwks(i, place, FALSE) /\ again = Jwks(i, place, TRUE)
  OBVIOUS
<1>2. PICK no \in BOOLEAN, yes \in BOOLEAN : no = FALSE /\ yes = TRUE
  OBVIOUS
<1>3. /\ kept \in Entries /\ kept.at <= second
      /\ kept.value # 0 => WasCurrent(i, kept) /\ second - kept.at < CacheSeconds
      /\ provider[i].up /\ provider[i].place = place => kept.value # 0
  BY <1>1, <1>2, JwksFacts
<1>4. /\ again \in Entries /\ again.at <= second
      /\ again.value # 0 => WasCurrent(i, again) /\ second - again.at < CacheSeconds
      /\ provider[i].up /\ provider[i].place = place => again.value = CurrentKey(i)
  BY <1>1, <1>2, JwksFacts
<1>5. e = (IF kept.value \in {key, 0} THEN kept ELSE again)
  BY <1>1 DEF SigningKey
<1>6. ASSUME e.value = key PROVE Timely(i, key)
  <2>1. e \in Entries /\ WasCurrent(i, e) /\ second - e.at < CacheSeconds
    BY <1>3, <1>4, <1>5, <1>6
  <2>2. CASE key = Len(provider[i].keys)
    BY <2>2 DEF Timely, CurrentKey
  <2>3. CASE key < Len(provider[i].keys)
    <3>1. provider[i].keys \in Seq(Nat) /\ second \in Nat /\ key + 1 \in 1..Len(provider[i].keys)
      BY <2>3 DEF Confirmed, SsoTypeOK
    <3>2. PICK t \in Nat : t = provider[i].keys[key + 1]
      BY <3>1, SMTT(60)
    <3>3. t >= e.at /\ e.at \in Int
      BY <1>6, <2>1, <2>3, <3>2 DEF WasCurrent, Entries
    <3>4. second - t < CacheSeconds
      BY <2>1, <3>1, <3>3, SsoFacts
    <3> QED
      BY <3>2, <3>4 DEF Timely
  <2> QED
    BY <1>6, <2>1, <2>2, <2>3 DEF WasCurrent
<1> QED
  BY <1>3, <1>4, <1>5, <1>6

-----------------------------------------------------------------------------
(* What stays when others act                                                *)

Grows ==
  /\ Len(begun) <= Len(begun')
  /\ \A n \in 1..Len(begun) :
       /\ begun'[n].browser = begun[n].browser
       /\ begun[n].person # Nobody => begun'[n].person = begun[n].person

\* A provider's keys stay, and those it adds come into use now
ProvidersGrow ==
  /\ second <= second'
  /\ \A i \in Issuers :
       LET keys == provider[i].keys
           more == provider'[i].keys
       IN  /\ Len(keys) <= Len(more)
           /\ \A k \in 1..Len(more) : IF k <= Len(keys) THEN more[k] = keys[k] ELSE more[k] >= second

LEMMA ReturnedStays ==
  ASSUME SsoTypeOK, SsoTypeOK', Grows, NEW b, NEW n, Returned(b, n)
  PROVE  Returned(b, n)' /\ begun'[n].person = begun[n].person
  BY SMTT(60) DEF SsoTypeOK, Grows, Returned

LEMMA WasCurrentStays ==
  ASSUME SsoTypeOK, SsoTypeOK', ProvidersGrow, NEW i \in Issuers, NEW e \in Entries, WasCurrent(i, e)
  PROVE  WasCurrent(i, e)'
<1>1. PICK keys \in Seq(Nat), more \in Seq(Nat) : keys = provider[i].keys /\ more = provider'[i].keys
  BY DEF SsoTypeOK
<1>2. /\ Len(keys) <= Len(more) /\ second <= second'
      /\ \A k \in 1..Len(more) : IF k <= Len(keys) THEN more[k] = keys[k] ELSE more[k] >= second
  BY <1>1 DEF ProvidersGrow
<1>3. PICK v \in Nat, at \in Int : v = e.value /\ at = e.at
  BY DEF Entries
<1>4. /\ v >= 1 /\ v <= Len(keys) /\ at <= second
      /\ v < Len(keys) => keys[v + 1] >= at
  BY <1>1, <1>3 DEF WasCurrent
<1>5. second \in Nat /\ second' \in Nat
  BY DEF SsoTypeOK
<1>6. v <= Len(more) /\ at <= second'
  BY <1>2, <1>4, <1>5
<1>7. ASSUME v < Len(more) PROVE more[v + 1] >= at
  <2>1. v + 1 \in 1..Len(more)
    BY <1>4, <1>7
  <2>2. more[v + 1] \in Nat
    BY <2>1
  <2>3. CASE v + 1 <= Len(keys)
    BY <1>2, <1>4, <2>1, <2>3
  <2>4. CASE ~(v + 1 <= Len(keys))
    <3>1. more[v + 1] >= second
      BY <1>2, <2>1, <2>4
    <3> QED
      BY <1>4, <1>5, <2>2, <3>1
  <2> QED
    BY <2>3, <2>4
<1> QED
  BY <1>1, <1>3, <1>4, <1>6, <1>7 DEF WasCurrent

LEMMA CallbackStays ==
  ASSUME SsoTypeOK, SsoTypeOK', Grows, ProvidersGrow, NEW b, NEW c \in Callbacks, CallbackOK(b, c)
  PROVE  CallbackOK(b, c)'
<1> SUFFICES ASSUME c.step # "none"
             PROVE  /\ c.code = c.saved /\ Returned(b, c.code)' /\ c.issuer \in Issuers
                    /\ c.step # "exchange" => c.key >= 1 /\ c.key <= Len(provider'[c.issuer].keys)
                    /\ c.step = "sign in" => c.timely
  BY DEF CallbackOK
<1>1. /\ c.code = c.saved /\ Returned(b, c.code) /\ c.issuer \in Issuers
      /\ c.step # "exchange" => c.key >= 1 /\ c.key <= Len(provider[c.issuer].keys)
      /\ c.step = "sign in" => c.timely
  BY DEF CallbackOK
<1>2. Returned(b, c.code)'
  BY <1>1, ReturnedStays
<1>3. ASSUME c.key <= Len(provider[c.issuer].keys) PROVE c.key <= Len(provider'[c.issuer].keys)
  <2>1. PICK keys \in Seq(Nat), more \in Seq(Nat) : keys = provider[c.issuer].keys /\ more = provider'[c.issuer].keys
    BY <1>1 DEF SsoTypeOK
  <2>2. Len(keys) <= Len(more) /\ c.key \in Nat
    BY <1>1, <2>1 DEF ProvidersGrow, Callbacks
  <2> QED
    BY <1>3, <2>1, <2>2
<1> QED
  BY <1>1, <1>2, <1>3

\* What an action may do to the rest
KeysFollow ==
  \A i \in Issuers, place \in Places :
    \/ certificates'[<<i, place>>] = certificates[<<i, place>>]
    \/ Empty(certificates'[<<i, place>>])
    \/ \E e \in Entries : e = certificates'[<<i, place>>] /\ WasCurrent(i, e)

BrowsersFollow ==
  \A b \in Browsers :
    /\ \/ cookie'[b] \in {0, cookie[b]}
       \/ cookie'[b] \in 1..Len(begun') /\ begun'[cookie'[b]].browser = b
    /\ callback'[b] = callback[b] \/ \E c : c = callback'[b] /\ CallbackOK(b, c)'

NewlySignedIn ==
  \A s \in signedIn' : \/ s \in signedIn
                        \/ /\ Returned(s.browser, s.number) /\ begun[s.number].person = s.subject
                           /\ s.claims \in {Nobody, s.subject} /\ s.timely

NewlyTurnedAway == \A t \in turnedAway' : t \in turnedAway \/ (t.current /\ t.up => t.moved)

LEMMA SsoKeeps ==
  ASSUME Confirmed, SsoTypeOK', ProvidersThere', Grows, ProvidersGrow,
         KeysFollow, BrowsersFollow, NewlySignedIn, NewlyTurnedAway
  PROVE  Confirmed'
<1>1. SsoTypeOK
  BY DEF Confirmed
<1>2. KeysKept'
  <2> SUFFICES ASSUME NEW i \in Issuers, NEW place \in Places
               PROVE  Empty(certificates'[<<i, place>>]) \/ WasCurrent(i, certificates[<<i, place>>])'
    BY DEF KeysKept, Empty
  <2>1. PICK e \in Entries : e = certificates'[<<i, place>>]
    BY DEF SsoTypeOK
  <2>4. \/ e = certificates[<<i, place>>] \/ Empty(e) \/ WasCurrent(i, e)
    BY <2>1 DEF KeysFollow
  <2>2. CASE WasCurrent(i, e)
    <3>1. WasCurrent(i, e)'
      BY <1>1, <2>2, WasCurrentStays
    <3> QED
      BY <2>1, <3>1 DEF WasCurrent
  <2>3. CASE e = certificates[<<i, place>>]
    <3>1. Empty(e) \/ WasCurrent(i, e)
      BY <2>1, <2>3 DEF Confirmed, KeysKept
    <3> QED
      BY <2>1, <2>2, <3>1
  <2> QED
    BY <2>1, <2>2, <2>3, <2>4
<1>3. Browsing'
  <2> SUFFICES ASSUME NEW b \in Browsers
               PROVE  /\ cookie'[b] # 0 => cookie'[b] \in 1..Len(begun') /\ begun'[cookie'[b]].browser = b
                      /\ CallbackOK(b, callback[b])'
    BY DEF Browsing
  <2>1. PICK c \in Callbacks : c = callback'[b]
    BY DEF SsoTypeOK
  <2>2. CallbackOK(b, c)'
    <3>1. CASE c = callback[b]
      <4>1. CallbackOK(b, c)
        BY <3>1 DEF Confirmed, Browsing
      <4> QED
        BY <1>1, <4>1, CallbackStays
    <3> QED
      BY <2>1, <3>1 DEF BrowsersFollow
  <2>3. CallbackOK(b, callback[b])'
    BY <2>1, <2>2 DEF CallbackOK
  <2>4. CASE cookie'[b] \in {0, cookie[b]}
    <3>1. cookie'[b] # 0 => cookie'[b] \in 1..Len(begun) /\ begun[cookie'[b]].browser = b
      BY <2>4 DEF Confirmed, Browsing
    <3>2. Len(begun) \in Nat /\ Len(begun') \in Nat /\ Len(begun) <= Len(begun')
      BY <1>1, SMTT(60) DEF SsoTypeOK, Grows
    <3>3. 1..Len(begun) \subseteq 1..Len(begun')
      BY <3>2
    <3>4. cookie'[b] # 0 => cookie'[b] \in 1..Len(begun') /\ begun'[cookie'[b]].browser = b
      BY <3>1, <3>3 DEF Grows
    <3> QED
      BY <2>3, <3>4
  <2> QED
    BY <2>3, <2>4 DEF BrowsersFollow
<1>4. SignedInOK'
  <2> SUFFICES ASSUME NEW s \in signedIn'
               PROVE  /\ Returned(s.browser, s.number)' /\ begun'[s.number].person = s.subject
                      /\ s.claims \in {Nobody, s.subject} /\ s.timely
    BY DEF SignedInOK
  <2>1. /\ Returned(s.browser, s.number) /\ begun[s.number].person = s.subject
        /\ s.claims \in {Nobody, s.subject} /\ s.timely
    BY DEF Confirmed, SignedInOK, NewlySignedIn
  <2> QED
    BY <1>1, <2>1, ReturnedStays
<1>5. TurnedAwayOK'
  BY DEF Confirmed, TurnedAwayOK, NewlyTurnedAway
<1> QED
  BY <1>2, <1>3, <1>4, <1>5 DEF Confirmed

-----------------------------------------------------------------------------
(* The parts an action is put together from                                  *)

LEMMA StandStill ==
  ASSUME SsoTypeOK
  PROVE  /\ begun' = begun => Grows
         /\ provider' = provider /\ second <= second' => ProvidersGrow
<1>1. \A i \in Issuers : provider[i].keys \in Seq(Nat)
  BY DEF SsoTypeOK
<1>2. begun \in Seq(SignIns)
  BY DEF SsoTypeOK
<1>3. begun' = begun => Grows
  BY <1>2 DEF Grows
<1>4. provider' = provider /\ second <= second' => ProvidersGrow
  BY <1>1 DEF ProvidersGrow
<1> QED
  BY <1>3, <1>4

LEMMA ProviderKept ==
  ASSUME Confirmed, NEW i \in Issuers, NEW found \in Entries, found.value <= changes + 1,
         KeepProvider(i, found), provider' = provider, changes' \in 0..MaxChanges, changes <= changes'
  PROVE  known' \in [Issuers -> Entries] /\ ProvidersThere'
<1>1. known \in [Issuers -> Entries] /\ changes \in Nat /\ changes' \in Nat
  BY SsoFacts DEF Confirmed, SsoTypeOK
<1>2. PICK e : e = Stored(known[i], found)
  OBVIOUS
<1>3. e = known[i] \/ e = found
  BY <1>2 DEF Stored
<1>4. e \in Entries /\ e.value <= changes + 1
  BY <1>1, <1>3 DEF Confirmed, ProvidersThere
<1>5. known' = [known EXCEPT ![i] = e]
  BY <1>2 DEF KeepProvider
<1>6. known' \in [Issuers -> Entries]
  BY <1>1, <1>4, <1>5
<1>7. ASSUME NEW j \in Issuers PROVE known'[j].value <= changes' + 1
  <2>1. known'[j] = known[j] \/ known'[j] = e
    BY <1>1, <1>5
  <2>2. known[j].value <= changes + 1 /\ known[j] \in Entries
    BY <1>1 DEF Confirmed, ProvidersThere
  <2>3. PICK v \in Nat : v = known'[j].value /\ v <= changes + 1
    BY <1>4, <2>1, <2>2 DEF Entries
  <2> QED
    BY <1>1, <2>3
<1>8. ASSUME NEW j \in Issuers PROVE provider[j].place <= changes' + 1
  <2>1. provider[j].place \in Nat /\ provider[j].place <= changes + 1
    BY DEF Confirmed, SsoTypeOK, ProvidersThere
  <2> QED
    BY <1>1, <2>1
<1> QED
  BY <1>6, <1>7, <1>8 DEF Confirmed, ProvidersThere

LEMMA KeysStored ==
  ASSUME Confirmed, NEW i \in Issuers, NEW place \in Places, NEW e \in Entries,
         e.value # 0 => WasCurrent(i, e), KeepKeys(i, place, e)
  PROVE  certificates' \in [Issuers \X Places -> Entries] /\ KeysFollow
<1>1. certificates \in [Issuers \X Places -> Entries]
  BY DEF Confirmed, SsoTypeOK
<1>9. <<i, place>> \in Issuers \X Places
  OBVIOUS
<1>2. PICK x \in Issuers \X Places : x = <<i, place>>
  BY <1>9
<1>3. PICK f : f = Stored(certificates[x], e)
  OBVIOUS
<1>4. f = certificates[x] \/ (f = e /\ WasCurrent(i, e))
  BY <1>3 DEF Stored
<1>5. certificates' = [certificates EXCEPT ![x] = f]
  BY <1>2, <1>3 DEF KeepKeys
<1>6. certificates' \in [Issuers \X Places -> Entries]
  BY <1>1, <1>2, <1>4, <1>5
<1>7. ASSUME NEW j \in Issuers, NEW q \in Places
      PROVE  \/ certificates'[<<j, q>>] = certificates[<<j, q>>]
             \/ \E g \in Entries : g = certificates'[<<j, q>>] /\ WasCurrent(j, g)
  <2>1. CASE <<j, q>> = x
    <3>1. j = i /\ certificates'[<<j, q>>] = f
      BY <1>1, <1>2, <1>5, <2>1
    <3>2. f = certificates[<<j, q>>] \/ (f = e /\ WasCurrent(j, e))
      BY <1>4, <2>1, <3>1
    <3> QED
      BY <3>1, <3>2
  <2>2. CASE <<j, q>> # x
    BY <1>1, <1>5, <2>2
  <2> QED
    BY <2>1, <2>2
<1> QED
  BY <1>6, <1>7 DEF KeysFollow

LEMMA BrowserFails ==
  ASSUME Confirmed, NEW b \in Browsers, Failed(b)
  PROVE  cookie' \in [Browsers -> Nat] /\ callback' \in [Browsers -> Callbacks] /\ BrowsersFollow
<1>1. cookie \in [Browsers -> Nat] /\ callback \in [Browsers -> Callbacks]
  BY DEF Confirmed, SsoTypeOK
<1>2. PICK none \in Callbacks : none = NoCallback /\ none.step = "none"
  BY EmptyFacts
<1>3. cookie' = [cookie EXCEPT ![b] = 0] /\ callback' = [callback EXCEPT ![b] = none]
  BY <1>2 DEF Failed
<1>4. cookie' \in [Browsers -> Nat] /\ callback' \in [Browsers -> Callbacks]
  BY <1>1, <1>2, <1>3
<1>5. ASSUME NEW a \in Browsers
      PROVE  /\ cookie'[a] \in {0, cookie[a]}
             /\ callback'[a] = callback[a] \/ \E c : c = callback'[a] /\ CallbackOK(a, c)'
  <2>1. cookie'[a] \in {0, cookie[a]}
    BY <1>1, <1>3
  <2>2. callback'[a] = callback[a] \/ callback'[a] = none
    BY <1>1, <1>3
  <2>3. CallbackOK(a, none)'
    BY <1>2 DEF CallbackOK
  <2> QED
    BY <2>1, <2>2, <2>3
<1> QED
  BY <1>4, <1>5 DEF BrowsersFollow

LEMMA NothingFollows ==
  /\ certificates' = certificates => KeysFollow
  /\ cookie' = cookie /\ callback' = callback => BrowsersFollow
  /\ signedIn' = signedIn => NewlySignedIn
  /\ turnedAway' = turnedAway => NewlyTurnedAway
  BY DEF KeysFollow, BrowsersFollow, NewlySignedIn, NewlyTurnedAway

-----------------------------------------------------------------------------
(* The actions                                                               *)

LEMMA SsoStartKeeps ==
  ASSUME Confirmed, NEW b \in Browsers, SsoStart(b)
  PROVE  Confirmed'
<1>1. PICK i \in Issuers : i = setting.issuer
  BY DEF Confirmed, SsoTypeOK
<1>2. PICK no \in BOOLEAN : no = FALSE
  OBVIOUS
<1>3. PICK found : found = Discover(i, no)
  OBVIOUS
<1>4. found \in Entries /\ found.value <= changes + 1
  BY <1>2, <1>3, DiscoverFacts
<1>5. /\ UNCHANGED <<second, process, certificates, callback, signedIn, turnedAway>>
      /\ KeepProvider(i, found)
      /\ \/ cookie' = [cookie EXCEPT ![b] = 0] /\ begun' = begun
         \/ /\ begun' = Append(begun, [browser |-> b, issuer |-> i, place |-> found.value,
                                       at |-> second, person |-> Nobody, used |-> FALSE])
            /\ cookie' = [cookie EXCEPT ![b] = Len(begun')]
  BY <1>1, <1>2, <1>3 DEF SsoStart
<1>6. /\ provider' = provider /\ changes' = changes /\ second' = second /\ setting' = setting
      /\ certificates' = certificates /\ callback' = callback /\ signedIn' = signedIn
      /\ turnedAway' = turnedAway
  BY <1>5 DEF process
<1>7. SsoTypeOK /\ second \in Nat /\ changes \in 0..MaxChanges /\ changes <= changes'
      /\ cookie \in [Browsers -> Nat] /\ begun \in Seq(SignIns) /\ second <= second'
  BY <1>6, SsoFacts DEF Confirmed, SsoTypeOK
<1>8. known' \in [Issuers -> Entries] /\ ProvidersThere'
  BY <1>4, <1>5, <1>6, <1>7, ProviderKept
<1>9. PICK r : r = [browser |-> b, issuer |-> i, place |-> found.value,
                    at |-> second, person |-> Nobody, used |-> no]
  OBVIOUS
<1>10. r \in SignIns /\ r.browser = b
  BY <1>4, <1>7, <1>9 DEF SignIns, Entries
<1>11. \/ cookie' = [cookie EXCEPT ![b] = 0] /\ begun' = begun
       \/ begun' = Append(begun, r) /\ cookie' = [cookie EXCEPT ![b] = Len(begun')]
  BY <1>2, <1>5, <1>9
<1>12. /\ begun' \in Seq(SignIns) /\ cookie' \in [Browsers -> Nat] /\ Grows
       /\ \A a \in Browsers : \/ cookie'[a] \in {0, cookie[a]}
                              \/ cookie'[a] \in 1..Len(begun') /\ begun'[cookie'[a]].browser = a
  <2>1. CASE cookie' = [cookie EXCEPT ![b] = 0] /\ begun' = begun
    <3>1. Grows
      BY <1>7, <2>1, StandStill
    <3>2. cookie' \in [Browsers -> Nat] /\ \A a \in Browsers : cookie'[a] \in {0, cookie[a]}
      BY <1>7, <2>1
    <3> QED
      BY <1>7, <2>1, <3>1, <3>2
  <2>2. CASE begun' = Append(begun, r) /\ cookie' = [cookie EXCEPT ![b] = Len(begun')]
    <3>1. /\ begun' \in Seq(SignIns) /\ Len(begun') = Len(begun) + 1 /\ Len(begun) \in Nat
          /\ \A n \in 1..Len(begun) : begun'[n] = begun[n]
          /\ begun'[Len(begun) + 1] = r
      BY <1>7, <1>10, <2>2
    <3>2. Grows
      BY <3>1 DEF Grows
    <3>3. PICK l \in Nat : l = Len(begun') /\ l = Len(begun) + 1
      BY <3>1
    <3>4. cookie' = [cookie EXCEPT ![b] = l]
      BY <2>2, <3>3
    <3>5. cookie' \in [Browsers -> Nat] /\ \A a \in Browsers : cookie'[a] = IF a = b THEN l ELSE cookie[a]
      BY <1>7, <3>3, <3>4
    <3>6. l \in 1..Len(begun') /\ begun'[l].browser = b
      BY <1>10, <3>1, <3>3
    <3> QED
      BY <3>1, <3>2, <3>5, <3>6
  <2> QED
    BY <1>11, <2>1, <2>2
<1>13. SsoTypeOK'
  BY <1>6, <1>8, <1>12 DEF Confirmed, SsoTypeOK
<1>14. BrowsersFollow
  BY <1>6, <1>12 DEF BrowsersFollow
<1> QED
  BY <1>6, <1>7, <1>8, <1>12, <1>13, <1>14, StandStill, NothingFollows, SsoKeeps

LEMMA ConfirmKeeps ==
  ASSUME Confirmed, NEW n \in DOMAIN begun, NEW p \in People, Confirm(n, p)
  PROVE  Confirmed'
<1>1. /\ provider' = provider /\ changes' = changes /\ second' = second /\ setting' = setting
      /\ certificates' = certificates /\ callback' = callback /\ signedIn' = signedIn
      /\ turnedAway' = turnedAway /\ cookie' = cookie /\ known' = known
      /\ begun' = [begun EXCEPT ![n].person = p] /\ begun[n].person = Nobody
  BY DEF Confirm, process
<1>2. SsoTypeOK /\ second \in Nat /\ begun \in Seq(SignIns) /\ second <= second'
  BY <1>1 DEF Confirmed, SsoTypeOK
<1>3. n \in 1..Len(begun) /\ begun[n] \in SignIns
  BY <1>2
<1>4. PICK r : r = [begun[n] EXCEPT !.person = p]
  OBVIOUS
<1>5. r \in SignIns /\ r.browser = begun[n].browser
  BY <1>3, <1>4 DEF SignIns
<1>6. begun' = [begun EXCEPT ![n] = r]
  BY <1>1, <1>4
<1>7. /\ begun' \in Seq(SignIns) /\ Len(begun') = Len(begun)
      /\ \A m \in 1..Len(begun) : begun'[m] = IF m = n THEN r ELSE begun[m]
  BY <1>2, <1>3, <1>5, <1>6
<1>8. Grows
  BY <1>1, <1>2, <1>5, <1>7 DEF Grows
<1>9. SsoTypeOK' /\ ProvidersThere'
  BY <1>1, <1>7 DEF Confirmed, SsoTypeOK, ProvidersThere
<1> QED
  BY <1>1, <1>2, <1>8, <1>9, StandStill, NothingFollows, SsoKeeps

LEMMA SsoRefusedKeeps ==
  ASSUME Confirmed, NEW b \in Browsers, SsoRefused(b)
  PROVE  Confirmed'
<1>1. /\ provider' = provider /\ changes' = changes /\ second' = second /\ setting' = setting
      /\ certificates' = certificates /\ signedIn' = signedIn
      /\ turnedAway' = turnedAway /\ begun' = begun /\ known' = known /\ Failed(b)
  BY DEF SsoRefused, process
<1>2. SsoTypeOK /\ second <= second'
  BY <1>1 DEF Confirmed, SsoTypeOK
<1>3. cookie' \in [Browsers -> Nat] /\ callback' \in [Browsers -> Callbacks] /\ BrowsersFollow
  BY <1>1, BrowserFails
<1>4. SsoTypeOK' /\ ProvidersThere'
  BY <1>1, <1>3 DEF Confirmed, SsoTypeOK, ProvidersThere
<1> QED
  BY <1>1, <1>2, <1>3, <1>4, StandStill, NothingFollows, SsoKeeps

LEMMA SsoReturnsKeeps ==
  ASSUME Confirmed, NEW b \in Browsers, NEW n \in DOMAIN begun, SsoReturns(b, n)
  PROVE  Confirmed'
<1>1. /\ provider' = provider /\ changes' = changes /\ second' = second /\ setting' = setting
      /\ certificates' = certificates /\ signedIn' = signedIn
      /\ turnedAway' = turnedAway /\ begun' = begun /\ known' = known
  BY DEF SsoReturns, process
<1>2. SsoTypeOK /\ second <= second'
  BY <1>1 DEF Confirmed, SsoTypeOK
<1>3. /\ begun[n].person # Nobody
      /\ \/ Failed(b)
         \/ /\ cookie[b] = n /\ cookie[b] # 0 /\ cookie' = cookie
            /\ callback' = [callback EXCEPT ![b] = [NoCallback EXCEPT
                 !.step = "exchange", !.code = n, !.saved = cookie[b], !.issuer = setting.issuer]]
  BY DEF SsoReturns, ReadState
<1>4. cookie' \in [Browsers -> Nat] /\ callback' \in [Browsers -> Callbacks] /\ BrowsersFollow
  <2>1. CASE Failed(b)
    BY <2>1, BrowserFails
  <2>2. CASE /\ cookie[b] = n /\ cookie[b] # 0 /\ cookie' = cookie
             /\ callback' = [callback EXCEPT ![b] = [NoCallback EXCEPT
                  !.step = "exchange", !.code = n, !.saved = cookie[b], !.issuer = setting.issuer]]
    <3>1. cookie[b] \in 1..Len(begun) /\ begun[cookie[b]].browser = b
      BY <2>2 DEF Confirmed, Browsing
    <3>2. setting.issuer \in Issuers /\ n \in Nat
      BY <1>2, <2>2 DEF SsoTypeOK
    <3>3. PICK c : c = [NoCallback EXCEPT
                 !.step = "exchange", !.code = n, !.saved = cookie[b], !.issuer = setting.issuer]
      OBVIOUS
    <3>4. c \in Callbacks /\ c.step = "exchange" /\ c.code = n /\ c.saved = n /\ c.issuer = setting.issuer
      BY <2>2, <3>2, <3>3, EmptyFacts DEF Callbacks, Steps
    <3>5. Returned(b, n)'
      BY <1>1, <1>3, <2>2, <3>1 DEF Returned
    <3>6. CallbackOK(b, c)'
      BY <3>2, <3>4, <3>5 DEF CallbackOK
    <3>7. callback' = [callback EXCEPT ![b] = c]
      BY <2>2, <3>3
    <3>8. callback' \in [Browsers -> Callbacks] /\ \A a \in Browsers : callback'[a] = IF a = b THEN c ELSE callback[a]
      BY <1>2, <3>4, <3>7 DEF SsoTypeOK
    <3> QED
      BY <1>2, <2>2, <3>6, <3>8 DEF SsoTypeOK, BrowsersFollow
  <2> QED
    BY <1>3, <2>1, <2>2
<1>5. SsoTypeOK' /\ ProvidersThere'
  BY <1>1, <1>4 DEF Confirmed, SsoTypeOK, ProvidersThere
<1> QED
  BY <1>1, <1>2, <1>4, <1>5, StandStill, NothingFollows, SsoKeeps

LEMMA ExchangeKeeps ==
  ASSUME Confirmed, NEW b \in Browsers, Exchange(b)
  PROVE  Confirmed'
<1>1. PICK c \in Callbacks : c = callback[b]
  BY DEF Confirmed, SsoTypeOK
<1>2. c.step = "exchange"
  BY <1>1 DEF Exchange
<1>3. CallbackOK(b, c)
  BY <1>1 DEF Confirmed, Browsing
<1>4. c.code = c.saved /\ Returned(b, c.code) /\ c.issuer \in Issuers
  BY <1>2, <1>3 DEF CallbackOK
<1>5. PICK no \in BOOLEAN : no = FALSE
  OBVIOUS
<1>c. PICK i \in Issuers : i = c.issuer
  BY <1>4
<1>6. PICK found : i = c.issuer /\ found = Discover(i, no)
  BY <1>c
<1>7. found \in Entries /\ found.value <= changes + 1
  BY <1>5, <1>6, DiscoverFacts
<1>8. PICK taken \in BOOLEAN :
        taken = (/\ provider[i].up /\ provider[i].place = found.value
                 /\ begun[c.code].issuer = c.issuer /\ c.saved = c.code /\ ~begun[c.code].used)
  OBVIOUS
<1>9. /\ provider' = provider /\ changes' = changes /\ second' = second /\ setting' = setting
      /\ certificates' = certificates /\ signedIn' = signedIn /\ turnedAway' = turnedAway
      /\ KeepProvider(i, found)
      /\ begun' = [begun EXCEPT ![c.code].used = @ \/ taken]
      /\ \/ Failed(b)
         \/ /\ callback' = [callback EXCEPT ![b].step = "verify", ![b].key = CurrentKey(i)]
            /\ cookie' = cookie
  BY <1>1, <1>5, <1>6, <1>8 DEF Exchange, process
<1>10. SsoTypeOK /\ second <= second' /\ changes <= changes' /\ changes' \in 0..MaxChanges
  BY <1>9, SsoFacts DEF Confirmed, SsoTypeOK
<1>11. known' \in [Issuers -> Entries] /\ ProvidersThere'
  BY <1>7, <1>9, <1>10, ProviderKept
<1>12. PICK n \in 1..Len(begun) : n = c.code /\ begun[n].browser = b /\ begun[n].person # Nobody
  BY <1>4 DEF Returned
<1>13. begun \in Seq(SignIns) /\ begun[n] \in SignIns
  BY <1>10, <1>12 DEF SsoTypeOK
<1>14. PICK r : r = [begun[n] EXCEPT !.used = begun[n].used \/ taken]
  OBVIOUS
<1>15. r \in SignIns /\ r.browser = begun[n].browser /\ r.person = begun[n].person
  BY <1>13, <1>14 DEF SignIns
<1>16. begun' = [begun EXCEPT ![n] = r]
  BY <1>9, <1>12, <1>14
<1>17. /\ begun' \in Seq(SignIns) /\ Len(begun') = Len(begun)
       /\ \A m \in 1..Len(begun) : begun'[m] = IF m = n THEN r ELSE begun[m]
  BY <1>13, <1>15, <1>16
<1>18. Grows
  BY <1>13, <1>15, <1>17 DEF Grows
<1>19. cookie' \in [Browsers -> Nat] /\ callback' \in [Browsers -> Callbacks] /\ BrowsersFollow
  <2>1. CASE Failed(b)
    BY <2>1, BrowserFails
  <2>2. CASE /\ callback' = [callback EXCEPT ![b].step = "verify", ![b].key = CurrentKey(i)]
             /\ cookie' = cookie
    <3>1. PICK key : key = CurrentKey(i)
      OBVIOUS
    <3>2. key \in Nat /\ key >= 1 /\ key <= Len(provider'[i].keys)
      BY <1>9, <1>10, <3>1 DEF Confirmed, SsoTypeOK, ProvidersThere, CurrentKey
    <3>3. PICK d : d = [c EXCEPT !.step = "verify", !.key = key]
      OBVIOUS
    <3>4. d \in Callbacks /\ d.step = "verify" /\ d.key = key /\ d.code = n /\ d.saved = n /\ d.issuer = i
      BY <1>4, <1>6, <1>12, <3>2, <3>3 DEF Callbacks, Steps
    <3>5. Returned(b, n)'
      BY <1>12, <1>15, <1>17 DEF Returned
    <3>6. CallbackOK(b, d)'
      BY <3>2, <3>4, <3>5 DEF CallbackOK
    <3>7. callback' = [callback EXCEPT ![b] = d]
      BY <1>1, <2>2, <3>1, <3>3
    <3>8. callback' \in [Browsers -> Callbacks] /\ \A a \in Browsers : callback'[a] = IF a = b THEN d ELSE callback[a]
      BY <1>10, <3>4, <3>7 DEF SsoTypeOK
    <3> QED
      BY <1>10, <2>2, <3>6, <3>8 DEF SsoTypeOK, BrowsersFollow
  <2> QED
    BY <1>9, <2>1, <2>2
<1>20. SsoTypeOK'
  BY <1>9, <1>10, <1>11, <1>17, <1>19 DEF SsoTypeOK
<1> QED
  BY <1>9, <1>10, <1>11, <1>18, <1>19, <1>20, StandStill, NothingFollows, SsoKeeps

LEMMA VerifyIdTokenKeeps ==
  ASSUME Confirmed, NEW b \in Browsers, VerifyIdToken(b)
  PROVE  Confirmed'
<1>1. PICK c \in Callbacks : c = callback[b]
  BY DEF Confirmed, SsoTypeOK
<1>2. c.step = "verify"
  BY <1>1 DEF VerifyIdToken
<1>3. CallbackOK(b, c)
  BY <1>1 DEF Confirmed, Browsing
<1>4. /\ c.code = c.saved /\ Returned(b, c.code) /\ c.issuer \in Issuers
      /\ c.key \in Nat /\ c.key >= 1 /\ c.key <= Len(provider[c.issuer].keys)
  BY <1>2, <1>3 DEF CallbackOK, Callbacks
<1>5. PICK no \in BOOLEAN : no = FALSE
  OBVIOUS
<1>c. PICK i \in Issuers : i = c.issuer
  BY <1>4
<1>6. PICK found : i = c.issuer /\ found = Discover(i, no)
  BY <1>c
<1>7. /\ found \in Entries /\ found.value <= changes + 1
      /\ found.value # 0 => found.value \in Places
  BY <1>5, <1>6, DiscoverFacts
<1>8. PICK e : e = SigningKey(i, found.value, c.key)
  OBVIOUS
<1>22. PICK t : t = [current |-> c.key = CurrentKey(i), up |-> provider[i].up,
                     moved |-> found.value # provider[i].place]
  OBVIOUS
<1>17. /\ i = callback[b].issuer /\ found = Discover(i, FALSE)
       /\ e = SigningKey(i, found.value, callback[b].key) /\ callback[b].code = callback[b].saved
  BY <1>1, <1>4, <1>5, <1>6, <1>8
<1>18. /\ provider' = provider /\ changes' = changes /\ second' = second /\ setting' = setting
       /\ signedIn' = signedIn /\ begun' = begun
       /\ KeepProvider(i, found)
  BY <1>17 DEF VerifyIdToken, process
<1>19. ASSUME found.value = 0 PROVE Failed(b) /\ certificates' = certificates /\ turnedAway' = turnedAway
  BY <1>17, <1>19 DEF VerifyIdToken
<1>20. ASSUME found.value # 0, e.value = c.key
       PROVE  /\ KeepKeys(i, found.value, e) /\ cookie' = cookie /\ turnedAway' = turnedAway
              /\ callback' = [callback EXCEPT ![b].step = "sign in", ![b].timely = Timely(i, c.key)]
  <2>1. /\ KeepKeys(i, found.value, e) /\ cookie' = cookie /\ turnedAway' = turnedAway
        /\ callback' = [callback EXCEPT ![b].step = "sign in", ![b].timely = Timely(i, callback[b].key)]
    BY <1>1, <1>17, <1>20 DEF VerifyIdToken
  <2> QED
    BY <1>1, <2>1
<1>21. ASSUME found.value # 0, e.value # c.key
       PROVE  /\ KeepKeys(i, found.value, e) /\ Failed(b)
              /\ turnedAway' = turnedAway \union {t}
  <2>1. /\ KeepKeys(i, found.value, e) /\ Failed(b)
        /\ turnedAway' = turnedAway \union
              {[current |-> callback[b].key = CurrentKey(i), up |-> provider[i].up,
                moved |-> found.value # provider[i].place]}
    BY <1>1, <1>17, <1>21 DEF VerifyIdToken
  <2> QED
    BY <1>1, <1>22, <2>1
<1>9. /\ provider' = provider /\ changes' = changes /\ second' = second /\ setting' = setting
      /\ signedIn' = signedIn /\ begun' = begun
      /\ KeepProvider(i, found)
      /\ \/ Failed(b) /\ certificates' = certificates /\ turnedAway' = turnedAway
         \/ /\ found.value # 0 /\ KeepKeys(i, found.value, e)
            /\ \/ /\ e.value = c.key /\ cookie' = cookie /\ turnedAway' = turnedAway
                  /\ callback' = [callback EXCEPT ![b].step = "sign in", ![b].timely = Timely(i, c.key)]
               \/ /\ e.value # c.key /\ Failed(b)
                  /\ turnedAway' = turnedAway \union {t}
  BY <1>18, <1>19, <1>20, <1>21
<1>10. SsoTypeOK /\ second <= second' /\ changes <= changes' /\ changes' \in 0..MaxChanges
  BY <1>18, SsoFacts DEF Confirmed, SsoTypeOK
<1>11. known' \in [Issuers -> Entries] /\ ProvidersThere'
  BY <1>7, <1>9, <1>10, ProviderKept
<1>12. ASSUME found.value # 0
       PROVE  /\ e \in Entries /\ (e.value # 0 => WasCurrent(i, e))
              /\ e.value = c.key => Timely(i, c.key)
              /\ c.key = CurrentKey(i) /\ provider[i].up /\ provider[i].place = found.value => e.value = c.key
  BY <1>4, <1>7, <1>8, <1>12, SigningKeyFacts
<1>13. certificates' \in [Issuers \X Places -> Entries] /\ KeysFollow
  <2>1. CASE certificates' = certificates
    BY <1>10, <2>1, NothingFollows DEF SsoTypeOK
  <2>2. CASE found.value # 0 /\ KeepKeys(i, found.value, e)
    BY <1>7, <1>12, <2>2, KeysStored
  <2> QED
    BY <1>9, <2>1, <2>2
<1>14. NewlyTurnedAway
  <2>1. CASE turnedAway' = turnedAway
    BY <2>1, NothingFollows
  <2>2. CASE /\ found.value # 0 /\ e.value # c.key
             /\ turnedAway' = turnedAway \union {t}
    <3>1. ~(c.key = CurrentKey(i) /\ provider[i].up /\ provider[i].place = found.value)
      BY <1>12, <2>2
    <3>2. t.current /\ t.up => t.moved
      BY <1>22, <3>1
    <3> QED
      BY <2>2, <3>2 DEF NewlyTurnedAway
  <2> QED
    BY <1>9, <2>1, <2>2
<1>15. cookie' \in [Browsers -> Nat] /\ callback' \in [Browsers -> Callbacks] /\ BrowsersFollow
  <2>1. CASE Failed(b)
    BY <2>1, BrowserFails
  <2>2. CASE /\ found.value # 0 /\ e.value = c.key /\ cookie' = cookie
             /\ callback' = [callback EXCEPT ![b].step = "sign in", ![b].timely = Timely(i, c.key)]
    <3>1. PICK yes \in BOOLEAN : yes = Timely(i, c.key)
      BY DEF Timely
    <3>2. yes = TRUE
      BY <1>12, <2>2, <3>1
    <3>3. PICK d : d = [c EXCEPT !.step = "sign in", !.timely = yes]
      OBVIOUS
    <3>4. d \in Callbacks /\ d.step = "sign in" /\ d.timely = yes /\ d.key = c.key /\ d.code = c.code
          /\ d.saved = c.saved /\ d.issuer = i
      BY <1>6, <3>3 DEF Callbacks, Steps
    <3>5. Returned(b, c.code)'
      BY <1>4, <1>9 DEF Returned
    <3>6. c.key <= Len(provider'[i].keys)
      BY <1>4, <1>6, <1>9
    <3>7. CallbackOK(b, d)'
      BY <1>4, <3>2, <3>4, <3>5, <3>6 DEF CallbackOK
    <3>8. callback' = [callback EXCEPT ![b] = d]
      BY <1>1, <2>2, <3>1, <3>3
    <3>9. callback' \in [Browsers -> Callbacks] /\ \A a \in Browsers : callback'[a] = IF a = b THEN d ELSE callback[a]
      BY <1>10, <3>4, <3>8 DEF SsoTypeOK
    <3> QED
      BY <1>10, <2>2, <3>7, <3>9 DEF SsoTypeOK, BrowsersFollow
  <2> QED
    BY <1>9, <2>1, <2>2
<1>16. SsoTypeOK'
  BY <1>9, <1>10, <1>11, <1>13, <1>15 DEF SsoTypeOK
<1> QED
  BY <1>9, <1>10, <1>11, <1>13, <1>14, <1>15, <1>16, StandStill, NothingFollows, SsoKeeps

LEMMA SsoSignedInKeeps ==
  ASSUME Confirmed, NEW b \in Browsers, NEW about \in People \union {Nobody}, SsoSignedIn(b, about)
  PROVE  Confirmed'
<1>1. PICK c \in Callbacks : c = callback[b]
  BY DEF Confirmed, SsoTypeOK
<1>2. c.step = "sign in"
  BY <1>1 DEF SsoSignedIn
<1>3. CallbackOK(b, c)
  BY <1>1 DEF Confirmed, Browsing
<1>4. Returned(b, c.code) /\ c.issuer \in Issuers /\ c.timely
  BY <1>2, <1>3 DEF CallbackOK
<1>5. PICK no \in BOOLEAN : no = FALSE
  OBVIOUS
<1>c. PICK i \in Issuers : i = c.issuer
  BY <1>4
<1>6. PICK found : i = c.issuer /\ found = Discover(i, no)
  BY <1>c
<1>7. found \in Entries /\ found.value <= changes + 1
  BY <1>5, <1>6, DiscoverFacts
<1>8. PICK s : s = [browser |-> b, number |-> c.code, subject |-> begun[c.code].person,
                    claims |-> Claims(begun[c.code].person, about), timely |-> c.timely]
  OBVIOUS
<1>9. /\ provider' = provider /\ changes' = changes /\ second' = second /\ setting' = setting
      /\ certificates' = certificates /\ begun' = begun /\ turnedAway' = turnedAway
      /\ KeepProvider(i, found) /\ Failed(b)
      /\ signedIn' = signedIn \/ signedIn' = signedIn \union {s}
  BY <1>1, <1>5, <1>6, <1>8 DEF SsoSignedIn, process
<1>10. SsoTypeOK /\ second <= second' /\ changes <= changes' /\ changes' \in 0..MaxChanges
  BY <1>9, SsoFacts DEF Confirmed, SsoTypeOK
<1>11. known' \in [Issuers -> Entries] /\ ProvidersThere'
  BY <1>7, <1>9, <1>10, ProviderKept
<1>12. cookie' \in [Browsers -> Nat] /\ callback' \in [Browsers -> Callbacks] /\ BrowsersFollow
  BY <1>9, BrowserFails
<1>13. Claims(begun[c.code].person, about) \in {Nobody, begun[c.code].person}
  BY DEF Claims
<1>14. /\ Returned(s.browser, s.number) /\ begun[s.number].person = s.subject
       /\ s.claims \in {Nobody, s.subject} /\ s.timely
  BY <1>4, <1>8, <1>13
<1>15. NewlySignedIn
  BY <1>9, <1>14 DEF NewlySignedIn
<1>16. SsoTypeOK'
  BY <1>9, <1>10, <1>11, <1>12 DEF SsoTypeOK
<1> QED
  BY <1>9, <1>10, <1>11, <1>12, <1>15, <1>16, StandStill, NothingFollows, SsoKeeps

LEMMA CheckedKeeps ==
  ASSUME Confirmed, Changes, UNCHANGED <<second, provider, browsing>>,
         NEW i \in Issuers, NEW s, s.issuer = i, Checked(s), setting' \in [issuer : Issuers, enabled : BOOLEAN]
  PROVE  Confirmed'
<1>1. PICK yes \in BOOLEAN : yes = TRUE
  OBVIOUS
<1>2. PICK found : found = Discover(i, yes)
  OBVIOUS
<1>3. /\ found \in Entries /\ found.value <= changes + 1
      /\ found.value # 0 => found.value \in Places
  BY <1>1, <1>2, DiscoverFacts
<1>4. /\ provider' = provider /\ second' = second /\ signedIn' = signedIn /\ begun' = begun
      /\ cookie' = cookie /\ callback' = callback /\ turnedAway' = turnedAway
  BY DEF browsing
<1>5. /\ changes \in 0..MaxChanges /\ changes < MaxChanges /\ changes' = changes + 1
  BY DEF Confirmed, SsoTypeOK, Changes
<1>6. changes' \in 0..MaxChanges /\ changes <= changes'
  BY <1>5, SsoFacts
<1>7. SsoTypeOK /\ second <= second'
  BY <1>4 DEF Confirmed, SsoTypeOK
<1>8. PICK e : e = Jwks(i, found.value, yes)
  OBVIOUS
<1>9. \/ known' = known /\ certificates' = certificates
      \/ /\ KeepProvider(i, found)
         /\ \/ certificates' = certificates
            \/ found.value # 0 /\ KeepKeys(i, found.value, e)
  BY <1>1, <1>2, <1>8 DEF Checked
<1>10. known' \in [Issuers -> Entries] /\ ProvidersThere'
  <2>1. CASE KeepProvider(i, found)
    BY <1>3, <1>4, <1>6, <2>1, ProviderKept
  <2>2. CASE known' = known
    <3>1. known' \in [Issuers -> Entries]
      BY <1>7, <2>2 DEF SsoTypeOK
    <3>2. ASSUME NEW j \in Issuers
          PROVE  /\ Len(provider'[j].keys) >= 1 /\ provider'[j].place >= 1
                 /\ provider'[j].place <= changes' + 1 /\ known'[j].value <= changes' + 1
      <4>1. /\ Len(provider[j].keys) >= 1 /\ provider[j].place >= 1
            /\ provider[j].place <= changes + 1 /\ known[j].value <= changes + 1
        BY DEF Confirmed, ProvidersThere
      <4>2. PICK p \in Nat, v \in Nat : p = provider[j].place /\ v = known[j].value
        BY <1>7 DEF SsoTypeOK, Entries
      <4>3. p <= changes' + 1 /\ v <= changes' + 1
        BY <1>5, <4>1, <4>2
      <4> QED
        BY <1>4, <2>2, <4>1, <4>2, <4>3
    <3> QED
      BY <3>1, <3>2 DEF ProvidersThere
  <2> QED
    BY <1>9, <2>1, <2>2
<1>11. certificates' \in [Issuers \X Places -> Entries] /\ KeysFollow
  <2>1. CASE certificates' = certificates
    BY <1>7, <2>1, NothingFollows DEF SsoTypeOK
  <2>2. CASE found.value # 0 /\ KeepKeys(i, found.value, e)
    <3>1. e \in Entries /\ (e.value # 0 => WasCurrent(i, e))
      BY <1>1, <1>3, <1>8, <2>2, JwksFacts
    <3> QED
      BY <1>3, <2>2, <3>1, KeysStored
  <2> QED
    BY <1>9, <2>1, <2>2
<1>12. SsoTypeOK'
  BY <1>4, <1>6, <1>7, <1>10, <1>11 DEF SsoTypeOK
<1> QED
  BY <1>4, <1>7, <1>10, <1>11, <1>12, StandStill, NothingFollows, SsoKeeps

LEMMA ProviderChangeKeeps ==
  ASSUME Confirmed, NEW i \in Issuers, ProviderChange(i)
  PROVE  Confirmed'
<1>1. /\ second' = second /\ setting' = setting /\ known' = known /\ certificates' = certificates
      /\ signedIn' = signedIn /\ begun' = begun /\ cookie' = cookie /\ callback' = callback
      /\ turnedAway' = turnedAway /\ Changes
      /\ \/ provider' = [provider EXCEPT ![i].keys = Append(@, second)]
         \/ provider' = [provider EXCEPT ![i].place = @ + 1]
         \/ provider' = [provider EXCEPT ![i].up = ~@]
  BY DEF ProviderChange, browsing
<1>2. SsoTypeOK /\ second \in Nat /\ second <= second'
  BY <1>1 DEF Confirmed, SsoTypeOK
<1>3. changes \in 0..MaxChanges /\ changes < MaxChanges /\ changes' = changes + 1
  BY <1>1 DEF Confirmed, SsoTypeOK, Changes
<1>4. changes' \in 0..MaxChanges
  BY <1>3, SsoFacts
<1>5. PICK r : r = provider[i] /\ r \in [keys : Seq(Nat), place : Nat, up : BOOLEAN]
  BY <1>2 DEF SsoTypeOK
<1>6. PICK n : /\ provider' = [provider EXCEPT ![i] = n]
               /\ \/ n = [r EXCEPT !.keys = Append(r.keys, second)]
                  \/ n = [r EXCEPT !.place = r.place + 1]
                  \/ n = [r EXCEPT !.up = ~r.up]
  <2>1. CASE provider' = [provider EXCEPT ![i].keys = Append(@, second)]
    <3>1. PICK n : n = [r EXCEPT !.keys = Append(r.keys, second)]
      OBVIOUS
    <3>2. provider' = [provider EXCEPT ![i] = n]
      BY <1>5, <2>1, <3>1
    <3> QED
      BY <3>1, <3>2
  <2>2. CASE provider' = [provider EXCEPT ![i].place = @ + 1]
    <3>1. PICK n : n = [r EXCEPT !.place = r.place + 1]
      OBVIOUS
    <3>2. provider' = [provider EXCEPT ![i] = n]
      BY <1>5, <2>2, <3>1
    <3> QED
      BY <3>1, <3>2
  <2>3. CASE provider' = [provider EXCEPT ![i].up = ~@]
    <3>1. PICK n : n = [r EXCEPT !.up = ~r.up]
      OBVIOUS
    <3>2. provider' = [provider EXCEPT ![i] = n]
      BY <1>5, <2>3, <3>1
    <3> QED
      BY <3>1, <3>2
  <2> QED
    BY <1>1, <2>1, <2>2, <2>3
<1>7. r.place >= 1 /\ r.place <= changes + 1 /\ Len(r.keys) >= 1
  BY <1>5 DEF Confirmed, ProvidersThere
<1>k. PICK keys \in Seq(Nat) : keys = r.keys
  BY <1>5
<1>8. PICK more : keys = r.keys /\ more = n.keys
  BY <1>k
<1>9. more = keys \/ more = Append(keys, second)
  BY <1>5, <1>6, <1>8
<1>10. /\ more \in Seq(Nat) /\ Len(keys) <= Len(more)
       /\ \A k \in 1..Len(more) : IF k <= Len(keys) THEN more[k] = keys[k] ELSE more[k] >= second
  <2>1. CASE more = keys
    BY <2>1
  <2>2. CASE more = Append(keys, second)
    <3>1. /\ more \in Seq(Nat) /\ Len(more) = Len(keys) + 1 /\ Len(keys) \in Nat
          /\ \A k \in 1..Len(keys) : more[k] = keys[k]
          /\ more[Len(keys) + 1] = second
      BY <1>2, <2>2
    <3> QED
      BY <1>2, <3>1
  <2> QED
    BY <1>9, <2>1, <2>2
<1>11. n.place = r.place \/ n.place = r.place + 1
  BY <1>5, <1>6
<1>12. n.place \in Nat /\ n.place >= 1 /\ n.place <= changes' + 1
  BY <1>3, <1>5, <1>7, <1>11
<1>13. n \in [keys : Seq(Nat), place : Nat, up : BOOLEAN]
  <2>1. n = [keys |-> more, place |-> n.place, up |-> n.up] /\ n.up \in BOOLEAN
    BY <1>5, <1>6, <1>8
  <2> QED
    BY <1>10, <1>12, <2>1
<1>14. provider' \in [Issuers -> [keys : Seq(Nat), place : Nat, up : BOOLEAN]]
  BY <1>2, <1>6, <1>13 DEF SsoTypeOK
<1>15. \A j \in Issuers : provider'[j] = IF j = i THEN n ELSE provider[j]
  BY <1>2, <1>6 DEF SsoTypeOK
<1>16. SsoTypeOK'
  BY <1>1, <1>2, <1>4, <1>14 DEF SsoTypeOK
<1>17. ProvidersThere'
  <2> SUFFICES ASSUME NEW j \in Issuers
               PROVE  /\ Len(provider'[j].keys) >= 1 /\ provider'[j].place >= 1
                      /\ provider'[j].place <= changes' + 1 /\ known'[j].value <= changes' + 1
    BY DEF ProvidersThere
  <2>5. known[j].value \in Nat /\ provider[j].place \in Nat /\ Len(provider[j].keys) \in Nat
    BY <1>2, SMTT(60) DEF SsoTypeOK, Entries
  <2>1. PICK v \in Nat, p \in Nat, l \in Nat : v = known[j].value /\ p = provider[j].place /\ l = Len(provider[j].keys)
    BY <2>5
  <2>2. l >= 1 /\ p >= 1 /\ p <= changes + 1 /\ v <= changes + 1
    BY <2>1 DEF Confirmed, ProvidersThere
  <2>3. p <= changes' + 1 /\ v <= changes' + 1
    BY <1>3, <2>2
  <2>4. Len(n.keys) >= 1
    BY <1>7, <1>8, <1>10
  <2> QED
    BY <1>1, <1>12, <1>15, <2>1, <2>2, <2>3, <2>4
<1>18. ProvidersGrow
  <2>1. ASSUME NEW j \in Issuers
        PROVE  /\ Len(provider[j].keys) <= Len(provider'[j].keys)
               /\ \A k \in 1..Len(provider'[j].keys) :
                    IF k <= Len(provider[j].keys) THEN provider'[j].keys[k] = provider[j].keys[k]
                    ELSE provider'[j].keys[k] >= second
    <3>1. CASE j = i
      <4>1. provider[j].keys = keys /\ provider'[j].keys = more
        BY <1>5, <1>8, <1>15, <3>1
      <4> QED
        BY <1>10, <4>1
    <3>2. CASE j # i
      <4>1. provider'[j] = provider[j] /\ provider[j].keys \in Seq(Nat)
        BY <1>2, <1>15, <3>2 DEF SsoTypeOK
      <4> QED
        BY <4>1
    <3> QED
      BY <3>1, <3>2
  <2> QED
    BY <1>2, <2>1 DEF ProvidersGrow
<1> QED
  BY <1>1, <1>2, <1>16, <1>17, <1>18, StandStill, NothingFollows, SsoKeeps

LEMMA SsoRestartKeeps ==
  ASSUME Confirmed, SsoRestart
  PROVE  Confirmed'
<1>1. PICK unread \in Entries, none \in Callbacks :
        /\ unread = Unread /\ Empty(unread) /\ unread.value = 0
        /\ none = NoCallback /\ none.step = "none"
  BY EmptyFacts DEF Empty
<1>2. /\ second' = second /\ setting' = setting /\ provider' = provider
      /\ signedIn' = signedIn /\ begun' = begun /\ cookie' = cookie
      /\ turnedAway' = turnedAway /\ Changes
      /\ known' = [i \in Issuers |-> unread]
      /\ certificates' = [x \in Issuers \X Places |-> unread]
      /\ callback' = [b \in Browsers |-> none]
  BY <1>1 DEF SsoRestart
<1>3. SsoTypeOK /\ second \in Nat /\ second <= second'
  BY <1>2 DEF Confirmed, SsoTypeOK
<1>4. changes \in 0..MaxChanges /\ changes < MaxChanges /\ changes' = changes + 1
  BY <1>2 DEF Confirmed, SsoTypeOK, Changes
<1>5. changes' \in 0..MaxChanges
  BY <1>4, SsoFacts
<1>6. SsoTypeOK'
  BY <1>1, <1>2, <1>3, <1>5 DEF SsoTypeOK
<1>7. ProvidersThere'
  <2> SUFFICES ASSUME NEW j \in Issuers
               PROVE  /\ Len(provider'[j].keys) >= 1 /\ provider'[j].place >= 1
                      /\ provider'[j].place <= changes' + 1 /\ known'[j].value <= changes' + 1
    BY DEF ProvidersThere
  <2>5. provider[j].place \in Nat /\ Len(provider[j].keys) \in Nat
    BY <1>3 DEF SsoTypeOK
  <2>1. PICK p \in Nat, l \in Nat : p = provider[j].place /\ l = Len(provider[j].keys)
    BY <2>5
  <2>2. l >= 1 /\ p >= 1 /\ p <= changes + 1
    BY <2>1 DEF Confirmed, ProvidersThere
  <2>3. known'[j].value = 0
    BY <1>1, <1>2
  <2> QED
    BY <1>2, <1>4, <2>1, <2>2, <2>3
<1>8. KeysFollow
  <2>1. ASSUME NEW i \in Issuers, NEW place \in Places PROVE Empty(certificates'[<<i, place>>])
    <3>1. PICK x \in Issuers \X Places : x = <<i, place>>
      OBVIOUS
    <3>2. certificates'[x] = unread
      BY <1>2
    <3> QED
      BY <1>1, <3>1, <3>2
  <2> QED
    BY <2>1 DEF KeysFollow
<1>9. BrowsersFollow
  <2>1. ASSUME NEW b \in Browsers PROVE \E c : c = callback'[b] /\ CallbackOK(b, c)'
    <3>1. callback'[b] = none
      BY <1>2
    <3>2. CallbackOK(b, none)'
      BY <1>1 DEF CallbackOK
    <3> QED
      BY <3>1, <3>2
  <2> QED
    BY <1>2, <2>1 DEF BrowsersFollow
<1> QED
  BY <1>2, <1>3, <1>6, <1>7, <1>8, <1>9, StandStill, NothingFollows, SsoKeeps

LEMMA SsoTickKeeps ==
  ASSUME Confirmed, SsoTick
  PROVE  Confirmed'
<1>1. /\ second' = second + 1 /\ setting' = setting /\ provider' = provider /\ known' = known
      /\ signedIn' = signedIn /\ begun' = begun /\ cookie' = cookie /\ callback' = callback
      /\ turnedAway' = turnedAway /\ changes' = changes /\ certificates' = certificates
  BY DEF SsoTick, process, browsing
<1>2. SsoTypeOK /\ second \in Nat
  BY DEF Confirmed, SsoTypeOK
<1>3. second' \in Nat /\ second <= second'
  BY <1>1, <1>2
<1>4. SsoTypeOK' /\ ProvidersThere'
  BY <1>1, <1>2, <1>3 DEF Confirmed, SsoTypeOK, ProvidersThere
<1> QED
  BY <1>1, <1>2, <1>3, <1>4, StandStill, NothingFollows, SsoKeeps

LEMMA SsoStutterKeeps ==
  ASSUME Confirmed, UNCHANGED ssoVars
  PROVE  Confirmed'
<1>1. /\ second' = second /\ setting' = setting /\ provider' = provider /\ known' = known
      /\ signedIn' = signedIn /\ begun' = begun /\ cookie' = cookie /\ callback' = callback
      /\ turnedAway' = turnedAway /\ changes' = changes /\ certificates' = certificates
  BY DEF ssoVars
<1>2. SsoTypeOK /\ second <= second'
  BY <1>1 DEF Confirmed, SsoTypeOK
<1>3. SsoTypeOK' /\ ProvidersThere'
  BY <1>1, <1>2 DEF Confirmed, SsoTypeOK, ProvidersThere
<1> QED
  BY <1>1, <1>2, <1>3, StandStill, NothingFollows, SsoKeeps

LEMMA SsoStepKeeps ==
  ASSUME Confirmed, [SsoNext]_ssoVars
  PROVE  Confirmed'
<1>1. CASE UNCHANGED ssoVars
  BY <1>1, SsoStutterKeeps
<1>2. ASSUME NEW b \in Browsers, SsoStart(b) \/ SsoRefused(b) \/ Exchange(b) \/ VerifyIdToken(b)
      PROVE  Confirmed'
  BY <1>2, SsoStartKeeps, SsoRefusedKeeps, ExchangeKeeps, VerifyIdTokenKeeps
<1>3. ASSUME NEW b \in Browsers, NEW n \in DOMAIN begun, SsoReturns(b, n) PROVE Confirmed'
  BY <1>3, SsoReturnsKeeps
<1>4. ASSUME NEW b \in Browsers, NEW about \in People \union {Nobody}, SsoSignedIn(b, about)
      PROVE  Confirmed'
  BY <1>4, SsoSignedInKeeps
<1>5. ASSUME NEW n \in DOMAIN begun, NEW p \in People, Confirm(n, p) PROVE Confirmed'
  BY <1>5, ConfirmKeeps
<1>6. ASSUME NEW s \in [issuer : Issuers, enabled : BOOLEAN], SsoSave(s) PROVE Confirmed'
  <2>1. /\ Changes /\ UNCHANGED <<second, provider, browsing>> /\ Checked(s)
        /\ setting' = s /\ s.issuer \in Issuers
    BY <1>6 DEF SsoSave
  <2> QED
    BY <2>1, CheckedKeeps
<1>7. ASSUME SsoCheck PROVE Confirmed'
  <2>1. setting \in [issuer : Issuers, enabled : BOOLEAN]
    BY DEF Confirmed, SsoTypeOK
  <2>2. PICK s : s = [setting EXCEPT !.enabled = TRUE]
    OBVIOUS
  <2>3. s.issuer \in Issuers
    BY <2>1, <2>2
  <2>4. /\ Changes /\ UNCHANGED <<second, provider, browsing>> /\ Checked(s)
        /\ setting' = setting
    BY <1>7, <2>2 DEF SsoCheck
  <2> QED
    BY <2>1, <2>3, <2>4, CheckedKeeps
<1>8. ASSUME NEW i \in Issuers, ProviderChange(i) PROVE Confirmed'
  BY <1>8, ProviderChangeKeeps
<1> QED
  BY <1>1, <1>2, <1>3, <1>4, <1>5, <1>6, <1>7, <1>8, SsoRestartKeeps, SsoTickKeeps DEF SsoNext

LEMMA SsoStarts == SsoInit => Confirmed
<1> SUFFICES ASSUME SsoInit PROVE Confirmed
  OBVIOUS
<1>1. PICK unread \in Entries, none \in Callbacks :
        /\ unread = Unread /\ Empty(unread) /\ unread.value = 0
        /\ none = NoCallback /\ none.step = "none"
  BY EmptyFacts DEF Empty
<1>2. PICK p : p = [keys |-> <<0>>, place |-> 1, up |-> TRUE]
  OBVIOUS
<1>3. /\ p \in [keys : Seq(Nat), place : Nat, up : BOOLEAN] /\ p.place = 1 /\ Len(p.keys) = 1
  <2>1. <<0>> \in Seq(Nat) /\ Len(<<0>>) = 1
    OBVIOUS
  <2> QED
    BY <1>2, <2>1
<1>4. /\ second = 0 /\ changes = 0 /\ begun = <<>> /\ signedIn = {} /\ turnedAway = {}
      /\ setting = [issuer |-> CHOOSE i \in Issuers : TRUE, enabled |-> TRUE]
      /\ provider = [i \in Issuers |-> p] /\ known = [i \in Issuers |-> unread]
      /\ certificates = [x \in Issuers \X Places |-> unread]
      /\ cookie = [b \in Browsers |-> 0] /\ callback = [b \in Browsers |-> none]
  BY <1>1, <1>2 DEF SsoInit
<1>5. setting \in [issuer : Issuers, enabled : BOOLEAN]
  <2>1. (CHOOSE i \in Issuers : TRUE) \in Issuers
    BY SingleSignOnConstants DEF SingleSignOnConstants
  <2> QED
    BY <1>4, <2>1
<1>6. SsoTypeOK
  <2>1. begun \in Seq(SignIns)
    BY <1>4
  <2>2. provider \in [Issuers -> [keys : Seq(Nat), place : Nat, up : BOOLEAN]]
    BY <1>3, <1>4
  <2>3. /\ known \in [Issuers -> Entries] /\ certificates \in [Issuers \X Places -> Entries]
        /\ cookie \in [Browsers -> Nat] /\ callback \in [Browsers -> Callbacks]
    BY <1>1, <1>4
  <2>4. second \in Nat /\ changes \in 0..MaxChanges
    BY <1>4, SsoFacts
  <2> QED
    BY <1>5, <2>1, <2>2, <2>3, <2>4 DEF SsoTypeOK
<1>7. ProvidersThere
  <2>1. ASSUME NEW i \in Issuers PROVE provider[i] = p /\ known[i] = unread
    BY <1>4
  <2>2. p.place >= 1 /\ p.place <= changes + 1 /\ Len(p.keys) >= 1 /\ unread.value <= changes + 1
    BY <1>1, <1>3, <1>4
  <2> QED
    BY <2>1, <2>2 DEF ProvidersThere
<1>8. KeysKept
  <2>1. ASSUME NEW i \in Issuers, NEW place \in Places PROVE Empty(certificates[<<i, place>>])
    <3>1. PICK x \in Issuers \X Places : x = <<i, place>>
      OBVIOUS
    <3>2. certificates[x] = unread
      BY <1>4
    <3> QED
      BY <1>1, <3>1, <3>2
  <2> QED
    BY <2>1 DEF KeysKept
<1>9. Browsing
  BY <1>1, <1>4 DEF Browsing, CallbackOK
<1>10. SignedInOK /\ TurnedAwayOK
  BY <1>4 DEF SignedInOK, TurnedAwayOK
<1> QED
  BY <1>6, <1>7, <1>8, <1>9, <1>10 DEF Confirmed

\* SignInsAreConfirmed holds for any number of browsers, people and providers:
\* whoever is signed in (sso_callback) is the one the provider signed in, in the
\* browser that was sent to it, by a key that was the provider's at most
\* CACHE_SECONDS ago (_signing_key), and nobody is turned away for a key that the
\* provider publishes where it was found.
THEOREM SignInsAreTheirs == SsoSpec => []SignInsAreConfirmed
<1>1. Confirmed => SignInsAreConfirmed
  <2> SUFFICES ASSUME Confirmed PROVE SignInsAreConfirmed
    OBVIOUS
  <2>1. SignedInOK /\ TurnedAwayOK
    BY DEF Confirmed
  <2> QED
    BY <2>1 DEF SignInsAreConfirmed, SignedInOK, TurnedAwayOK, Returned
<1>2. Confirmed /\ [SsoNext]_ssoVars => Confirmed'
  BY SsoStepKeeps
<1> QED
  BY <1>1, <1>2, SsoStarts, PTL DEF SsoSpec

-----------------------------------------------------------------------------
(* The activity log                                                          *)

LogSpec == LogInit /\ [][LogNext]_logVars

Servings ==
  [step : {"none", "handle", "record"}, number : Nat, by : Actors \union {""}, op : Operations \union {""},
   object : Objects \union {0}, noted : 0..2, named : BOOLEAN, outcome : {"", "ok", "failed", "denied"}]

LogEvents ==
  [id : Nat \ {0}, of : Nat \ {0}, at : Nat, by : Actors, op : Operations, object : Objects, name : 0..2,
   outcome : {"ok", "failed", "denied"}]

CommitRows == [number : Nat \ {0}, by : Actors, object : Objects, day : Nat, named : BOOLEAN]

LogReaders ==
  [way : {"none", "api", "page"}, done : BOOLEAN, from : Nat, seen : SUBSET Nat, asked : SUBSET Nat,
   twice : BOOLEAN]

LogTypeOK ==
  /\ logDay \in Nat /\ accounts \subseteq Actors /\ nameOf \in [Objects -> 0..2]
  /\ serving \in [Slots -> Servings] /\ events \subseteq LogEvents /\ reader \in LogReaders
  /\ committed \subseteq CommitRows /\ count \in [requests : Nat, events : Nat, losses : Nat]

\* Requests are numbered as they come in, and a number is with one of them: with
\* the request while it is served and with its event after that
ServedAs(s) ==
  IF s.step = "none" THEN s = NoServing
  ELSE s.number \in 1..count.requests /\ s.by \in Actors /\ s.op \in Operations /\ s.object \in Objects

Numbered ==
  /\ \A r \in Slots : ServedAs(serving[r])
  /\ \A r, q \in Slots : serving[r].number = serving[q].number => r = q \/ serving[r].step = "none"
  /\ \A e \in events : e.of <= count.requests /\ \A r \in Slots : serving[r].number # e.of
  /\ \A e, f \in events : e.of = f.of => e = f
  /\ \A c \in committed : c.number <= count.requests /\ c.day <= logDay

\* Events are numbered as they are written
InOrder ==
  /\ \A e \in events : e.id <= count.events /\ e.at <= logDay
  /\ \A e, f \in events : e.id <= f.id => e.at <= f.at

\* What a request that committed takes with it to its event
Carries(s, c) ==
  /\ s.step = "record" /\ s.op \in {"edit", "delete"} /\ s.outcome \in {"ok", "failed"}
  /\ s.by = c.by /\ s.object = c.object /\ (c.named => s.noted # 0)

Tells(e, c) ==
  /\ e.of = c.number /\ e.by = c.by /\ e.object = c.object /\ e.at >= c.day
  /\ (c.named => e.name # 0) /\ e.outcome # "denied"

InRequest(c) == \E r \in Slots : serving[r].number = c.number /\ Carries(serving[r], c)

Told(c) ==
  \/ InRequest(c) \/ c.number \in excused \/ c.day < logDay - RetentionDays
  \/ \E e \in events : Tells(e, c)

Backed(op, outcome, number, object) ==
  op \in {"edit", "delete"} /\ outcome = "ok" => \E c \in committed : c.number = number /\ c.object = object

Telling ==
  /\ \A r \in Slots : serving[r].step = "handle" =>
       /\ serving[r].named /\ nameOf[serving[r].object] # 0 => serving[r].noted # 0
       /\ \A c \in committed : c.number # serving[r].number
  /\ \A c \in committed : Told(c)
  /\ \A r \in Slots : serving[r].step = "record" =>
       Backed(serving[r].op, serving[r].outcome, serving[r].number, serving[r].object)
       /\ serving[r].outcome # ""
  /\ \A e \in events : Backed(e.op, e.outcome, e.of, e.object)

Unseen == (reader.asked \intersect Ids) \ reader.seen

\* What a reader has not seen yet still lies ahead
Ahead ==
  /\ \A i \in reader.asked : i <= count.events
  /\ reader.way = "none" => reader = NoReader
  /\ reader.done => Unseen = {}
  /\ ~reader.twice
  /\ reader.way = "api" /\ ~reader.done =>
       IF reader.from = 0 THEN reader.seen = {}
       ELSE (\A i \in reader.seen : i >= reader.from) /\ (\A i \in Unseen : i < reader.from)
  /\ reader.way = "page" /\ ~reader.done =>
       \A i \in Unseen : NewerIn(Ids, i) >= reader.from * PageSize

LogInv == LogTypeOK /\ Numbered /\ InOrder /\ Telling /\ Ahead

LEMMA IdsFacts ==
  ASSUME LogTypeOK, InOrder
  PROVE  /\ IsFiniteSet(Ids) /\ Ids \subseteq Nat /\ 0 \notin Ids
         /\ \A i \in Nat : /\ IsFiniteSet({j \in Ids : j > i}) /\ NewerIn(Ids, i) \in Nat
                           /\ NewerIn(Ids, i) <= Cardinality(Ids)
                           /\ i \in Ids => NewerIn(Ids, i) < Cardinality(Ids)
<1>1. Ids \subseteq Nat /\ 0 \notin Ids
  BY DEF Ids, LogTypeOK, LogEvents
<1>2. IsFiniteSet(Ids)
  <2>1. count.events \in Nat /\ Ids \in SUBSET Nat
    BY <1>1 DEF LogTypeOK
  <2>2. \A i \in Ids : i <= count.events
    BY DEF Ids, InOrder
  <2> QED
    BY <2>1, <2>2, FS_BoundedSetOfNaturals
<1> SUFFICES ASSUME NEW i \in Nat
             PROVE  /\ IsFiniteSet({j \in Ids : j > i}) /\ NewerIn(Ids, i) \in Nat
                    /\ NewerIn(Ids, i) <= Cardinality(Ids)
                    /\ i \in Ids => NewerIn(Ids, i) < Cardinality(Ids)
  BY <1>1, <1>2
<1> DEFINE T == {j \in Ids : j > i}
<1>3. T \in SUBSET Ids /\ i \notin T
  OBVIOUS
<1>4. IsFiniteSet(T) /\ Cardinality(T) <= Cardinality(Ids) /\ (Cardinality(Ids) = Cardinality(T) => Ids = T)
  BY <1>2, <1>3, FS_Subset
<1>5. Cardinality(T) \in Nat /\ Cardinality(Ids) \in Nat
  BY <1>2, <1>4, FS_CardinalityType
<1> QED
  BY <1>3, <1>4, <1>5 DEF NewerIn

LEMMA AheadFollows ==
  ASSUME LogTypeOK, InOrder, LogTypeOK', InOrder', Ahead,
         reader' = reader, count'.events >= count.events,
         \A i \in Ids' : i \in Ids \/ i > count.events,
         \A i \in Ids', j \in Ids : j > i => j \in Ids'
  PROVE  Ahead'
<1>1. reader \in LogReaders /\ reader.asked \subseteq Nat /\ reader.from \in Nat
  BY DEF LogTypeOK, LogReaders
<1>2. count.events \in Nat /\ count'.events \in Nat
  BY DEF LogTypeOK
<1>3. \A i \in reader.asked : i <= count.events
  BY DEF Ahead
<1>4. Unseen' \subseteq Unseen
  BY <1>1, <1>2, <1>3 DEF Unseen
<1>5. ASSUME NEW i \in Unseen'
      PROVE  NewerIn(Ids, i)' >= NewerIn(Ids, i) /\ NewerIn(Ids, i) \in Nat /\ NewerIn(Ids, i)' \in Nat
  <2>1. i \in Ids' /\ i \in Nat /\ i' = i
    BY <1>1 DEF Unseen
  <2> DEFINE T == {j \in Ids : j > i}
             V == {j \in Ids' : j > i}
  <2>2. T \in SUBSET V
    BY <2>1
  <2>3. IsFiniteSet(V)
    <3>1. Ids' \in SUBSET Nat /\ count'.events \in Nat
      BY DEF Ids, LogTypeOK, LogEvents
    <3>2. \A j \in Ids' : j <= count'.events
      BY DEF Ids, InOrder
    <3>3. IsFiniteSet(Ids') /\ V \in SUBSET Ids'
      BY <3>1, <3>2, FS_BoundedSetOfNaturals
    <3> QED
      BY <3>3, FS_Subset
  <2>4. Cardinality(T) <= Cardinality(V) /\ IsFiniteSet(T)
    BY <2>2, <2>3, FS_Subset
  <2>5. Cardinality(T) \in Nat /\ Cardinality(V) \in Nat
    BY <2>3, <2>4, FS_CardinalityType
  <2> QED
    BY <2>4, <2>5 DEF NewerIn
<1>6. PageSize \in Nat /\ reader.from * PageSize \in Nat
  BY <1>1, ActivityConstants
<1>7. /\ \A i \in reader.asked : i <= count'.events
      /\ reader.done => Unseen' = {}
      /\ reader.way = "api" /\ ~reader.done =>
            IF reader.from = 0 THEN reader.seen = {}
            ELSE (\A i \in reader.seen : i >= reader.from) /\ (\A i \in Unseen' : i < reader.from)
  BY <1>1, <1>2, <1>3, <1>4 DEF Ahead
<1>8. reader.way = "page" /\ ~reader.done => \A i \in Unseen' : NewerIn(Ids, i)' >= reader.from * PageSize
  <2> SUFFICES ASSUME reader.way = "page", ~reader.done, NEW i \in Unseen'
               PROVE  NewerIn(Ids, i)' >= reader.from * PageSize
    OBVIOUS
  <2>1. NewerIn(Ids, i) >= reader.from * PageSize
    BY <1>4 DEF Ahead
  <2> QED
    BY <2>1, <1>5, <1>6
<1> QED
  BY <1>7, <1>8 DEF Ahead

LEMMA LeastId ==
  ASSUME NEW S \in SUBSET Nat, S # {}
  PROVE  Min(S) \in S /\ \A y \in S : Min(S) <= y
<1>1. PICK x \in S : \A y \in S : <<y, x>> \notin OpToRel(<, Nat)
  BY NatLessThanWellFounded, WFMin
<1>2. \A y \in S : x <= y
  <2> SUFFICES ASSUME NEW y \in S PROVE x <= y
    OBVIOUS
  <2>1. x \in Nat /\ y \in Nat /\ <<y, x>> \in Nat \X Nat
    OBVIOUS
  <2>2. ~(y < x)
    BY <1>1, <2>1 DEF OpToRel
  <2> QED
    BY <2>1, <2>2
<1> QED
  BY <1>2 DEF Min

\* There is a newest one, and nothing is newer than that
LEMMA NewestId ==
  ASSUME NEW S \in SUBSET Nat, S # {}, NEW n \in Nat, \A y \in S : y <= n
  PROVE  \E x \in S : {j \in S : j > x} = {}
<1> DEFINE T == {n - y : y \in S}
<1>6. PICK w \in S : TRUE
  OBVIOUS
<1>1. T \in SUBSET Nat /\ T # {}
  BY <1>6
<1>2. Min(T) \in T /\ \A y \in T : Min(T) <= y
  BY <1>1, LeastId
<1>3. PICK x \in S : Min(T) = n - x
  BY <1>2
<1>4. \A y \in S : n - x <= n - y
  BY <1>2, <1>3
<1>5. \A y \in S : ~(y > x)
  BY <1>4
<1> QED
  BY <1>5

\* Who neither changes anything nor writes of it leaves the rest as it is
LEMMA ReadingKeeps ==
  ASSUME LogInv, UNCHANGED <<logDay, nameOf, serving, events, committed, excused, count>>,
         LogTypeOK', Ahead'
  PROVE  LogInv'
<1>1. Numbered' /\ InOrder'
  BY DEF LogInv, Numbered, InOrder, ServedAs
<1>2. \A c \in committed : Told(c)' <=> Told(c)
  BY DEF Told, InRequest, Carries, Tells
<1>3. \A op, outcome, number, object :
         Backed(op, outcome, number, object)' <=> Backed(op, outcome, number, object)
  BY DEF Backed
<1>4. Telling'
  BY <1>2, <1>3 DEF LogInv, Telling
<1> QED
  BY <1>1, <1>4 DEF LogInv

LEMMA OpenLogKeeps ==
  ASSUME LogInv, NEW way \in {"api", "page"}, OpenLog(way)
  PROVE  LogInv'
<1>1. reader' = [way |-> way, done |-> FALSE, from |-> 0, seen |-> {}, asked |-> Ids, twice |-> FALSE]
  BY DEF OpenLog, NoReader
<1>2. UNCHANGED <<logDay, accounts, nameOf, serving, events, committed, excused, count>>
  BY DEF OpenLog
<1>3. IsFiniteSet(Ids) /\ Ids \subseteq Nat /\ \A i \in Nat : NewerIn(Ids, i) \in Nat
  BY IdsFacts DEF LogInv
<1>4. Ahead'
  <2>1. \A i \in Ids : i <= count.events
    BY DEF Ids, LogInv, InOrder
  <2>2. 0 * PageSize = 0
    BY ActivityConstants
  <2>3. Unseen' \subseteq Ids /\ Ids' = Ids
    BY <1>1, <1>2 DEF Unseen, Ids
  <2>4. ASSUME NEW i \in Unseen' PROVE NewerIn(Ids, i)' >= 0
    <3>1. NewerIn(Ids, i)' = NewerIn(Ids, i)
      BY <2>3 DEF NewerIn
    <3>2. NewerIn(Ids, i) \in Nat
      BY <1>3, <2>3
    <3> QED
      BY <3>1, <3>2
  <2> QED
    BY <1>1, <1>2, <2>1, <2>2, <2>3, <2>4 DEF Ahead
<1>5. LogTypeOK'
  BY <1>1, <1>2, <1>3 DEF LogInv, LogTypeOK, LogReaders
<1> QED
  BY <1>2, <1>4, <1>5, ReadingKeeps

LEMMA ReadApiKeeps ==
  ASSUME LogInv, ReadApi
  PROVE  LogInv'
<1> DEFINE ids == Before(reader.from)
           rows == {i \in ids : NewerIn(ids, i) < PageSize}
<1>1. /\ reader' = [way |-> "api", done |-> reader'.done, from |-> IF rows = {} THEN 0 ELSE Min(rows),
                    seen |-> reader.seen \union rows, asked |-> reader.asked, twice |-> reader'.twice]
      /\ reader'.twice \in BOOLEAN /\ (reader'.twice <=> reader.twice \/ rows \intersect reader.seen # {})
      /\ reader'.done \in BOOLEAN /\ (reader'.done <=> rows = {})
  BY DEF ReadApi, LogInv, LogTypeOK, LogReaders
<1>2. UNCHANGED <<logDay, accounts, nameOf, serving, events, committed, excused, count>>
  BY DEF ReadApi
<1>3. reader.way = "api" /\ ~reader.done /\ ~reader.twice /\ reader.asked \in SUBSET Nat /\ reader.seen \in SUBSET Nat
      /\ reader.from \in Nat
  BY DEF ReadApi, LogInv, LogTypeOK, LogReaders, Ahead
<1>4. IsFiniteSet(Ids) /\ Ids \subseteq Nat /\ 0 \notin Ids
  BY IdsFacts DEF LogInv
<1>5. /\ ids = {i \in Ids : reader.from = 0 \/ i < reader.from}
      /\ ids \in SUBSET Nat /\ IsFiniteSet(ids) /\ rows \in SUBSET ids
  <2>1. ids = {i \in Ids : reader.from = 0 \/ i < reader.from}
    BY DEF Before
  <2>2. ids \in SUBSET Ids
    BY <2>1
  <2> QED
    BY <2>1, <2>2, <1>4, FS_Subset
<1>6. /\ reader.from = 0 => reader.seen = {}
      /\ reader.from # 0 => (\A i \in reader.seen : i >= reader.from) /\ \A i \in Unseen : i < reader.from
  BY <1>3 DEF LogInv, Ahead
<1>7. rows \intersect reader.seen = {}
  BY <1>3, <1>5, <1>6
<1>8. rows = {} => ids = {}
  <2> SUFFICES ASSUME ids # {} PROVE rows # {}
    OBVIOUS
  <2>1. count.events \in Nat /\ \A i \in ids : i <= count.events
    BY <1>5 DEF Ids, LogInv, LogTypeOK, InOrder
  <2> HIDE DEF ids
  <2>2. PICK x \in ids : {j \in ids : j > x} = {}
    BY <1>5, <2>1, NewestId
  <2>3. NewerIn(ids, x) = 0
    BY <2>2, FS_EmptySet DEF NewerIn
  <2>4. 0 < PageSize
    BY ActivityConstants
  <2> QED
    BY <2>3, <2>4
<1>9. ASSUME NEW i \in ids, i \notin rows, rows # {} PROVE i < Min(rows)
  <2>1. rows \in SUBSET Nat
    BY <1>5
  <2> DEFINE m == Min(rows)
  <2>2. m \in rows
    BY <2>1, <1>9, LeastId
  <2> HIDE DEF m
  <2>3. SUFFICES ASSUME i > m PROVE FALSE
    BY <2>1, <2>2, <1>5, <1>9 DEF m
  <2> DEFINE T == {j \in ids : j > i}
             V == {j \in ids : j > m}
  <2>4. V \in SUBSET ids /\ T \in SUBSET V
    BY <2>1, <2>2, <2>3, <1>5
  <2>5. IsFiniteSet(V) /\ IsFiniteSet(T) /\ Cardinality(T) <= Cardinality(V)
    BY <2>4, <1>5, FS_Subset
  <2>6. Cardinality(T) \in Nat /\ Cardinality(V) \in Nat
    BY <2>5, FS_CardinalityType
  <2>7. NewerIn(ids, m) < PageSize
    BY <2>2
  <2>8. NewerIn(ids, i) < PageSize
    BY <2>5, <2>6, <2>7, ActivityConstants DEF NewerIn
  <2> QED
    BY <2>8, <1>9
<1>10. rows # {} => Min(rows) \in rows /\ \A y \in rows : Min(rows) <= y
  BY <1>5, LeastId
<1>11. Ids' = Ids /\ Unseen' = Unseen \ rows
  BY <1>1, <1>2 DEF Ids, Unseen
<1>12. /\ \A i \in Unseen : i \in ids
       /\ Unseen \subseteq Nat
  BY <1>3, <1>4, <1>5, <1>6 DEF Unseen
<1> HIDE DEF rows, ids
<1>13. LogTypeOK'
  <2>1. rows \in SUBSET Nat /\ (rows # {} => Min(rows) \in Nat)
    BY <1>5, <1>10
  <2>2. (IF rows = {} THEN 0 ELSE Min(rows)) \in Nat
    BY <2>1
  <2>3. reader' \in LogReaders
    BY <1>1, <1>3, <2>1, <2>2 DEF LogReaders
  <2> QED
    BY <2>3, <1>2 DEF LogInv, LogTypeOK
<1>14. Ahead'
  <2>1. reader'.asked = reader.asked /\ \A i \in reader'.asked : i <= count'.events
    <3>1. reader'.asked = reader.asked
      BY <1>1
    <3>2. \A i \in reader.asked : i <= count.events
      BY DEF LogInv, Ahead
    <3> QED
      BY <3>1, <3>2, <1>2
  <2>2. reader'.done => Unseen' = {}
    BY <1>1, <1>8, <1>11, <1>12
  <2>3. ~reader'.twice
    BY <1>1, <1>3, <1>7
  <2>4. ~reader'.done => reader'.from # 0 /\ (\A i \in reader'.seen : i >= reader'.from)
                         /\ (\A i \in Unseen' : i < reader'.from)
    <3> SUFFICES ASSUME rows # {}
                 PROVE  /\ reader'.from # 0 /\ (\A i \in reader'.seen : i >= reader'.from)
                        /\ (\A i \in Unseen' : i < reader'.from)
      BY <1>1
    <3> DEFINE m == Min(rows)
    <3>1. reader'.from = m /\ m \in rows /\ m \in Nat /\ m \in ids /\ m # 0
      BY <1>1, <1>4, <1>5, <1>10
    <3>2. \A i \in Unseen' : i < m
      BY <1>9, <1>11, <1>12
    <3>3. \A y \in rows : m <= y
      BY <1>10
    <3> HIDE DEF m
    <3>4. \A i \in reader.seen : i >= m
      BY <3>1, <1>3, <1>5, <1>6
    <3> QED
      BY <3>1, <3>2, <3>3, <3>4, <1>1, <1>5
  <2> QED
    BY <2>1, <2>2, <2>3, <2>4, <1>1 DEF Ahead
<1> QED
  BY <1>2, <1>13, <1>14, ReadingKeeps

LEMMA ReadPageKeeps ==
  ASSUME LogInv, ReadPage
  PROVE  LogInv'
<1> DEFINE first == reader.from * PageSize
           rows == {i \in Ids : NewerIn(Ids, i) \in first..(first + PageSize - 1)}
           more == Cardinality(Ids) > first + PageSize
<1>1. /\ reader' = [way |-> "page", done |-> reader'.done, from |-> reader.from + 1,
                    seen |-> reader.seen \union rows, asked |-> reader.asked, twice |-> reader.twice]
      /\ reader'.done \in BOOLEAN /\ (reader'.done <=> ~more)
  BY DEF ReadPage, LogInv, LogTypeOK, LogReaders
<1>2. UNCHANGED <<logDay, accounts, nameOf, serving, events, committed, excused, count>>
  BY DEF ReadPage
<1>3. reader.way = "page" /\ ~reader.done /\ ~reader.twice /\ reader.asked \in SUBSET Nat /\ reader.seen \in SUBSET Nat
      /\ reader.from \in Nat
  BY DEF ReadPage, LogInv, LogTypeOK, LogReaders, Ahead
<1>4. Ids \subseteq Nat /\ IsFiniteSet(Ids)
      /\ \A i \in Ids : NewerIn(Ids, i) \in Nat /\ NewerIn(Ids, i) < Cardinality(Ids)
  BY IdsFacts DEF LogInv
<1>5. Cardinality(Ids) \in Nat
  BY <1>4, FS_CardinalityType
<1>6. PageSize \in Nat /\ first \in Nat /\ (reader.from + 1) * PageSize = first + PageSize
  BY <1>3, ActivityConstants
<1>7. Ids' = Ids /\ Unseen' = Unseen \ rows
  BY <1>1, <1>2 DEF Ids, Unseen
<1>8. ASSUME NEW i \in Unseen' PROVE NewerIn(Ids, i) >= first + PageSize /\ more
  <2>1. i \in Unseen /\ i \in Ids /\ i \notin rows
    BY <1>7 DEF Unseen
  <2>2. NewerIn(Ids, i) >= first
    BY <2>1, <1>3 DEF LogInv, Ahead
  <2>3. ~(NewerIn(Ids, i) \in first..(first + PageSize - 1))
    BY <2>1
  <2> QED
    BY <2>1, <2>2, <2>3, <1>4, <1>5, <1>6
<1>9. ASSUME NEW i \in Unseen' PROVE NewerIn(Ids, i)' >= (reader.from + 1) * PageSize
  <2> SUFFICES NewerIn(Ids, i)' >= first + PageSize
    BY <1>6
  <2>1. NewerIn(Ids, i)' = NewerIn(Ids, i)
    BY <1>7 DEF NewerIn
  <2> QED
    BY <2>1, <1>8
<1>10. LogTypeOK'
  <2>3. rows \subseteq Ids
    OBVIOUS
  <2> HIDE DEF rows, more, first
  <2>1. rows \in SUBSET Nat /\ reader.from + 1 \in Nat
    BY <1>3, <1>4, <2>3
  <2>2. reader' \in LogReaders
    BY <1>1, <1>3, <2>1 DEF LogInv, LogTypeOK, LogReaders
  <2> QED
    BY <2>2, <1>2 DEF LogInv, LogTypeOK
<1> HIDE DEF more, first, rows
<1>11. Ahead'
  <2>1. \A i \in reader'.asked : i <= count'.events
    BY <1>1, <1>2 DEF LogInv, Ahead
  <2> QED
    BY <2>1, <1>1, <1>3, <1>8, <1>9 DEF Ahead
<1> QED
  BY <1>2, <1>10, <1>11, ReadingKeeps


\* Who reads loses nothing when neither the log nor what was read changes
LEMMA ReaderWaits ==
  ASSUME LogInv, LogTypeOK', InOrder', UNCHANGED <<events, reader>>, count'.events = count.events
  PROVE  Ahead'
<1>1. Ids' = Ids /\ count.events \in Nat
  BY DEF Ids, LogInv, LogTypeOK
<1> QED
  BY <1>1, AheadFollows DEF LogInv

LEMMA ServedFacts ==
  ASSUME LogInv, NEW r \in Slots
  PROVE  /\ serving[r] \in Servings /\ ServedAs(serving[r]) /\ serving[r].number \in Nat
         /\ serving[r].step \in {"none", "handle", "record"}
         /\ serving[r].step # "none" =>
              /\ serving[r].number \in 1..count.requests /\ serving[r].by \in Actors
              /\ serving[r].op \in Operations /\ serving[r].object \in Objects
         /\ \A q \in Slots : serving[r].step # "none" /\ serving[q].number = serving[r].number => q = r
         /\ count.requests \in Nat /\ count.events \in Nat
<1>1. serving[r] \in Servings /\ ServedAs(serving[r]) /\ count.requests \in Nat /\ count.events \in Nat
  BY DEF LogInv, LogTypeOK, Numbered
<1>2. serving[r].step \in {"none", "handle", "record"} /\ serving[r].number \in Nat
  BY <1>1 DEF Servings
<1>3. \A q \in Slots : serving[r].step # "none" /\ serving[q].number = serving[r].number => q = r
  BY DEF LogInv, Numbered
<1> QED
  BY <1>1, <1>2, <1>3 DEF ServedAs

Started(n, u, op, o, k, d) ==
  [NoServing EXCEPT !.step = "handle", !.number = n, !.by = u, !.op = op, !.object = o, !.noted = k, !.named = d]

LEMMA StartedFacts ==
  ASSUME NEW n, NEW u, NEW op, NEW o, NEW k, NEW d
  PROVE  Started(n, u, op, o, k, d) =
           [step |-> "handle", number |-> n, by |-> u, op |-> op, object |-> o, noted |-> k, named |-> d,
            outcome |-> ""]
<1>1. PICK v : v = Started(n, u, op, o, k, d)
  OBVIOUS
<1>2. v = [NoServing EXCEPT !.step = "handle", !.number = n, !.by = u, !.op = op, !.object = o, !.noted = k,
                            !.named = d]
  BY <1>1 DEF Started
<1>3. v = [step |-> "handle", number |-> n, by |-> u, op |-> op, object |-> o, noted |-> k, named |-> d,
           outcome |-> ""]
  BY <1>2 DEF NoServing
<1> QED
  BY <1>1, <1>3

LEMMA PrepareKeeps ==
  ASSUME LogInv, NEW r \in Slots, NEW u \in Actors, NEW op \in Operations, NEW o \in Objects, Prepare(r, u, op, o)
  PROVE  LogInv'
<1>0. PICK d \in BOOLEAN :
        /\ count' = [count EXCEPT !.requests = @ + 1, !.losses = IF d THEN @ ELSE @ + 1]
        /\ serving' = [serving EXCEPT ![r] =
             Started(count'.requests, u, op, o, IF d THEN Noted("prepare", 0, o) ELSE 0, d)]
  BY Zenon DEF Prepare, Started
<1>1. /\ serving[r].step = "none"
      /\ UNCHANGED <<logDay, accounts, nameOf, events, reader, committed, excused>>
  BY DEF Prepare, table
<1> DEFINE n == count.requests + 1
           k == IF d THEN nameOf[o] ELSE 0
           t == [step |-> "handle", number |-> n, by |-> u, op |-> op, object |-> o, noted |-> k, named |-> d,
                 outcome |-> ""]
<1>2. count.requests \in Nat /\ count' \in [requests : Nat, events : Nat, losses : Nat]
      /\ count'.requests = n /\ count'.events = count.events /\ n \in 1..count'.requests /\ n \in Nat
      /\ nameOf[o] \in 0..2 /\ k \in 0..2
  <2>1. count \in [requests : Nat, events : Nat, losses : Nat] /\ nameOf[o] \in 0..2
    BY DEF LogInv, LogTypeOK
  <2>2. PICK l : l = IF d THEN count.losses ELSE count.losses + 1
    OBVIOUS
  <2>3. l \in Nat
    BY <2>1, <2>2
  <2>4. count' = [count EXCEPT !.requests = count.requests + 1, !.losses = l]
    <3>1. CASE d
      BY <1>0, <2>2, <3>1
    <3>2. CASE ~d
      BY <1>0, <2>2, <3>2
    <3> QED
      BY <3>1, <3>2
  <2>5. k \in 0..2
    BY <2>1
  <2>6. count' \in [requests : Nat, events : Nat, losses : Nat]
        /\ count'.requests = count.requests + 1 /\ count'.events = count.events /\ count.requests \in Nat
    <3>1. PICK c : c = [count EXCEPT !.requests = count.requests + 1]
      OBVIOUS
    <3>2. c \in [requests : Nat, events : Nat, losses : Nat] /\ c.requests = count.requests + 1
          /\ c.events = count.events
      BY <2>1, <3>1
    <3>3. count' = [c EXCEPT !.losses = l]
      BY <2>1, <2>4, <3>1
    <3> QED
      BY <2>1, <2>3, <3>2, <3>3
  <2> QED
    BY <2>1, <2>5, <2>6
<1>3. serving \in [Slots -> Servings] /\ serving' = [serving EXCEPT ![r] = t]
  <2>1. count'.requests = n /\ Noted("prepare", 0, o) = nameOf[o]
    BY <1>2 DEF Noted
  <2>2. serving' = [serving EXCEPT ![r] = Started(n, u, op, o, k, d)]
    BY <2>1, <1>0
  <2>3. Started(n, u, op, o, k, d) = t
    BY StartedFacts
  <2> QED
    BY <2>2, <2>3 DEF LogInv, LogTypeOK
<1>4. t \in Servings
  <2>1. n \in Nat /\ k \in 0..2 /\ d \in BOOLEAN
    BY <1>2
  <2> HIDE DEF n, k
  <2> QED
    BY <2>1 DEF Servings
<1>5. t.step = "handle" /\ t.number = n /\ t.by = u /\ t.op = op /\ t.object = o
      /\ (t.named /\ nameOf[o] # 0 => t.noted # 0)
  OBVIOUS
<1> HIDE DEF t
<1>6. serving'[r] = t /\ \A q \in Slots : q # r => serving'[q] = serving[q]
  BY <1>3
<1>7. LogTypeOK'
  BY <1>1, <1>2, <1>3, <1>4 DEF LogInv, LogTypeOK
<1>8. \A q \in Slots : serving[q].number \in Nat /\ serving[q].number < n
  <2> SUFFICES ASSUME NEW q \in Slots PROVE serving[q].number \in Nat /\ serving[q].number < n
    OBVIOUS
  <2>1. serving[q].step = "none" => serving[q].number = 0
    <3>1. ServedAs(serving[q])
      BY DEF LogInv, Numbered
    <3>2. serving[q].step = "none" => serving[q] = NoServing
      BY <3>1, Zenon DEF ServedAs
    <3>3. NoServing.number = 0
      BY DEF NoServing
    <3> QED
      BY <3>2, <3>3
  <2> QED
    BY <2>1, <1>2, ServedFacts
<1>9. /\ \A e \in events : e.of \in Nat /\ e.of < n
      /\ \A c \in committed : c.number \in Nat /\ c.number < n
  BY <1>2 DEF LogInv, LogTypeOK, LogEvents, CommitRows, Numbered
<1>10. Numbered'
  <2>1. \A q \in Slots : ServedAs(serving[q])'
    <3> SUFFICES ASSUME NEW q \in Slots PROVE ServedAs(serving[q])'
      OBVIOUS
    <3>1. CASE q = r
      BY <3>1, <1>2, <1>5, <1>6 DEF ServedAs
    <3>2. CASE q # r
      <4>1. ServedAs(serving[q])
        BY DEF LogInv, Numbered
      <4> QED
        BY <3>2, <4>1, <1>2, <1>6 DEF ServedAs
    <3> QED
      BY <3>1, <3>2
  <2>2. \A q, p \in Slots : serving'[q].number = serving'[p].number => q = p \/ serving'[q].step = "none"
    BY <1>5, <1>6, <1>8 DEF LogInv, Numbered
  <2>3. \A e \in events : e.of <= count'.requests /\ \A q \in Slots : serving'[q].number # e.of
    BY <1>2, <1>5, <1>6, <1>9 DEF LogInv, Numbered
  <2>4. \A c \in committed : c.number <= count'.requests /\ c.day <= logDay
    BY <1>2, <1>9 DEF LogInv, Numbered
  <2>5. \A e, f \in events : e.of = f.of => e = f
    BY DEF LogInv, Numbered
  <2> QED
    BY <2>1, <2>2, <2>3, <2>4, <2>5, <1>1 DEF Numbered
<1>11. InOrder'
  BY <1>1, <1>2 DEF LogInv, InOrder
<1>12. Telling'
  <2>1. \A q \in Slots : serving'[q].step = "handle" =>
          /\ serving'[q].named /\ nameOf[serving'[q].object] # 0 => serving'[q].noted # 0
          /\ \A c \in committed : c.number # serving'[q].number
    <3>1. \A c \in committed : c.number # n
      BY <1>2, <1>9
    <3>2. \A q \in Slots : serving[q].step = "handle" =>
            /\ serving[q].named /\ nameOf[serving[q].object] # 0 => serving[q].noted # 0
            /\ \A c \in committed : c.number # serving[q].number
      BY DEF LogInv, Telling
    <3> QED
      BY <1>5, <1>6, <3>1, <3>2
  <2>2. \A c \in committed : Told(c)'
    <3> SUFFICES ASSUME NEW c \in committed PROVE Told(c)'
      OBVIOUS
    <3>1. InRequest(c) => InRequest(c)'
      BY <1>1, <1>6 DEF InRequest, Carries
    <3>2. Told(c)
      BY DEF LogInv, Telling
    <3> QED
      BY <3>1, <3>2, <1>1 DEF Told, Tells
  <2>3. \A q \in Slots : serving'[q].step = "record" =>
          Backed(serving'[q].op, serving'[q].outcome, serving'[q].number, serving'[q].object) /\ serving'[q].outcome # ""
    BY <1>5, <1>6 DEF LogInv, Telling
  <2>4. \A e \in events : Backed(e.op, e.outcome, e.of, e.object)
    BY DEF LogInv, Telling
  <2> QED
    BY <2>1, <2>2, <2>3, <2>4, <1>1 DEF Telling, Backed
<1> QED
  BY <1>1, <1>2, <1>7, <1>10, <1>11, <1>12, ReaderWaits DEF LogInv


\* A request that is answered, with or without a change
LEMMA AnsweredKeeps ==
  ASSUME LogInv, NEW r \in Slots, NEW x \in {"ok", "failed", "denied"}, serving[r].step = "handle",
         serving' = [serving EXCEPT ![r].step = "record", ![r].outcome = x],
         UNCHANGED <<logDay, accounts, events, reader, excused, count>>,
         nameOf' \in [Objects -> 0..2], \A o \in Objects : nameOf[o] = 0 => nameOf'[o] = 0,
         \/ committed' = committed /\ (x = "ok" => serving[r].op \notin {"edit", "delete"})
         \/ /\ committed' = committed \union {[number |-> serving[r].number, by |-> serving[r].by,
                                               object |-> serving[r].object, day |-> logDay,
                                               named |-> serving[r].named]}
            /\ x # "denied" /\ serving[r].op \in {"edit", "delete"} /\ nameOf[serving[r].object] # 0
  PROVE  LogInv'
<1> DEFINE s == serving[r]
           t == [step |-> "record", number |-> s.number, by |-> s.by, op |-> s.op, object |-> s.object,
                 noted |-> s.noted, named |-> s.named, outcome |-> x]
           c0 == [number |-> s.number, by |-> s.by, object |-> s.object, day |-> logDay, named |-> s.named]
<1>1. /\ s \in Servings /\ s.number \in 1..count.requests /\ s.by \in Actors /\ s.op \in Operations
      /\ s.object \in Objects /\ s.noted \in 0..2 /\ s.named \in BOOLEAN /\ count.requests \in Nat /\ logDay \in Nat
      /\ \A q \in Slots : serving[q].number = s.number => q = r
  BY ServedFacts DEF Servings, LogInv, LogTypeOK
<1>2. serving' = [serving EXCEPT ![r] = t]
  <2>1. serving' = [serving EXCEPT ![r] = [s EXCEPT !.step = "record", !.outcome = x]]
    BY DEF LogInv, LogTypeOK
  <2>2. PICK v : v = [s EXCEPT !.step = "record", !.outcome = x]
    OBVIOUS
  <2>3. v = t
    BY <2>2, <1>1 DEF Servings
  <2> QED
    BY <2>1, <2>2, <2>3
<1>3. t \in Servings
  BY <1>1 DEF Servings
<1>4. /\ t.step = "record" /\ t.number = s.number /\ t.by = s.by /\ t.op = s.op /\ t.object = s.object
      /\ t.noted = s.noted /\ t.named = s.named /\ t.outcome = x
  OBVIOUS
<1>5. c0.number = s.number /\ c0.by = s.by /\ c0.object = s.object /\ c0.day = logDay /\ c0.named = s.named /\ c0 \in CommitRows
  BY <1>1 DEF CommitRows
<1>6. \/ committed' = committed /\ (x = "ok" => s.op \notin {"edit", "delete"})
      \/ /\ committed' = committed \union {c0} /\ x # "denied" /\ s.op \in {"edit", "delete"}
         /\ nameOf[s.object] # 0
  OBVIOUS
<1>7. s.step = "handle"
  OBVIOUS
<1> HIDE DEF t, c0, s
<1>8. serving'[r] = t /\ \A q \in Slots : q # r => serving'[q] = serving[q]
  BY <1>2 DEF LogInv, LogTypeOK
<1>9. serving[r] = s
  BY DEF s
<1>10. ASSUME NEW q \in Slots
       PROVE  serving'[q].number = serving[q].number /\ (serving[q].step = "none" => serving'[q].step = "none")
  <2>1. CASE q = r
    BY <2>1, <1>4, <1>7, <1>8, <1>9
  <2>2. CASE q # r
    BY <2>2, <1>8
  <2> QED
    BY <2>1, <2>2
<1>11. \A c \in committed' : c \in committed \/ (c = c0 /\ committed' = committed \union {c0})
  BY <1>6
<1>12. LogTypeOK'
  <2>1. serving' \in [Slots -> Servings]
    BY <1>2, <1>3 DEF LogInv, LogTypeOK
  <2>2. committed' \subseteq CommitRows
    BY <1>5, <1>11 DEF LogInv, LogTypeOK
  <2> QED
    BY <2>1, <2>2 DEF LogInv, LogTypeOK
<1>13. Numbered'
  <2>1. \A q \in Slots : ServedAs(serving[q])'
    <3> SUFFICES ASSUME NEW q \in Slots PROVE ServedAs(serving[q])'
      OBVIOUS
    <3>1. CASE q = r
      BY <3>1, <1>1, <1>4, <1>8 DEF ServedAs
    <3>2. CASE q # r
      <4>1. ServedAs(serving[q])
        BY DEF LogInv, Numbered
      <4> QED
        BY <3>2, <4>1, <1>8 DEF ServedAs
    <3> QED
      BY <3>1, <3>2
  <2>2. \A q, p \in Slots : serving'[q].number = serving'[p].number => q = p \/ serving'[q].step = "none"
    <3>1. \A q, p \in Slots : serving[q].number = serving[p].number => q = p \/ serving[q].step = "none"
      BY DEF LogInv, Numbered
    <3> QED
      BY <3>1, <1>10, ZenonT(60)
  <2>3. \A e \in events : e.of <= count.requests /\ \A q \in Slots : serving'[q].number # e.of
    <3>1. \A e \in events : e.of <= count.requests /\ \A q \in Slots : serving[q].number # e.of
      BY DEF LogInv, Numbered
    <3> QED
      BY <3>1, <1>10
  <2>4. \A c \in committed' : c.number <= count.requests /\ c.day <= logDay
    BY <1>1, <1>5, <1>11 DEF LogInv, Numbered
  <2>5. \A e, f \in events : e.of = f.of => e = f
    BY DEF LogInv, Numbered
  <2> QED
    BY <2>1, <2>2, <2>3, <2>4, <2>5 DEF Numbered
<1>14. InOrder'
  BY DEF LogInv, InOrder
<1>15. Telling'
  <2>1. ASSUME NEW q \in Slots, serving'[q].step = "handle"
        PROVE  /\ serving'[q].named /\ nameOf'[serving'[q].object] # 0 => serving'[q].noted # 0
               /\ \A c \in committed' : c.number # serving'[q].number
    <3>1. q # r /\ serving'[q] = serving[q]
      BY <2>1, <1>4, <1>8
    <3>2. serving[q].object \in Objects
      BY <2>1, <3>1, ServedFacts
    <3>3. serving[q].number # s.number
      BY <3>1, <1>1
    <3>4. /\ serving[q].named /\ nameOf[serving[q].object] # 0 => serving[q].noted # 0
          /\ \A c \in committed : c.number # serving[q].number
      BY <2>1, <3>1 DEF LogInv, Telling
    <3> QED
      BY <3>1, <3>2, <3>3, <3>4, <1>5, <1>11
  <2>2. ASSUME NEW c \in committed' PROVE Told(c)'
    <3>1. CASE c \in committed
      <4>1. Told(c)
        BY <3>1 DEF LogInv, Telling
      <4>2. InRequest(c) => InRequest(c)'
        <5> SUFFICES ASSUME NEW q \in Slots, serving[q].number = c.number, Carries(serving[q], c)
                     PROVE  InRequest(c)'
          BY DEF InRequest
        <5>1. q # r
          BY <1>7, <1>9 DEF Carries
        <5> QED
          BY <5>1, <1>8 DEF InRequest, Carries
      <4> QED
        BY <4>1, <4>2 DEF Told, Tells
    <3>2. CASE c = c0 /\ committed' = committed \union {c0} /\ c \notin committed
      <4>1. x # "denied" /\ s.op \in {"edit", "delete"} /\ nameOf[s.object] # 0
        BY <3>2, <1>6
      <4>2. c.named => s.noted # 0
        BY <3>2, <4>1, <1>5, <1>7, <1>9 DEF LogInv, Telling
      <4>3. Carries(t, c)
        BY <3>2, <4>1, <4>2, <1>4, <1>5 DEF Carries
      <4>4. serving'[r].number = c.number /\ Carries(serving'[r], c)
        BY <3>2, <4>3, <1>4, <1>5, <1>8
      <4>5. InRequest(c)'
        BY <4>4 DEF InRequest, Carries
      <4> QED
        BY <4>5 DEF Told
    <3> QED
      BY <3>1, <3>2, <1>11
  <2>3. ASSUME NEW op, NEW outcome, NEW n, NEW o, Backed(op, outcome, n, o) PROVE Backed(op, outcome, n, o)'
    <3>1. committed \subseteq committed'
      BY <1>6
    <3> QED
      BY <2>3, <3>1 DEF Backed
  <2>4. ASSUME NEW q \in Slots, serving'[q].step = "record"
        PROVE  Backed(serving[q].op, serving[q].outcome, serving[q].number, serving[q].object)'
               /\ serving'[q].outcome # ""
    <3>1. CASE q = r
      <4>1. t.op \in {"edit", "delete"} /\ t.outcome = "ok" => c0 \in committed'
        BY <1>4, <1>6
      <4> QED
        BY <3>1, <4>1, <1>4, <1>5, <1>8, ZenonT(60) DEF Backed
    <3>2. CASE q # r
      <4>1. serving'[q] = serving[q] /\ serving[q].step = "record"
        BY <3>2, <2>4, <1>8
      <4>2. Backed(serving[q].op, serving[q].outcome, serving[q].number, serving[q].object) /\ serving[q].outcome # ""
        BY <4>1 DEF LogInv, Telling
      <4> QED
        BY <4>1, <4>2, <2>3
    <3> QED
      BY <3>1, <3>2
  <2>5. \A e \in events : Backed(e.op, e.outcome, e.of, e.object)'
    BY <2>3 DEF LogInv, Telling
  <2> QED
    BY <2>1, <2>2, <2>4, <2>5 DEF Telling
<1> QED
  BY <1>12, <1>13, <1>14, <1>15, ReaderWaits DEF LogInv

LEMMA EmptyServing == NoServing.step = "none" /\ NoServing.number = 0 /\ NoServing \in Servings
<1>1. NoServing.step = "none" /\ NoServing.number = 0
  BY DEF NoServing
<1>2. "none" \in {"none", "handle", "record"} /\ 0 \in Nat /\ 0 \in 0..2 /\ TRUE \in BOOLEAN
  OBVIOUS
<1>3. "" \in {"", "ok", "failed", "denied"} /\ "" \in Actors \union {""} /\ "" \in Operations \union {""}
      /\ 0 \in Objects \union {0}
  BY Zenon
<1>4. NoServing \in Servings
  BY <1>2, <1>3, Zenon DEF NoServing, Servings
<1> QED
  BY <1>1, <1>4

\* A request is over; the change it committed has its event or is excused
LEMMA OverKeeps ==
  ASSUME LogInv, NEW R \in SUBSET Slots, \A r \in R : serving'[r] = NoServing,
         \A q \in Slots \ R : serving'[q] = serving[q], serving' \in [Slots -> Servings],
         UNCHANGED <<logDay, accounts, nameOf, reader, committed>>,
         count' \in [requests : Nat, events : Nat, losses : Nat], count'.requests = count.requests,
         \/ events' = events /\ count'.events = count.events
         \/ /\ count'.events = count.events + 1
            /\ \E r \in R : /\ serving[r].step = "record"
                            /\ events' = events \union {Event(serving[r], count'.events)},
         \A n \in excused : n \in excused',
         \A r \in R, c \in committed : serving[r].number = c.number /\ Carries(serving[r], c) =>
            c.number \in excused' \/ events' = events \union {Event(serving[r], count'.events)}
  PROVE  LogInv'
<1>1. NoServing.step = "none" /\ NoServing.number = 0 /\ NoServing \in Servings
  BY EmptyServing
<1>2. \A q \in Slots : (q \in R /\ serving'[q] = NoServing) \/ (q \notin R /\ serving'[q] = serving[q])
  BY Zenon
<1>3. count.requests \in Nat /\ count.events \in Nat /\ logDay \in Nat
  BY DEF LogInv, LogTypeOK
<1>4. PICK m : m = count.events + 1
  OBVIOUS
<1>5. ASSUME NEW r \in Slots, serving[r].step = "record"
      PROVE  /\ Event(serving[r], m) \in LogEvents /\ Event(serving[r], m).of = serving[r].number
             /\ Event(serving[r], m).id = m /\ Event(serving[r], m).at = logDay
             /\ Event(serving[r], m).by = serving[r].by /\ Event(serving[r], m).object = serving[r].object
             /\ Event(serving[r], m).name = serving[r].noted /\ Event(serving[r], m).outcome = serving[r].outcome
             /\ Event(serving[r], m).op = serving[r].op /\ serving[r].number \in 1..count.requests
  <2> DEFINE s == serving[r]
  <2>1. s \in Servings /\ s.by \in Actors /\ s.op \in Operations /\ s.object \in Objects
        /\ s.number \in 1..count.requests
    BY <1>5, ServedFacts
  <2>2. s.noted \in 0..2 /\ s.outcome \in {"", "ok", "failed", "denied"}
    BY <2>1 DEF Servings
  <2>3. s.outcome # ""
    BY <1>5 DEF LogInv, Telling
  <2> HIDE DEF s
  <2>4. Event(s, m) = [id |-> m, of |-> s.number, at |-> logDay, by |-> s.by, op |-> s.op, object |-> s.object,
                       name |-> s.noted, outcome |-> s.outcome]
    <3>1. Noted("record", s.noted, s.object) = s.noted
      BY DEF Noted
    <3> QED
      BY <3>1 DEF Event
  <2>5. Event(s, m) \in LogEvents
    <3>1. m \in Nat \ {0} /\ s.number \in Nat \ {0}
      BY <2>1, <1>3, <1>4
    <3>2. s.outcome \in {"ok", "failed", "denied"}
      BY <2>2, <2>3
    <3>3. s.by \in Actors /\ s.op \in Operations /\ s.object \in Objects /\ logDay \in Nat /\ s.noted \in 0..2
      BY <2>1, <2>2, <1>3
    <3>4. [id |-> m, of |-> s.number, at |-> logDay, by |-> s.by, op |-> s.op, object |-> s.object,
           name |-> s.noted, outcome |-> s.outcome] \in LogEvents
      BY <3>1, <3>2, <3>3, Zenon DEF LogEvents
    <3> QED
      BY <2>4, <3>4, Zenon
  <2> QED
    BY <2>1, <2>4, <2>5 DEF s
<1>6. \/ events' = events /\ count'.events = count.events
      \/ /\ count'.events = m
         /\ \E r \in R : serving[r].step = "record" /\ events' = events \union {Event(serving[r], m)}
  BY <1>4
<1>7. \A e \in events' :
        \/ e \in events
        \/ /\ count'.events = m
           /\ \E r \in R : /\ serving[r].step = "record" /\ e = Event(serving[r], m)
                           /\ events' = events \union {e}
  BY <1>6
<1>8. events \subseteq events' /\ count'.events \in {count.events, m} /\ count'.events \in Nat
  BY <1>3, <1>4, <1>6
<1>9. LogTypeOK'
  <2>1. events' \subseteq LogEvents
    BY <1>5, <1>7 DEF LogInv, LogTypeOK
  <2> QED
    BY <2>1 DEF LogInv, LogTypeOK
<1>10. Numbered'
  <2>1. \A q \in Slots : ServedAs(serving[q])'
    <3> SUFFICES ASSUME NEW q \in Slots PROVE ServedAs(serving[q])'
      OBVIOUS
    <3>1. CASE serving'[q] = NoServing
      BY <3>1, <1>1, Zenon DEF ServedAs
    <3>2. CASE serving'[q] = serving[q]
      <4>1. ServedAs(serving[q])
        BY DEF LogInv, Numbered
      <4> QED
        BY <3>2, <4>1 DEF ServedAs
    <3> QED
      BY <3>1, <3>2, <1>2
  <2>2. \A q, p \in Slots : serving'[q].number = serving'[p].number => q = p \/ serving'[q].step = "none"
    <3> SUFFICES ASSUME NEW q \in Slots, NEW p \in Slots, serving'[q].number = serving'[p].number,
                        serving'[q].step # "none"
                 PROVE  q = p
      OBVIOUS
    <3>1. serving'[q] = serving[q]
      BY <1>1, <1>2
    <3>2. serving[q].number \in 1..count.requests
      BY <3>1, ServedFacts
    <3>3. serving'[p].number # 0
      BY <3>1, <3>2
    <3>4. serving'[p] = serving[p]
      BY <3>3, <1>1, <1>2
    <3> QED
      BY <3>1, <3>4 DEF LogInv, Numbered
  <2>3. ASSUME NEW e \in events' PROVE e.of <= count.requests /\ \A q \in Slots : serving'[q].number # e.of
    <3>1. CASE e \in events
      <4>1. e.of <= count.requests /\ \A q \in Slots : serving[q].number # e.of
        BY <3>1 DEF LogInv, Numbered
      <4>2. e.of # 0
        BY <3>1 DEF LogInv, LogTypeOK, LogEvents
      <4> QED
        BY <4>1, <4>2, <1>1, <1>2
    <3>2. CASE e \notin events
      <4>1. PICK r \in R : serving[r].step = "record" /\ e = Event(serving[r], m)
        BY <3>2, <1>7
      <4>2. e.of = serving[r].number /\ e.of \in 1..count.requests
        BY <4>1, <1>5
      <4>3. \A q \in Slots : serving[q].number = e.of => q = r
        BY <4>1, <4>2, ServedFacts
      <4>4. \A q \in Slots : serving'[q].number # e.of
        BY <4>2, <4>3, <1>1, <1>2
      <4> QED
        BY <4>2, <4>4, <1>3
    <3> QED
      BY <3>1, <3>2
  <2>4. \A c \in committed : c.number <= count.requests /\ c.day <= logDay
    BY DEF LogInv, Numbered
  <2>5. ASSUME NEW e \in events', NEW f \in events', e.of = f.of PROVE e = f
    <3>1. ASSUME NEW g \in events', g \notin events, NEW h \in events' PROVE g = h \/ g.of # h.of
      <4>1. PICK r \in R : serving[r].step = "record" /\ g = Event(serving[r], m) /\ events' = events \union {g}
        BY <3>1, <1>7
      <4>2. g.of = serving[r].number
        BY <4>1, <1>5
      <4>3. h \in events => h.of # serving[r].number
        BY DEF LogInv, Numbered
      <4> QED
        BY <4>1, <4>2, <4>3
    <3>2. e \in events /\ f \in events => e = f
      BY <2>5 DEF LogInv, Numbered
    <3> QED
      BY <2>5, <3>1, <3>2
  <2> QED
    BY <2>1, <2>2, <2>3, <2>4, <2>5 DEF Numbered
<1>11. InOrder'
  <2>1. \A e \in events : e.id \in Nat /\ e.id <= count.events /\ e.at <= logDay
    BY DEF LogInv, LogTypeOK, LogEvents, InOrder
  <2>2. \A e \in events' : e \in events \/ (e.id = m /\ e.at = logDay /\ count'.events = m /\ events' = events \union {e})
    BY <1>5, <1>7
  <2>3. \A e \in events' : e.id <= count'.events /\ e.at <= logDay
    BY <2>1, <2>2, <1>3, <1>4, <1>8
  <2>4. ASSUME NEW e \in events', NEW f \in events', e.id <= f.id PROVE e.at <= f.at
    <3>1. CASE f \notin events
      BY <3>1, <2>2, <2>3
    <3>2. CASE f \in events /\ e \notin events
      BY <3>2, <2>1, <2>2, <2>4, <1>3, <1>4
    <3>3. CASE f \in events /\ e \in events
      BY <3>3, <2>4 DEF LogInv, InOrder
    <3> QED
      BY <3>1, <3>2, <3>3
  <2> QED
    BY <2>3, <2>4 DEF InOrder
<1>12. Telling'
  <2>1. ASSUME NEW q \in Slots, serving'[q].step = "handle"
        PROVE  /\ serving'[q].named /\ nameOf[serving'[q].object] # 0 => serving'[q].noted # 0
               /\ \A c \in committed : c.number # serving'[q].number
    <3>1. serving'[q] = serving[q]
      BY <2>1, <1>1, <1>2
    <3> QED
      BY <2>1, <3>1 DEF LogInv, Telling
  <2>2. ASSUME NEW c \in committed PROVE Told(c)'
    <3>1. Told(c)
      BY DEF LogInv, Telling
    <3>2. c.number \in excused \/ c.day < logDay - RetentionDays \/ (\E e \in events : Tells(e, c)) => Told(c)'
      BY <1>8 DEF Told, Tells
    <3>3. ASSUME NEW q \in Slots, serving[q].number = c.number, Carries(serving[q], c) PROVE Told(c)'
      <4>1. CASE q \notin R
        <5>1. serving'[q] = serving[q]
          BY <4>1
        <5> QED
          BY <3>3, <5>1 DEF Told, InRequest, Carries
      <4>2. CASE q \in R /\ c.number \in excused'
        BY <4>2 DEF Told
      <4>3. CASE q \in R /\ c.number \notin excused'
        <5> DEFINE e == Event(serving[q], count'.events)
        <5>1. events' = events \union {e}
          BY <3>3, <4>3
        <5>2. serving[q].step = "record" /\ serving[q].outcome \in {"ok", "failed"} /\ serving[q].by = c.by
              /\ serving[q].object = c.object /\ (c.named => serving[q].noted # 0)
          BY <3>3 DEF Carries
        <5>3. count'.events = m
          <6>1. \A f \in events : f.of # serving[q].number
            BY DEF LogInv, Numbered
          <6>2. e.of = serving[q].number
            BY DEF Event
          <6>3. events' # events
            BY <5>1, <6>1, <6>2
          <6> QED
            BY <6>3, <1>6
        <5>4. e = Event(serving[q], m)
          BY <5>3
        <5>5. e.of = c.number /\ e.by = c.by /\ e.object = c.object /\ e.at = logDay /\ (c.named => e.name # 0) /\ e.outcome # "denied"
          BY <3>3, <5>2, <5>4, <1>5
        <5>6. logDay >= c.day
          BY <1>3 DEF LogInv, Numbered, LogTypeOK, CommitRows
        <5> HIDE DEF e
        <5>7. Tells(e, c)
          BY <5>5, <5>6 DEF Tells
        <5> QED
          BY <5>1, <5>7 DEF Told, Tells
      <4> QED
        BY <4>1, <4>2, <4>3
    <3> QED
      BY <3>1, <3>2, <3>3 DEF Told, InRequest
  <2>3. ASSUME NEW q \in Slots, serving'[q].step = "record"
        PROVE  Backed(serving[q].op, serving[q].outcome, serving[q].number, serving[q].object)'
               /\ serving'[q].outcome # ""
    <3>1. serving'[q] = serving[q]
      BY <2>3, <1>1, <1>2
    <3>2. Backed(serving[q].op, serving[q].outcome, serving[q].number, serving[q].object) /\ serving[q].outcome # ""
      BY <2>3, <3>1 DEF LogInv, Telling
    <3> QED
      BY <3>1, <3>2 DEF Backed
  <2>4. ASSUME NEW e \in events' PROVE Backed(e.op, e.outcome, e.of, e.object)'
    <3>1. CASE e \in events
      BY <3>1 DEF LogInv, Telling, Backed
    <3>2. CASE e \notin events
      <4>1. PICK r \in R : serving[r].step = "record" /\ e = Event(serving[r], m)
        BY <3>2, <1>7
      <4>2. e.op = serving[r].op /\ e.outcome = serving[r].outcome /\ e.of = serving[r].number
            /\ e.object = serving[r].object
        BY <4>1, <1>5
      <4>3. Backed(serving[r].op, serving[r].outcome, serving[r].number, serving[r].object)
        BY <4>1 DEF LogInv, Telling
      <4> QED
        BY <4>2, <4>3 DEF Backed
    <3> QED
      BY <3>1, <3>2
  <2> QED
    BY <2>1, <2>2, <2>3, <2>4 DEF Telling
<1>13. Ahead'
  <2>1. \A i \in Ids' : i \in Ids \/ i > count.events
    <3> SUFFICES ASSUME NEW e \in events' PROVE e.id \in Ids \/ e.id > count.events
      BY DEF Ids
    <3>1. e \in events \/ e.id = m
      BY <1>5, <1>7
    <3> QED
      BY <3>1, <1>3, <1>4 DEF Ids
  <2>2. Ids \subseteq Ids'
    BY <1>8 DEF Ids
  <2>3. count'.events >= count.events
    BY <1>3, <1>4, <1>8
  <2> QED
    BY <2>1, <2>2, <2>3, <1>9, <1>11, AheadFollows DEF LogInv
<1> QED
  BY <1>9, <1>10, <1>11, <1>12, <1>13 DEF LogInv

LEMMA HandleRequestKeeps ==
  ASSUME LogInv, NEW r \in Slots, HandleRequest(r)
  PROVE  LogInv'
<1> DEFINE o == serving[r].object
           more == committed \union {[number |-> serving[r].number, by |-> serving[r].by, object |-> o,
                                      day |-> logDay, named |-> serving[r].named]}
<1>1. serving[r].step = "handle" /\ UNCHANGED <<logDay, accounts, events, reader, excused, count>>
  BY DEF HandleRequest, table
<1>2. o \in Objects /\ nameOf \in [Objects -> 0..2] /\ serving[r].op \in Operations
  BY <1>1, ServedFacts DEF LogInv, LogTypeOK
<1>3. CASE /\ UNCHANGED <<nameOf, committed>>
           /\ \E outcome \in {"denied", "failed"} : Answers(r, outcome)
  <2>1. PICK x \in {"denied", "failed"} : Answers(r, x)
    BY <1>3
  <2> QED
    BY <1>1, <1>2, <1>3, <2>1, AnsweredKeeps DEF Answers
<1>4. CASE /\ nameOf[o] # 0 /\ serving[r].op \in {"view", "select"} /\ UNCHANGED <<nameOf, committed>>
           /\ Answers(r, "ok")
  <2>1. serving[r].op \notin {"edit", "delete"}
    BY <1>4
  <2> QED
    BY <1>1, <1>2, <1>4, <2>1, AnsweredKeeps DEF Answers
<1>5. CASE /\ nameOf[o] # 0 /\ serving[r].op \in {"edit", "delete"} /\ UNCHANGED <<nameOf, committed>>
           /\ serving' = [serving EXCEPT ![r] = NoServing]
  <2>1. /\ \A q \in {r} : serving'[q] = NoServing
        /\ \A q \in Slots \ {r} : serving'[q] = serving[q]
        /\ serving' \in [Slots -> Servings]
    BY <1>5, EmptyServing DEF LogInv, LogTypeOK
  <2>2. \A q \in {r}, c \in committed : ~Carries(serving[q], c)
    BY <1>1 DEF Carries
  <2>3. count \in [requests : Nat, events : Nat, losses : Nat] /\ {r} \in SUBSET Slots
    BY DEF LogInv, LogTypeOK
  <2> QED
    BY <1>1, <1>5, <2>1, <2>2, <2>3, OverKeeps
<1>6. CASE /\ nameOf[o] # 0 /\ serving[r].op \in {"edit", "delete"} /\ committed' = more
           /\ \E name \in IF serving[r].op = "edit" THEN 1..2 ELSE {0} : nameOf' = [nameOf EXCEPT ![o] = name]
           /\ \E outcome \in {"ok", "failed"} : Answers(r, outcome)
  <2>1. PICK x \in {"ok", "failed"} : Answers(r, x)
    BY <1>6
  <2>2. nameOf' \in [Objects -> 0..2] /\ \A p \in Objects : nameOf[p] = 0 => nameOf'[p] = 0
    BY <1>2, <1>6
  <2> QED
    BY <1>1, <1>6, <2>1, <2>2, AnsweredKeeps DEF Answers
<1> QED
  BY <1>3, <1>4, <1>5, <1>6 DEF HandleRequest


LEMMA RecordKeeps ==
  ASSUME LogInv, NEW r \in Slots, Record(r)
  PROVE  LogInv'
<1> DEFINE s == serving[r]
<1>1. /\ s.step = "record" /\ serving' = [serving EXCEPT ![r] = NoServing]
      /\ UNCHANGED <<logDay, accounts, nameOf, reader, committed>>
  BY DEF Record
<1>2. /\ \A q \in {r} : serving'[q] = NoServing
      /\ \A q \in Slots \ {r} : serving'[q] = serving[q]
      /\ serving' \in [Slots -> Servings]
  <2>1. NoServing \in Servings
    BY EmptyServing
  <2> QED
    BY <1>1, <2>1 DEF LogInv, LogTypeOK
<1>3. count \in [requests : Nat, events : Nat, losses : Nat] /\ {r} \in SUBSET Slots
  BY DEF LogInv, LogTypeOK
<1>4. CASE ~Recorded(s.op) /\ UNCHANGED <<events, excused, count>>
  <2>1. \A c \in committed : ~Carries(s, c)
    BY <1>4 DEF Recorded, Carries
  <2> HIDE DEF s
  <2>2. \A q \in {r}, c \in committed : ~(serving[q].number = c.number /\ Carries(serving[q], c))
    BY <2>1 DEF s
  <2> QED
    BY <1>1, <1>2, <1>3, <1>4, <2>2, OverKeeps
<1>5. CASE /\ count' = [count EXCEPT !.events = @ + 1]
           /\ events' = events \union {Event(s, count'.events)}
           /\ UNCHANGED excused
  <2>1. count' \in [requests : Nat, events : Nat, losses : Nat] /\ count'.requests = count.requests
        /\ count'.events = count.events + 1
    BY <1>3, <1>5
  <2>2. \E q \in {r} : serving[q].step = "record" /\ events' = events \union {Event(serving[q], count'.events)}
    BY <1>1, <1>5
  <2> QED
    BY <1>1, <1>2, <1>3, <1>5, <2>1, <2>2, OverKeeps
<1>6. CASE excused' = excused \union {s.number} /\ UNCHANGED <<events, count>>
  BY <1>1, <1>2, <1>3, <1>6, OverKeeps
<1>7. CASE Loses({s.number}) /\ UNCHANGED events
  <2>1. count' \in [requests : Nat, events : Nat, losses : Nat] /\ count'.requests = count.requests
        /\ count'.events = count.events /\ excused' = excused \union {s.number}
    BY <1>3, <1>7 DEF Loses
  <2> QED
    BY <1>1, <1>2, <1>3, <1>7, <2>1, OverKeeps
<1> QED
  BY <1>4, <1>5, <1>6, <1>7 DEF Record

LEMMA LogStopKeeps ==
  ASSUME LogInv, LogStop
  PROVE  LogInv'
<1>1. /\ serving' = [r \in Slots |-> NoServing] /\ Slots \in SUBSET Slots
      /\ UNCHANGED <<logDay, accounts, nameOf, reader, committed, events>>
      /\ excused' = excused \union {serving[r].number : r \in Slots}
  BY DEF LogStop, Loses, table
<1>2. count' \in [requests : Nat, events : Nat, losses : Nat] /\ count'.requests = count.requests
      /\ count'.events = count.events
  BY DEF LogStop, Loses, LogInv, LogTypeOK
<1>3. serving' \in [Slots -> Servings] /\ \A r \in Slots : serving'[r] = NoServing
  BY <1>1, EmptyServing
<1> QED
  BY <1>1, <1>2, <1>3, OverKeeps

LEMMA ActorDeleteKeeps ==
  ASSUME LogInv, NEW u \in Actors, ActorDelete(u)
  PROVE  LogInv'
<1>1. /\ accounts' = accounts \ {u}
      /\ UNCHANGED <<logDay, nameOf, serving, events, reader, committed, excused, count>>
  BY DEF ActorDelete, table
<1>2. LogTypeOK' /\ InOrder'
  BY <1>1 DEF LogInv, LogTypeOK, InOrder
<1>3. Ahead'
  BY <1>1, <1>2, ReaderWaits
<1> QED
  BY <1>1, <1>2, <1>3, ReadingKeeps

LEMMA NextLogDayKeeps ==
  ASSUME LogInv, NextLogDay
  PROVE  LogInv'
<1>1. /\ logDay' = logDay + 1 /\ events' = {e \in events : e.at >= logDay' - RetentionDays}
      /\ UNCHANGED <<accounts, nameOf, serving, reader, committed, excused, count>>
  BY DEF NextLogDay
<1>2. logDay \in Nat /\ logDay' \in Nat /\ events' \subseteq events /\ RetentionDays \in Nat
  BY <1>1, ActivityConstants DEF LogInv, LogTypeOK
<1>3. \A e \in events : e.at \in Nat /\ e.id \in Nat
  BY DEF LogInv, LogTypeOK, LogEvents
<1>4. LogTypeOK'
  BY <1>1, <1>2 DEF LogInv, LogTypeOK
<1>5. Numbered'
  <2>1. \A c \in committed : c.number <= count.requests /\ c.day <= logDay + 1
    <3>1. \A c \in committed : c.number <= count.requests /\ c.day <= logDay /\ c.day \in Nat
      BY DEF LogInv, LogTypeOK, CommitRows, Numbered
    <3> QED
      BY <3>1, <1>2
  <2>2. \A r \in Slots : ServedAs(serving[r])'
    BY <1>1 DEF LogInv, Numbered, ServedAs
  <2> QED
    BY <2>1, <2>2, <1>1, <1>2 DEF LogInv, Numbered
<1>6. InOrder'
  <2>1. \A e \in events : e.id <= count.events /\ e.at <= logDay
    BY DEF LogInv, InOrder
  <2>2. \A e \in events, f \in events : e.id <= f.id => e.at <= f.at
    BY DEF LogInv, InOrder
  <2>3. \A e \in events' : e.id <= count'.events /\ e.at <= logDay'
    BY <2>1, <1>1, <1>2, <1>3
  <2> QED
    BY <2>2, <2>3, <1>2 DEF InOrder
<1>7. ASSUME NEW c \in committed PROVE Told(c)'
  <2>1. Told(c) /\ c.day \in Nat
    BY DEF LogInv, LogTypeOK, CommitRows, Telling
  <2>2. InRequest(c) => InRequest(c)'
    BY <1>1 DEF InRequest, Carries
  <2>3. c.day < logDay - RetentionDays => c.day < logDay' - RetentionDays
    BY <1>1, <1>2, <2>1
  <2>4. ASSUME NEW e \in events, Tells(e, c)
        PROVE  c.day < logDay' - RetentionDays \/ \E f \in events' : Tells(f, c)
    <3>1. CASE e \in events'
      BY <3>1, <2>4
    <3>2. CASE e \notin events'
      <4>1. ~(e.at >= logDay' - RetentionDays)
        BY <3>2, <1>1
      <4> QED
        BY <4>1, <2>1, <2>4, <1>2, <1>3 DEF Tells
    <3> QED
      BY <3>1, <3>2
  <2> QED
    BY <2>1, <2>2, <2>3, <2>4, <1>1 DEF Told, Tells
<1>8. Telling'
  <2>1. \A e \in events' : Backed(e.op, e.outcome, e.of, e.object)'
    BY <1>1, <1>2 DEF LogInv, Telling, Backed
  <2> QED
    BY <1>1, <1>7, <2>1 DEF LogInv, Telling, Backed
<1>9. Ahead'
  <2>1. Ids' \subseteq Ids
    BY <1>2 DEF Ids
  <2>2. ASSUME NEW i \in Ids', NEW j \in Ids, j > i PROVE j \in Ids'
    <3>1. PICK e \in events' : i = e.id
      BY DEF Ids
    <3>2. PICK f \in events : j = f.id
      BY DEF Ids
    <3>3. e.at <= f.at
      BY <2>2, <3>1, <3>2, <1>2, <1>3 DEF LogInv, InOrder
    <3>4. f \in events'
      BY <3>1, <3>2, <3>3, <1>1, <1>2, <1>3
    <3> QED
      BY <3>2, <3>4 DEF Ids
  <2>3. count.events \in Nat
    BY DEF LogInv, LogTypeOK
  <2> QED
    BY <2>1, <2>2, <2>3, <1>1, <1>4, <1>6, AheadFollows DEF LogInv
<1> QED
  BY <1>4, <1>5, <1>6, <1>8, <1>9 DEF LogInv

LEMMA LogStarts == LogInit => LogInv
<1> SUFFICES ASSUME LogInit PROVE LogInv
  OBVIOUS
<1>1. LogTypeOK
  <2>1. serving \in [Slots -> Servings]
    BY EmptyServing DEF LogInit
  <2>2. reader \in LogReaders
    BY DEF LogInit, NoReader, LogReaders
  <2> QED
    BY <2>1, <2>2 DEF LogInit, LogTypeOK
<1>2. \A r \in Slots : serving[r] = NoServing
  BY DEF LogInit
<1>3. NoServing.step = "none"
  BY EmptyServing
<1>4. Numbered /\ Telling /\ InOrder
  <2>1. \A r \in Slots : ServedAs(serving[r])
    BY <1>2, <1>3, Zenon DEF ServedAs
  <2>2. events = {} /\ committed = {}
    BY DEF LogInit
  <2> QED
    BY <2>1, <2>2, <1>2, <1>3 DEF Numbered, Telling, InOrder
<1>5. Ahead
  BY DEF LogInit, NoReader, Ahead, Unseen, Ids
<1> QED
  BY <1>1, <1>4, <1>5 DEF LogInv

LEMMA LogStepKeeps ==
  ASSUME LogInv, [LogNext]_logVars
  PROVE  LogInv'
<1>1. CASE UNCHANGED logVars
  <2>1. UNCHANGED <<logDay, accounts, nameOf, serving, events, reader, committed, excused, count>>
    BY <1>1 DEF logVars
  <2>2. LogTypeOK' /\ InOrder'
    BY <2>1 DEF LogInv, LogTypeOK, InOrder
  <2>3. Ahead'
    BY <2>1, <2>2, ReaderWaits
  <2> QED
    BY <2>1, <2>2, <2>3, ReadingKeeps
<1>2. CASE LogNext
  BY <1>2, PrepareKeeps, HandleRequestKeeps, RecordKeeps, ActorDeleteKeeps, LogStopKeeps, NextLogDayKeeps,
     OpenLogKeeps, ReadApiKeeps, ReadPageKeeps DEF LogNext
<1> QED
  BY <1>1, <1>2

LEMMA InvTells == LogInv => ActivityIsTold
<1> SUFFICES ASSUME LogInv PROVE ActivityIsTold
  OBVIOUS
<1>1. ReadersMissNothing
  BY DEF LogInv, Ahead, Unseen, ReadersMissNothing
<1>2. ASSUME NEW c \in committed, c.day >= logDay - RetentionDays, c.number \notin excused,
             \A r \in Slots : serving[r].number # c.number
      PROVE  \E e \in events : /\ {f \in events : f.of = c.number} = {e}
                               /\ e.by = c.by /\ e.object = c.object /\ (c.named => e.name # 0) /\ e.outcome # "denied"
  <2>1. Told(c) /\ ~InRequest(c)
    BY <1>2 DEF LogInv, Telling, InRequest
  <2>2. ~(c.day < logDay - RetentionDays)
    BY <1>2, ActivityConstants DEF LogInv, LogTypeOK, CommitRows
  <2>3. PICK e \in events : Tells(e, c)
    BY <1>2, <2>1, <2>2 DEF Told
  <2>4. \A f \in events : f.of = e.of => f = e
    BY DEF LogInv, Numbered
  <2> QED
    BY <2>3, <2>4 DEF Tells
<1>3. \A e \in events : e.op \in {"edit", "delete"} /\ e.outcome = "ok" =>
        \E c \in committed : c.number = e.of /\ c.object = e.object
  BY DEF LogInv, Telling, Backed
<1>4. ChangesAreTold
  BY <1>2, <1>3 DEF ChangesAreTold
<1> QED
  BY <1>1, <1>4 DEF ActivityIsTold

\* ActivityIsTold (see ActivityLog) for any number of users, objects, requests served
\* at the same time and events, and any length of a page and of the retention: an
\* event is bound to its request by its number, the events that are purged are always
\* the oldest ones, and what a reader has not seen is older than what it has.
THEOREM TheLogTells == LogSpec => []ActivityIsTold
<1>1. LogInit => LogInv
  BY LogStarts
<1>2. LogInv /\ [LogNext]_logVars => LogInv'
  BY LogStepKeeps
<1>3. LogInv => ActivityIsTold
  BY InvTells
<1> QED
  BY <1>1, <1>2, <1>3, PTL DEF LogSpec

===============================================================================

----------------------------- MODULE PartsProofs -----------------------------
(***************************************************************************)
(* Proofs about smaller parts of the service, each with a specification of *)
(* its own: the renewal of the scheduler's jobs (JobReload), the posture   *)
(* of own domains (DomainPosture), the archive of report files (Archive),  *)
(* the alerts about stalled collection (StallAlerts), the reminders of     *)
(* keys (KeyReminders), the backups (Backups), the vendors a tenant        *)
(* protects (Vendors) and the score of a quarter (Effectiveness).          *)
(***************************************************************************)
EXTENDS JobReload, DomainPosture, Archive, StallAlerts, KeyReminders, Backups, Vendors,
        Effectiveness, FiniteSetTheorems, SequenceTheorems, WellFoundedInduction, TLAPS

-----------------------------------------------------------------------------
(* The jobs of reports                                                       *)

ReloadSpec == ReloadInit /\ [][ReloadNext]_ReloadVars

Requests ==
  [op : {"none", "schedule", "settings"}, step : {"none", "list", "remove", "add"},
   listed : SUBSET Saved, adding : SUBSET Saved, next : SUBSET Saved, zone : Int]

ReloadTypeOK ==
  /\ saved \in [Saved -> {"absent", "enabled", "disabled"}] /\ timezone \in Nat
  /\ jobs \in [Saved -> Int] /\ editor \in [Editors -> Requests] /\ edits \in Nat
  /\ aborted \in BOOLEAN /\ crossed \in BOOLEAN

\* The one schedule that is being added, with the trigger made for it
OneNext ==
  \A e \in Editors :
    editor[e].next # {} =>
      editor[e].step = "add" /\ editor[e].zone \in Nat /\ \E s \in Saved : editor[e].next = {s}

\* A request that will still read the schedules, or has read s and not yet added it
WillAdd(r, s) == r.step \in {"list", "remove"} \/ (r.step = "add" /\ s \in r.adding \union r.next)

Looked ==
  ~aborted => \A s \in Saved : saved[s] = "enabled" =>
                jobs[s] # NoJobYet \/ \E e \in Editors : WillAdd(editor[e], s)

\* What a request that nobody disturbs has done so far
Undone(r) == r.step = "remove" => \A s \in Saved : jobs[s] # NoJobYet <=> s \in r.listed

Adding(r) ==
  r.step = "add" =>
    /\ r.next # {} => r.zone = timezone
    /\ \A s \in Saved :
         IF s \in r.adding \union r.next THEN saved[s] = "enabled"
         ELSE jobs[s] = IF saved[s] = "enabled" THEN timezone ELSE NoJobYet

Alone ==
  ~crossed =>
    /\ \A e \in Editors, f \in Editors : editor[e].step # "none" /\ editor[f].step # "none" => e = f
    /\ (\A e \in Editors : editor[e].step = "none") =>
         \A s \in Saved : jobs[s] = IF saved[s] = "enabled" THEN timezone ELSE NoJobYet
    /\ \A e \in Editors : Undone(editor[e]) /\ Adding(editor[e])

Renewing == ReloadTypeOK /\ OneNext /\ Looked /\ Alone

LEMMA ReloadStarts == ReloadInit => Renewing
<1> SUFFICES ASSUME ReloadInit PROVE Renewing
  OBVIOUS
<1>1. PICK r : r = Answered
  OBVIOUS
<1>2. r \in Requests /\ r.step = "none" /\ r.next = {}
  BY <1>1 DEF Answered, Requests, NoJobYet
<1>3. /\ saved \in [Saved -> {"absent", "enabled"}] /\ timezone = 0 /\ edits = 0
      /\ jobs = [s \in Saved |-> IF saved[s] = "enabled" THEN 0 ELSE NoJobYet]
      /\ editor = [e \in Editors |-> r] /\ aborted = FALSE /\ crossed = FALSE
  BY <1>1 DEF ReloadInit
<1>4. ReloadTypeOK
  <2>1. saved \in [Saved -> {"absent", "enabled", "disabled"}] /\ editor \in [Editors -> Requests]
    BY <1>2, <1>3
  <2>2. jobs \in [Saved -> Int]
    BY <1>3 DEF NoJobYet
  <2>3. timezone \in Nat /\ edits \in Nat /\ aborted \in BOOLEAN /\ crossed \in BOOLEAN
    BY <1>3
  <2> QED
    BY <2>1, <2>2, <2>3 DEF ReloadTypeOK
<1>5. OneNext
  BY <1>2, <1>3 DEF OneNext
<1>6. Looked /\ Alone
  BY <1>2, <1>3 DEF Looked, Alone, Undone, Adding, NoJobYet
<1> QED
  BY <1>4, <1>5, <1>6 DEF Renewing

\* What a step of one request leaves as it was
LEMMA EditorFacts ==
  ASSUME Renewing, NEW e \in Editors, NEW r \in Requests, editor' = [editor EXCEPT ![e] = r]
  PROVE  /\ editor' \in [Editors -> Requests]
         /\ \A f \in Editors : editor'[f] = IF f = e THEN r ELSE editor[f]
  BY DEF Renewing, ReloadTypeOK

LEMMA EditsKeeps ==
  ASSUME Renewing, NEW e \in Editors, NEW op \in {"schedule", "settings"}, Edits(e, op),
         saved' \in [Saved -> {"absent", "enabled", "disabled"}], timezone' \in Nat
  PROVE  Renewing'
<1>1. PICK q \in Requests : q = editor[e]
  BY DEF Renewing, ReloadTypeOK
<1>2. /\ q.step = "none" /\ jobs' = jobs /\ aborted' = aborted /\ edits' = edits + 1
      /\ editor' = [editor EXCEPT ![e].op = op, ![e].step = "list"]
      /\ crossed' = (crossed \/ Others(e) # {})
  BY <1>1 DEF Edits
<1>3. PICK r : r = [q EXCEPT !.op = op, !.step = "list"]
  OBVIOUS
<1>4. r \in Requests /\ r.step = "list" /\ r.next = q.next
  BY <1>3 DEF Requests
<1>5. editor' = [editor EXCEPT ![e] = r]
  BY <1>1, <1>2, <1>3
<1>6. /\ editor' \in [Editors -> Requests]
      /\ \A f \in Editors : editor'[f] = IF f = e THEN r ELSE editor[f]
  BY <1>4, <1>5, EditorFacts
<1>7. q.next = {}
  BY <1>1, <1>2 DEF Renewing, OneNext
<1>8. ReloadTypeOK'
  BY <1>2, <1>6 DEF Renewing, ReloadTypeOK
<1>9. OneNext'
  BY <1>4, <1>6, <1>7 DEF Renewing, OneNext
<1>10. Looked'
  BY <1>4, <1>6 DEF Looked, WillAdd
<1>11. Alone'
  <2>1. ASSUME ~crossed', NEW f \in Editors PROVE editor'[f].step = IF f = e THEN "list" ELSE "none"
    BY <1>2, <1>4, <1>6, <2>1 DEF Others
  <2> QED
    BY <1>6, <2>1 DEF Alone, Undone, Adding
<1> QED
  BY <1>8, <1>9, <1>10, <1>11 DEF Renewing

LEMMA ListJobsKeeps ==
  ASSUME Renewing, NEW e \in Editors, ListJobs(e)
  PROVE  Renewing'
<1>1. PICK q \in Requests : q = editor[e]
  BY DEF Renewing, ReloadTypeOK
<1>2. /\ q.step = "list" /\ jobs' = jobs /\ aborted' = aborted /\ edits' = edits
      /\ saved' = saved /\ timezone' = timezone
      /\ editor' = [editor EXCEPT ![e].step = "remove", ![e].listed = {s \in Saved : jobs[s] # NoJobYet}]
      /\ crossed' = (Others(e) # {})
  BY <1>1 DEF ListJobs
<1>3. PICK r : r = [q EXCEPT !.step = "remove", !.listed = {s \in Saved : jobs[s] # NoJobYet}]
  OBVIOUS
<1>4. /\ r \in Requests /\ r.step = "remove" /\ r.next = q.next
      /\ \A s \in Saved : s \in r.listed <=> jobs[s] # NoJobYet
  BY <1>3 DEF Requests
<1>5. editor' = [editor EXCEPT ![e] = r]
  BY <1>1, <1>2, <1>3
<1>6. /\ editor' \in [Editors -> Requests]
      /\ \A f \in Editors : editor'[f] = IF f = e THEN r ELSE editor[f]
  BY <1>4, <1>5, EditorFacts
<1>7. q.next = {}
  BY <1>1, <1>2 DEF Renewing, OneNext
<1>8. ReloadTypeOK'
  BY <1>2, <1>6 DEF Renewing, ReloadTypeOK
<1>9. OneNext'
  BY <1>4, <1>6, <1>7 DEF Renewing, OneNext
<1>10. Looked'
  BY <1>4, <1>6 DEF Looked, WillAdd
<1>11. Alone'
  <2>1. ASSUME ~crossed', NEW f \in Editors, f # e PROVE editor'[f].step = "none"
    BY <1>2, <1>6, <2>1 DEF Others
  <2> QED
    BY <1>2, <1>4, <1>6, <2>1 DEF Alone, Undone, Adding
<1> QED
  BY <1>8, <1>9, <1>10, <1>11 DEF Renewing

LEMMA RemoveJobKeeps ==
  ASSUME Renewing, NEW e \in Editors, RemoveJob(e)
  PROVE  Renewing'
<1>1. PICK q \in Requests : q = editor[e]
  BY DEF Renewing, ReloadTypeOK
<1>2. /\ q.step = "remove" /\ edits' = edits /\ saved' = saved /\ timezone' = timezone
      /\ crossed' = crossed
  BY <1>1 DEF RemoveJob
<1>3. PICK s \in q.listed :
        /\ jobs' = [jobs EXCEPT ![s] = NoJobYet]
        /\ IF jobs[s] = NoJobYet
           THEN editor' = [editor EXCEPT ![e] = Answered] /\ aborted' = TRUE
           ELSE editor' = [editor EXCEPT ![e].listed = @ \ {s}] /\ aborted' = aborted
  BY <1>1 DEF RemoveJob
<1>4. s \in Saved /\ jobs \in [Saved -> Int]
  BY DEF Renewing, ReloadTypeOK, Requests
<1>5. /\ jobs' \in [Saved -> Int]
      /\ \A x \in Saved : jobs'[x] = IF x = s THEN NoJobYet ELSE jobs[x]
  BY <1>3, <1>4 DEF NoJobYet
<1>6. q.next = {}
  BY <1>1, <1>2 DEF Renewing, OneNext
<1>7. CASE jobs[s] = NoJobYet
  <2>1. PICK r : r = Answered
    OBVIOUS
  <2>2. r \in Requests /\ r.step = "none" /\ r.next = {}
    BY <2>1 DEF Answered, Requests, NoJobYet
  <2>3. editor' = [editor EXCEPT ![e] = r] /\ aborted'
    BY <1>3, <1>7, <2>1
  <2>4. /\ editor' \in [Editors -> Requests]
        /\ \A f \in Editors : editor'[f] = IF f = e THEN r ELSE editor[f]
    BY <2>2, <2>3, EditorFacts
  <2>5. ReloadTypeOK'
    BY <1>2, <1>3, <1>5, <1>7, <2>4 DEF Renewing, ReloadTypeOK
  <2>6. OneNext'
    BY <2>2, <2>4 DEF Renewing, OneNext
  <2>7. crossed
    BY <1>1, <1>2, <1>4, <1>7 DEF Renewing, Alone, Undone
  <2> QED
    BY <1>2, <2>3, <2>5, <2>6, <2>7 DEF Renewing, Looked, Alone
<1>8. CASE jobs[s] # NoJobYet
  <2>1. PICK r : r = [q EXCEPT !.listed = q.listed \ {s}]
    OBVIOUS
  <2>2. r \in Requests /\ r.step = "remove" /\ r.next = {} /\ r.listed = q.listed \ {s}
    BY <1>2, <1>6, <2>1 DEF Requests
  <2>3. editor' = [editor EXCEPT ![e] = r] /\ aborted' = aborted
    BY <1>1, <1>3, <1>8, <2>1
  <2>4. /\ editor' \in [Editors -> Requests]
        /\ \A f \in Editors : editor'[f] = IF f = e THEN r ELSE editor[f]
    BY <2>2, <2>3, EditorFacts
  <2>5. ReloadTypeOK'
    BY <1>2, <1>5, <2>3, <2>4 DEF Renewing, ReloadTypeOK
  <2>6. OneNext'
    BY <2>2, <2>4 DEF Renewing, OneNext
  <2>7. Looked'
    BY <2>2, <2>4 DEF Looked, WillAdd
  <2>8. Alone'
    <3> SUFFICES ASSUME ~crossed
                 PROVE  /\ \A f \in Editors : f # e => editor[f].step = "none"
                        /\ \A x \in Saved : jobs'[x] # NoJobYet <=> x \in r.listed
      BY <1>2, <2>2, <2>4 DEF Alone, Undone, Adding
    <3>1. \A f \in Editors : f # e => editor[f].step = "none"
      BY <1>1, <1>2 DEF Renewing, Alone
    <3>2. \A x \in Saved : jobs[x] # NoJobYet <=> x \in q.listed
      BY <1>1, <1>2 DEF Renewing, Alone, Undone
    <3> QED
      BY <1>5, <2>2, <3>1, <3>2
  <2> QED
    BY <2>5, <2>6, <2>7, <2>8 DEF Renewing
<1> QED
  BY <1>7, <1>8

LEMMA ReadSchedulesKeeps ==
  ASSUME Renewing, NEW e \in Editors, ReadSchedules(e)
  PROVE  Renewing'
<1>1. PICK q \in Requests : q = editor[e]
  BY DEF Renewing, ReloadTypeOK
<1>2. /\ q.step = "remove" /\ q.listed = {} /\ jobs' = jobs /\ edits' = edits /\ saved' = saved
      /\ timezone' = timezone /\ crossed' = crossed /\ aborted' = FALSE
      /\ editor' = [editor EXCEPT ![e].step = "add", ![e].adding = {s \in Saved : saved[s] = "enabled"}]
  BY <1>1 DEF ReadSchedules
<1>3. PICK r : r = [q EXCEPT !.step = "add", !.adding = {s \in Saved : saved[s] = "enabled"}]
  OBVIOUS
<1>4. q.next = {}
  BY <1>1, <1>2 DEF Renewing, OneNext
<1>5. /\ r \in Requests /\ r.step = "add" /\ r.next = {}
      /\ \A s \in Saved : s \in r.adding <=> saved[s] = "enabled"
  BY <1>3, <1>4 DEF Requests
<1>6. editor' = [editor EXCEPT ![e] = r]
  BY <1>1, <1>2, <1>3
<1>7. /\ editor' \in [Editors -> Requests]
      /\ \A f \in Editors : editor'[f] = IF f = e THEN r ELSE editor[f]
  BY <1>5, <1>6, EditorFacts
<1>8. ReloadTypeOK'
  BY <1>2, <1>7 DEF Renewing, ReloadTypeOK
<1>9. OneNext'
  BY <1>5, <1>7 DEF Renewing, OneNext
<1>10. Looked'
  BY <1>2, <1>5, <1>7 DEF Looked, WillAdd
<1>11. Alone'
  <2> SUFFICES ASSUME ~crossed
               PROVE  /\ \A f \in Editors : f # e => editor[f].step = "none"
                      /\ \A s \in Saved : jobs[s] = NoJobYet
    BY <1>2, <1>5, <1>7 DEF Alone, Undone, Adding
  <2>1. \A f \in Editors : f # e => editor[f].step = "none"
    BY <1>1, <1>2 DEF Renewing, Alone
  <2>2. \A s \in Saved : jobs[s] # NoJobYet <=> s \in q.listed
    BY <1>1, <1>2 DEF Renewing, Alone, Undone
  <2> QED
    BY <1>2, <2>1, <2>2
<1> QED
  BY <1>8, <1>9, <1>10, <1>11 DEF Renewing

LEMMA MakeTriggerKeeps ==
  ASSUME Renewing, NEW e \in Editors, MakeTrigger(e)
  PROVE  Renewing'
<1>1. PICK q \in Requests : q = editor[e]
  BY DEF Renewing, ReloadTypeOK
<1>2. /\ q.step = "add" /\ q.next = {} /\ jobs' = jobs /\ edits' = edits /\ saved' = saved
      /\ timezone' = timezone /\ crossed' = crossed /\ aborted' = aborted
  BY <1>1 DEF MakeTrigger
<1>3. PICK s \in q.adding :
        editor' = [editor EXCEPT ![e].adding = @ \ {s}, ![e].next = {s}, ![e].zone = timezone]
  BY <1>1 DEF MakeTrigger
<1>4. s \in Saved /\ timezone \in Nat
  BY DEF Renewing, ReloadTypeOK, Requests
<1>5. PICK r : r = [q EXCEPT !.adding = q.adding \ {s}, !.next = {s}, !.zone = timezone]
  OBVIOUS
<1>13. /\ q.adding \ {s} \in SUBSET Saved /\ {s} \in SUBSET Saved /\ timezone \in Int
  BY <1>4 DEF Requests
<1>14. r = [op |-> q.op, step |-> q.step, listed |-> q.listed, adding |-> q.adding \ {s}, next |-> {s},
            zone |-> timezone]
  BY <1>5 DEF Requests
<1>15. r \in Requests /\ r.step = "add" /\ r.next = {s} /\ r.zone = timezone /\ r.adding = q.adding \ {s}
  BY <1>2, <1>13, <1>14 DEF Requests
<1>6. /\ r \in Requests /\ r.step = "add" /\ r.next = {s} /\ r.zone = timezone
      /\ \A x \in Saved : x \in r.adding \union r.next <=> x \in q.adding \union q.next
  BY <1>2, <1>15
<1>7. editor' = [editor EXCEPT ![e] = r]
  BY <1>1, <1>3, <1>5
<1>8. /\ editor' \in [Editors -> Requests]
      /\ \A f \in Editors : editor'[f] = IF f = e THEN r ELSE editor[f]
  BY <1>6, <1>7, EditorFacts
<1>9. ReloadTypeOK'
  BY <1>2, <1>8 DEF Renewing, ReloadTypeOK
<1>10. OneNext'
  BY <1>4, <1>6, <1>8 DEF Renewing, OneNext
<1>11. Looked'
  <2> SUFFICES ASSUME ~aborted, NEW x \in Saved, saved[x] = "enabled", jobs[x] = NoJobYet
               PROVE  \E f \in Editors : WillAdd(editor'[f], x)
    BY <1>2 DEF Looked
  <2>1. PICK f \in Editors : WillAdd(editor[f], x)
    BY DEF Renewing, Looked
  <2>2. WillAdd(editor'[f], x)
    BY <1>1, <1>2, <1>6, <1>8, <2>1 DEF WillAdd
  <2> QED
    BY <2>2
<1>12. Alone'
  <2> SUFFICES ASSUME ~crossed
               PROVE  /\ \A f \in Editors : f # e => editor[f].step = "none"
                      /\ \A x \in Saved : IF x \in r.adding \union r.next THEN saved[x] = "enabled"
                           ELSE jobs[x] = IF saved[x] = "enabled" THEN timezone ELSE NoJobYet
    BY <1>2, <1>6, <1>8 DEF Alone, Undone, Adding
  <2>1. \A f \in Editors : f # e => editor[f].step = "none"
    BY <1>1, <1>2 DEF Renewing, Alone
  <2>2. \A x \in Saved : IF x \in q.adding \union q.next THEN saved[x] = "enabled"
                           ELSE jobs[x] = IF saved[x] = "enabled" THEN timezone ELSE NoJobYet
    BY <1>1, <1>2 DEF Renewing, Alone, Adding
  <2> QED
    BY <1>6, <2>1, <2>2
<1> QED
  BY <1>9, <1>10, <1>11, <1>12 DEF Renewing

LEMMA AddJobKeeps ==
  ASSUME Renewing, NEW e \in Editors, AddJob(e)
  PROVE  Renewing'
<1>1. PICK q \in Requests : q = editor[e]
  BY DEF Renewing, ReloadTypeOK
<1>2. /\ q.step = "add" /\ edits' = edits /\ saved' = saved
      /\ timezone' = timezone /\ crossed' = crossed /\ aborted' = aborted
      /\ editor' = [editor EXCEPT ![e].next = {}, ![e].zone = NoJobYet]
  BY <1>1 DEF AddJob
<1>3. PICK s \in q.next : jobs' = [jobs EXCEPT ![s] = q.zone]
  BY <1>1 DEF AddJob
<1>4. s \in Saved /\ jobs \in [Saved -> Int] /\ q.zone \in Nat /\ q.next = {s}
  BY <1>1 DEF Renewing, ReloadTypeOK, OneNext, Requests
<1>5. /\ jobs' \in [Saved -> Int] /\ q.zone # NoJobYet
      /\ \A x \in Saved : jobs'[x] = IF x = s THEN q.zone ELSE jobs[x]
  BY <1>3, <1>4 DEF NoJobYet
<1>6. PICK r : r = [q EXCEPT !.next = {}, !.zone = NoJobYet]
  OBVIOUS
<1>14. r = [op |-> q.op, step |-> q.step, listed |-> q.listed, adding |-> q.adding, next |-> {},
            zone |-> NoJobYet]
  BY <1>6 DEF Requests
<1>15. NoJobYet \in Int /\ {} \in SUBSET Saved
  BY DEF NoJobYet
<1>7. /\ r \in Requests /\ r.step = "add" /\ r.next = {} /\ r.adding = q.adding
  BY <1>2, <1>14, <1>15 DEF Requests
<1>8. editor' = [editor EXCEPT ![e] = r]
  BY <1>1, <1>2, <1>6
<1>9. /\ editor' \in [Editors -> Requests]
      /\ \A f \in Editors : editor'[f] = IF f = e THEN r ELSE editor[f]
  BY <1>7, <1>8, EditorFacts
<1>10. ReloadTypeOK'
  BY <1>2, <1>5, <1>9 DEF Renewing, ReloadTypeOK
<1>11. OneNext'
  BY <1>7, <1>9 DEF Renewing, OneNext
<1>12. Looked'
  <2> SUFFICES ASSUME ~aborted, NEW x \in Saved, saved[x] = "enabled", jobs'[x] = NoJobYet
               PROVE  \E f \in Editors : WillAdd(editor'[f], x)
    BY <1>2 DEF Looked
  <2>1. x # s /\ jobs[x] = NoJobYet
    BY <1>5
  <2>2. PICK f \in Editors : WillAdd(editor[f], x)
    BY <2>1 DEF Renewing, Looked
  <2>3. WillAdd(editor'[f], x)
    BY <1>1, <1>2, <1>4, <1>7, <1>9, <2>1, <2>2 DEF WillAdd
  <2> QED
    BY <2>3
<1>13. Alone'
  <2> SUFFICES ASSUME ~crossed
               PROVE  /\ \A f \in Editors : f # e => editor[f].step = "none"
                      /\ \A x \in Saved : IF x \in r.adding THEN saved[x] = "enabled"
                           ELSE jobs'[x] = IF saved[x] = "enabled" THEN timezone ELSE NoJobYet
    BY <1>2, <1>7, <1>9 DEF Alone, Undone, Adding
  <2>1. \A f \in Editors : f # e => editor[f].step = "none"
    BY <1>1, <1>2 DEF Renewing, Alone
  <2>2. /\ q.zone = timezone
        /\ \A x \in Saved : IF x \in q.adding \union q.next THEN saved[x] = "enabled"
                           ELSE jobs[x] = IF saved[x] = "enabled" THEN timezone ELSE NoJobYet
    BY <1>1, <1>2, <1>4 DEF Renewing, Alone, Adding
  <2> QED
    BY <1>4, <1>5, <1>7, <2>1, <2>2
<1> QED
  BY <1>10, <1>11, <1>12, <1>13 DEF Renewing

LEMMA ReloadEndsKeeps ==
  ASSUME Renewing, NEW e \in Editors, ReloadEnds(e)
  PROVE  Renewing'
<1>1. PICK q \in Requests : q = editor[e]
  BY DEF Renewing, ReloadTypeOK
<1>2. /\ q.step = "add" /\ q.adding = {} /\ q.next = {} /\ jobs' = jobs /\ edits' = edits
      /\ saved' = saved /\ timezone' = timezone /\ crossed' = crossed /\ aborted' = aborted
  BY <1>1 DEF ReloadEnds
<1>3. PICK r : r = Answered
  OBVIOUS
<1>4. r \in Requests /\ r.step = "none" /\ r.next = {}
  BY <1>3 DEF Answered, Requests, NoJobYet
<1>5. editor' = [editor EXCEPT ![e] = r]
  BY <1>3 DEF ReloadEnds
<1>6. /\ editor' \in [Editors -> Requests]
      /\ \A f \in Editors : editor'[f] = IF f = e THEN r ELSE editor[f]
  BY <1>4, <1>5, EditorFacts
<1>7. ReloadTypeOK'
  BY <1>2, <1>6 DEF Renewing, ReloadTypeOK
<1>8. OneNext'
  BY <1>4, <1>6 DEF Renewing, OneNext
<1>9. Looked'
  BY <1>1, <1>2, <1>6 DEF Renewing, Looked, WillAdd
<1>10. Alone'
  <2> SUFFICES ASSUME ~crossed
               PROVE  /\ \A f \in Editors : f # e => editor[f].step = "none"
                      /\ \A x \in Saved : jobs[x] = IF saved[x] = "enabled" THEN timezone ELSE NoJobYet
    BY <1>2, <1>4, <1>6 DEF Alone, Undone, Adding
  <2>1. \A f \in Editors : f # e => editor[f].step = "none"
    BY <1>1, <1>2 DEF Renewing, Alone
  <2> QED
    BY <1>1, <1>2, <2>1 DEF Renewing, Alone, Adding
<1> QED
  BY <1>7, <1>8, <1>9, <1>10 DEF Renewing

LEMMA ReloadStepKeeps ==
  ASSUME Renewing, [ReloadNext]_ReloadVars
  PROVE  Renewing'
<1>1. CASE UNCHANGED ReloadVars
  BY <1>1 DEF ReloadVars, Renewing, ReloadTypeOK, OneNext, Looked, WillAdd, Alone, Undone, Adding
<1>2. ASSUME NEW e \in Editors, EditSchedule(e) PROVE Renewing'
  <2>1. PICK s \in Saved, to \in {"absent", "enabled", "disabled"} : saved' = [saved EXCEPT ![s] = to]
    BY <1>2 DEF EditSchedule
  <2>2. saved' \in [Saved -> {"absent", "enabled", "disabled"}]
    BY <2>1 DEF Renewing, ReloadTypeOK
  <2>3. Edits(e, "schedule") /\ timezone' \in Nat
    BY <1>2 DEF EditSchedule, Renewing, ReloadTypeOK
  <2> QED
    BY <2>2, <2>3, EditsKeeps
<1>3. ASSUME NEW e \in Editors, SetTimezone(e) PROVE Renewing'
  <2>1. Edits(e, "settings") /\ timezone' \in Nat
    BY <1>3 DEF SetTimezone, Renewing, ReloadTypeOK
  <2>2. saved' \in [Saved -> {"absent", "enabled", "disabled"}]
    BY <1>3 DEF SetTimezone, Renewing, ReloadTypeOK
  <2> QED
    BY <2>1, <2>2, EditsKeeps
<1> QED
  BY <1>1, <1>2, <1>3, ListJobsKeeps, RemoveJobKeeps, ReadSchedulesKeeps, MakeTriggerKeeps,
     AddJobKeeps, ReloadEndsKeeps DEF ReloadNext

\* JobsFollowSchedules holds for any number of schedules and of requests that
\* renew the jobs beside one another (reload_report_jobs): an enabled schedule is
\* never left without its job by an overlap alone, and a renewal that nobody
\* disturbed leaves exactly the jobs of the table, in the current time zone.
THEOREM JobsAreRenewed == ReloadSpec => []JobsFollowSchedules
<1>1. Renewing => JobsFollowSchedules
  BY DEF Renewing, Looked, WillAdd, Alone, JobsFollowSchedules
<1>2. Renewing /\ [ReloadNext]_ReloadVars => Renewing'
  BY ReloadStepKeeps
<1> QED
  BY <1>1, <1>2, ReloadStarts, PTL DEF ReloadSpec

-----------------------------------------------------------------------------
(* The posture of own domains                                                *)

PostureSpec == PostureInit /\ [][PostureNext]_PostureVars

Results == {CheckDomain(p, o) : p \in Postings, o \in Postings}

\* Local variables of a report that checks domains, a cached row, what was reported
Lookups ==
  [phase : {"idle", "ask", "get", "commit"}, d : OwnDomains \union {"none"}, seen : BOOLEAN,
   found : Results \union {Nothing}, asked : Nat]
Cached == [res : Results, checked : Nat, asked : Nat]
Reported == [d : OwnDomains, res : Results \union {Failed}, asked : Nat, at : Nat]

PostureTypeOK ==
  /\ hour \in Nat /\ zone \in [Names -> Postings] /\ dnsUp \in BOOLEAN
  /\ cache \in [OwnDomains -> Cached \union {Nothing}]
  /\ reader \in [Readers -> Lookups]
  /\ reported \in [Readers -> Reported \union {Nothing}]

\* A lookup that is under way has taken less than two units of time
LookupOK(me, now) ==
  /\ me.phase # "idle" => me.d \in OwnDomains
  /\ me.phase \in {"get", "commit"} => me.found \in Results /\ me.asked >= now - 1

CachedOK(row) == row # Nothing => row \in Cached /\ row.asked >= row.checked - 1

ReportedOK(row) == row # Nothing => row \in Reported /\ row.asked >= row.at - MaxAge - 1

Checking ==
  /\ PostureTypeOK
  /\ \A r \in Readers : LookupOK(reader[r], hour) /\ ReportedOK(reported[r])
  /\ \A d \in OwnDomains : CachedOK(cache[d])

\* check_domain never answers with what stands for a failed lookup
LEMMA AnswersAreNoFailures == Failed \notin Results
<1>1. ASSUME NEW p, NEW o PROVE CheckDomain(p, o) # Failed
  BY DEF CheckDomain, Failed
<1> QED
  BY <1>1 DEF Results

LEMMA IdleFacts == Idle \in Lookups /\ Idle.phase = "idle"
  BY DEF Idle, Lookups

LEMMA ReadKeeps ==
  ASSUME Checking, NEW r \in Readers, NEW d \in OwnDomains, NEW res \in Results \union {Failed},
         NEW asked \in Nat, asked >= hour - MaxAge - 1, Read(r, d, res, asked), hour' = hour
  PROVE  /\ reader' \in [Readers -> Lookups] /\ reported' \in [Readers -> Reported \union {Nothing}]
         /\ \A q \in Readers : LookupOK(reader'[q], hour') /\ ReportedOK(reported'[q])
<1>1. PICK idle \in Lookups : idle = Idle /\ idle.phase = "idle"
  BY IdleFacts
<1>2. PICK row : row = [d |-> d, res |-> res, asked |-> asked, at |-> hour]
  OBVIOUS
<1>3. row \in Reported /\ row.asked >= row.at - MaxAge - 1
  BY <1>2 DEF Checking, PostureTypeOK, Reported
<1>4. /\ reported' = [reported EXCEPT ![r] = row]
      /\ reader' = [reader EXCEPT ![r] = idle]
  BY <1>1, <1>2 DEF Read
<1>5. reader' \in [Readers -> Lookups] /\ \A q \in Readers : reader'[q] = IF q = r THEN idle ELSE reader[q]
  BY <1>4 DEF Checking, PostureTypeOK
<1>6. /\ reported' \in [Readers -> Reported \union {Nothing}]
      /\ \A q \in Readers : reported'[q] = IF q = r THEN row ELSE reported[q]
  BY <1>3, <1>4 DEF Checking, PostureTypeOK
<1>7. LookupOK(idle, hour)
  BY <1>1 DEF LookupOK
<1>8. ReportedOK(row)
  BY <1>3 DEF ReportedOK
<1> QED
  BY <1>5, <1>6, <1>7, <1>8 DEF Checking

LEMMA PostureStarts == PostureInit => Checking
<1> SUFFICES ASSUME PostureInit PROVE Checking
  OBVIOUS
<1>1. PICK idle \in Lookups : idle = Idle /\ idle.phase = "idle"
  BY IdleFacts
<1>2. /\ hour = 0 /\ dnsUp = TRUE /\ cache = [d \in OwnDomains |-> Nothing]
      /\ reader = [r \in Readers |-> idle] /\ reported = [r \in Readers |-> Nothing]
  BY <1>1 DEF PostureInit
<1>3. zone \in [Names -> Postings]
  BY DEF PostureInit
<1>4. PostureTypeOK
  BY <1>2, <1>3 DEF PostureTypeOK
<1>5. \A r \in Readers : LookupOK(reader[r], hour) /\ ReportedOK(reported[r])
  BY <1>1, <1>2 DEF LookupOK, ReportedOK
<1>6. \A d \in OwnDomains : CachedOK(cache[d])
  BY <1>2 DEF CachedOK
<1> QED
  BY <1>4, <1>5, <1>6 DEF Checking

LEMMA ReadCacheKeeps ==
  ASSUME Checking, NEW r \in Readers, NEW d \in OwnDomains, ReadCache(r, d)
  PROVE  Checking'
<1>1. hour' = hour /\ zone' = zone /\ dnsUp' = dnsUp /\ cache' = cache
  BY DEF ReadCache
<1>2. hour \in Nat /\ MaxAge \in Nat
  BY PostureConstants DEF Checking, PostureTypeOK, PostureConstants
<1>3. /\ reader' \in [Readers -> Lookups] /\ reported' \in [Readers -> Reported \union {Nothing}]
      /\ \A q \in Readers : LookupOK(reader'[q], hour') /\ ReportedOK(reported'[q])
  <2>1. CASE Fresh(d)
    <3>1. PICK row : row = cache[d]
      OBVIOUS
    <3>2. row \in Cached /\ row.asked >= row.checked - 1 /\ row.checked >= hour - MaxAge
      BY <2>1, <3>1 DEF Fresh, Checking, CachedOK
    <3>3. PICK res \in Results, asked \in Nat, at \in Nat :
            res = row.res /\ asked = row.asked /\ at = row.checked
      BY <3>2 DEF Cached
    <3>4. asked >= hour - MaxAge - 1
      BY <1>2, <3>2, <3>3
    <3>5. Read(r, d, res, asked)
      BY <2>1, <3>1, <3>3 DEF ReadCache
    <3> QED
      BY <1>1, <3>4, <3>5, ReadKeeps
  <2>2. CASE ~Fresh(d)
    <3>1. PICK me : me = [Idle EXCEPT !.phase = "ask", !.d = d]
      OBVIOUS
    <3>2. me \in Lookups /\ me.phase = "ask" /\ me.d = d
      BY <3>1, IdleFacts DEF Lookups
    <3>3. reader' = [reader EXCEPT ![r] = me] /\ reported' = reported
      BY <2>2, <3>1 DEF ReadCache
    <3>4. reader' \in [Readers -> Lookups] /\ \A q \in Readers : reader'[q] = IF q = r THEN me ELSE reader[q]
      BY <3>2, <3>3 DEF Checking, PostureTypeOK
    <3>5. LookupOK(me, hour)
      BY <3>2 DEF LookupOK
    <3> QED
      BY <1>1, <3>3, <3>4, <3>5 DEF Checking, PostureTypeOK
  <2> QED
    BY <2>1, <2>2
<1> QED
  BY <1>1, <1>3 DEF Checking, PostureTypeOK

LEMMA AskKeeps ==
  ASSUME Checking, NEW r \in Readers, Ask(r)
  PROVE  Checking'
<1>1. hour' = hour /\ zone' = zone /\ dnsUp' = dnsUp /\ cache' = cache
  BY DEF Ask
<1>2. hour \in Nat /\ MaxAge \in Nat
  BY PostureConstants DEF Checking, PostureTypeOK, PostureConstants
<1>3. PICK me \in Lookups : me = reader[r]
  BY DEF Checking, PostureTypeOK
<1>4. me.phase = "ask" /\ me.d \in OwnDomains
  BY <1>3 DEF Ask, Checking, LookupOK
<1>5. PICK d \in OwnDomains : d = me.d
  BY <1>4
<1>6. /\ reader' \in [Readers -> Lookups] /\ reported' \in [Readers -> Reported \union {Nothing}]
      /\ \A q \in Readers : LookupOK(reader'[q], hour') /\ ReportedOK(reported'[q])
  <2>1. CASE dnsUp
    <3>1. PICK answer : answer = CheckDomain(zone[d], zone[OrgOf[d]])
      OBVIOUS
    <3>2. answer \in Results
      BY <3>1, PostureConstants DEF Checking, PostureTypeOK, Results, PostureConstants
    <3>3. PICK now : now = [me EXCEPT !.phase = "get", !.asked = hour, !.found = answer]
      OBVIOUS
    <3>4. now \in Lookups /\ now.phase = "get" /\ now.d = d /\ now.asked = hour /\ now.found = answer
      BY <1>2, <1>5, <3>2, <3>3 DEF Lookups
    <3>5. reader' = [reader EXCEPT ![r] = now] /\ reported' = reported
      BY <1>3, <1>5, <2>1, <3>1, <3>3 DEF Ask
    <3>6. reader' \in [Readers -> Lookups] /\ \A q \in Readers : reader'[q] = IF q = r THEN now ELSE reader[q]
      BY <3>4, <3>5 DEF Checking, PostureTypeOK
    <3>7. LookupOK(now, hour)
      BY <1>2, <3>2, <3>4 DEF LookupOK
    <3> QED
      BY <1>1, <3>5, <3>6, <3>7 DEF Checking, PostureTypeOK
  <2>2. CASE ~dnsUp
    <3>1. PICK res : res = Failed
      OBVIOUS
    <3>2. Read(r, d, res, hour)
      BY <1>3, <1>5, <2>2, <3>1 DEF Ask
    <3>3. hour >= hour - MaxAge - 1
      BY <1>2
    <3> QED
      BY <1>1, <1>2, <3>1, <3>2, <3>3, ReadKeeps
  <2> QED
    BY <2>1, <2>2
<1> QED
  BY <1>1, <1>6 DEF Checking, PostureTypeOK

LEMMA GetRowKeeps ==
  ASSUME Checking, NEW r \in Readers, GetRow(r)
  PROVE  Checking'
<1>1. /\ hour' = hour /\ zone' = zone /\ dnsUp' = dnsUp /\ cache' = cache /\ reported' = reported
  BY DEF GetRow
<1>2. PICK me \in Lookups : me = reader[r]
  BY DEF Checking, PostureTypeOK
<1>3. PICK seen \in BOOLEAN : seen = (cache[me.d] # Nothing)
  OBVIOUS
<1>4. PICK now : now = [me EXCEPT !.phase = "commit", !.seen = seen]
  OBVIOUS
<1>5. /\ now \in Lookups /\ now.phase = "commit" /\ now.d = me.d /\ now.asked = me.asked
      /\ now.found = me.found /\ me.phase = "get"
  BY <1>2, <1>4 DEF Lookups, GetRow
<1>6. reader' = [reader EXCEPT ![r] = now]
  BY <1>2, <1>3, <1>4 DEF GetRow
<1>7. reader' \in [Readers -> Lookups] /\ \A q \in Readers : reader'[q] = IF q = r THEN now ELSE reader[q]
  BY <1>5, <1>6 DEF Checking, PostureTypeOK
<1>8. LookupOK(now, hour)
  BY <1>2, <1>5 DEF Checking, LookupOK
<1> QED
  BY <1>1, <1>7, <1>8 DEF Checking, PostureTypeOK

LEMMA CommitRowKeeps ==
  ASSUME Checking, NEW r \in Readers, CommitRow(r)
  PROVE  Checking'
<1>1. hour' = hour /\ zone' = zone /\ dnsUp' = dnsUp
  BY DEF CommitRow
<1>2. hour \in Nat /\ MaxAge \in Nat
  BY PostureConstants DEF Checking, PostureTypeOK, PostureConstants
<1>3. PICK me \in Lookups : me = reader[r]
  BY DEF Checking, PostureTypeOK
<1>4. me.phase = "commit" /\ me.d \in OwnDomains /\ me.found \in Results /\ me.asked >= hour - 1
  BY <1>3 DEF CommitRow, Checking, LookupOK
<1>5. PICK d \in OwnDomains, res \in Results, asked \in Nat : d = me.d /\ res = me.found /\ asked = me.asked
  BY <1>4 DEF Lookups
<1>6. Read(r, d, res, asked)
  BY <1>3, <1>5 DEF CommitRow
<1>7. asked >= hour - 1 /\ asked >= hour - MaxAge - 1
  BY <1>2, <1>4, <1>5
<1>8. /\ reader' \in [Readers -> Lookups] /\ reported' \in [Readers -> Reported \union {Nothing}]
      /\ \A q \in Readers : LookupOK(reader'[q], hour') /\ ReportedOK(reported'[q])
  BY <1>1, <1>6, <1>7, ReadKeeps
<1>9. PICK row : row = [res |-> res, checked |-> hour, asked |-> asked]
  OBVIOUS
<1>10. row \in Cached /\ CachedOK(row)
  BY <1>2, <1>7, <1>9 DEF Cached, CachedOK
<1>11. cache' = cache \/ cache' = [cache EXCEPT ![d] = row]
  BY <1>3, <1>5, <1>9 DEF CommitRow, Stored
<1>12. /\ cache' \in [OwnDomains -> Cached \union {Nothing}]
       /\ \A x \in OwnDomains : cache'[x] = cache[x] \/ cache'[x] = row
  BY <1>10, <1>11 DEF Checking, PostureTypeOK
<1>13. \A x \in OwnDomains : CachedOK(cache'[x])
  BY <1>10, <1>12 DEF Checking
<1> QED
  BY <1>1, <1>8, <1>12, <1>13 DEF Checking, PostureTypeOK

LEMMA HourPassesKeeps ==
  ASSUME Checking, HourPasses
  PROVE  Checking'
<1>1. /\ hour' = hour + 1 /\ zone' = zone /\ dnsUp' = dnsUp /\ cache' = cache
      /\ reader' = reader /\ reported' = reported
      /\ \A r \in Readers : reader[r].phase \in {"get", "commit"} => reader[r].asked = hour
  BY DEF HourPasses
<1>2. hour \in Nat /\ hour' \in Nat /\ hour >= hour' - 1
  BY <1>1 DEF Checking, PostureTypeOK
<1>3. \A r \in Readers : LookupOK(reader[r], hour')
  BY <1>1, <1>2 DEF Checking, LookupOK
<1> QED
  BY <1>1, <1>2, <1>3 DEF Checking, PostureTypeOK

LEMMA PostureStepKeeps ==
  ASSUME Checking, [PostureNext]_PostureVars
  PROVE  Checking'
<1>1. CASE UNCHANGED PostureVars
  BY <1>1 DEF PostureVars, Checking, PostureTypeOK
<1>2. ASSUME NEW d \in Names, NEW p \in Postings, Publish(d, p) PROVE Checking'
  BY <1>2 DEF Publish, Checking, PostureTypeOK
<1>3. CASE DnsToggle
  BY <1>3 DEF DnsToggle, Checking, PostureTypeOK
<1> QED
  BY <1>1, <1>2, <1>3, ReadCacheKeeps, AskKeeps, GetRowKeeps, CommitRowKeeps, HourPassesKeeps
     DEF PostureNext

\* PostureIsRecent holds for any number of reports and domains, whatever is
\* published and however long a result is cached (cached_check): a report never
\* shows an answer older than the cache's age and a lookup, and never a cached
\* failure.
THEOREM PosturesAreRecent == PostureSpec => []PostureIsRecent
<1>1. Checking => PostureIsRecent
  <2> SUFFICES ASSUME Checking PROVE PostureIsRecent
    OBVIOUS
  <2>1. ASSUME NEW r \in Readers, reported[r] # Nothing
        PROVE  reported[r].asked >= reported[r].at - MaxAge - 1
    BY <2>1 DEF Checking, ReportedOK
  <2>2. ASSUME NEW d \in OwnDomains, cache[d] # Nothing
        PROVE  cache[d].res # Failed /\ cache[d].asked >= cache[d].checked - 1
    <3>1. cache[d] \in Cached /\ cache[d].asked >= cache[d].checked - 1
      BY <2>2 DEF Checking, CachedOK
    <3>2. cache[d].res \in Results
      BY <3>1 DEF Cached
    <3> QED
      BY <3>1, <3>2, AnswersAreNoFailures
  <2> QED
    BY <2>1, <2>2 DEF PostureIsRecent
<1>2. Checking /\ [PostureNext]_PostureVars => Checking'
  BY PostureStepKeeps
<1> QED
  BY <1>1, <1>2, PostureStarts, PTL DEF PostureSpec

-----------------------------------------------------------------------------
(* The archive of report files                                               *)

ArchiveSpec == ArchiveInit /\ [][ArchiveNext]_ArchiveVars

SomeTenant == CHOOSE t \in Tenants : TRUE
Owners == Tenants \union {SomeTenant}

Rows == [status : {"absent", "running", "done"}, tenant : Owners, age : Nat, file : {0} \union Calls]
RunCalls == [pc : {"none", "started", "folder", "written", "ended"}, id : Nat, tenant : Owners]
Purges == [pc : {"idle", "remove", "read", "sweep"}, doomed : SUBSET Calls, known : SUBSET Ids]
Deletions == [pc : {"idle", "commit", "remove"}, doomed : SUBSET Calls]

ArchiveTypeOK ==
  /\ rows \in [Ids -> Rows] /\ calls \in [Calls -> RunCalls] /\ files \in [Calls -> Int]
  /\ purge \in Purges /\ delete \in [Tenants -> Deletions] /\ tenants \subseteq Tenants

Used(c) == calls[c].pc # "none"

\* The n-th call to start has an id that is no larger than n, and there is no row
\* without a call
Numbered ==
  /\ \A c \in Calls : Used(c) => calls[c].id \in Ids /\ calls[c].id <= c
  /\ \A c \in Calls, d \in Calls : d < c /\ Used(c) => Used(d)
  /\ \A i \in Ids : Exists(i) => \E c \in Calls : Used(c) /\ calls[c].id = i

\* A file is not a day old before its report has ended
Young == \A c \in Calls : /\ calls[c].pc \in {"none", "started", "folder"} => files[c] = -1
                          /\ calls[c].pc = "written" => files[c] <= 0

\* A recorded file is that of a report of this id that has ended
RowsKept ==
  \A i \in Ids : rows[i].file # 0 =>
    LET c == rows[i].file
    IN Exists(i) /\ calls[c].id = i /\ calls[c].pc = "ended" /\ files[c] >= 0

\* Files that are about to be removed are in no row, nor will they be
Discarded(doomed) ==
  \A c \in doomed : calls[c].pc = "ended" /\ \A i \in Ids : rows[i].file # c

\* ... or those of the rows that are about to be deleted
Condemned(doomed, t) ==
  \A c \in doomed : calls[c].pc = "ended" /\ \A i \in Ids : rows[i].file = c => rows[i].tenant = t

Removing ==
  /\ purge.pc = "remove" => Discarded(purge.doomed)
  /\ \A t \in Tenants : /\ delete[t].pc = "commit" => Condemned(delete[t].doomed, t)
                        /\ delete[t].pc = "remove" => Discarded(delete[t].doomed)

\* A file recorded since the sweep read the ids is not old enough for it
Sweeping ==
  purge.pc = "sweep" =>
    \A i \in Ids : rows[i].file # 0 => i \in purge.known \/ files[rows[i].file] < MinAge

Archived == ArchiveTypeOK /\ Numbered /\ Young /\ RowsKept /\ Removing /\ Sweeping

LEMMA ArchiveFacts ==
  /\ MinAge \in Nat /\ MinAge >= 1 /\ Retention \in Nat /\ MaxCalls \in Nat
  /\ \A c : c \in Calls <=> c \in Nat /\ 1 <= c /\ c <= MaxCalls
  /\ Ids = Calls
<1>1. {MinAge, Retention, MaxCalls} \subseteq Nat \ {0}
  BY ArchiveConstants DEF ArchiveConstants
<1>2. MinAge \in Nat /\ MinAge >= 1 /\ Retention \in Nat /\ MaxCalls \in Nat
  BY <1>1
<1> QED
  BY <1>2 DEF Calls, Ids

LEMMA NothingFacts ==
  /\ NoRow \in Rows /\ NoRow.status = "absent" /\ NoRow.file = 0
  /\ NoCall \in RunCalls /\ NoCall.pc = "none"
  /\ NoPurge \in Purges /\ NoPurge.pc = "idle" /\ NoPurge.doomed = {}
  /\ NoDelete \in Deletions /\ NoDelete.pc = "idle"
<1>1. SomeTenant \in Owners
  BY DEF Owners
<1>2. NoRow = [status |-> "absent", tenant |-> SomeTenant, age |-> 0, file |-> 0]
  BY DEF NoRow, SomeTenant
<1>3. NoCall = [pc |-> "none", id |-> 0, tenant |-> SomeTenant]
  BY DEF NoCall, SomeTenant
<1>4. NoRow \in Rows /\ NoRow.status = "absent" /\ NoRow.file = 0
  BY <1>1, <1>2 DEF Rows
<1>5. NoCall \in RunCalls /\ NoCall.pc = "none"
  BY <1>1, <1>3 DEF RunCalls
<1> QED
  BY <1>4, <1>5 DEF NoPurge, Purges, NoDelete, Deletions

\* The highest of numbers that are all below a bound
LEMMA HighestBelow ==
  ASSUME NEW S, NEW n \in Nat, S \subseteq 0..n - 1, S # {}
  PROVE  Max(S) \in 0..n - 1
<1>1. PICK T : T = {n - s : s \in S}
  OBVIOUS
<1>8. \A s \in S : n - s \in Nat /\ n - s \in T
  BY <1>1
<1>9. PICK s \in S : TRUE
  OBVIOUS
<1>2. T \in SUBSET Nat /\ T # {}
  BY <1>1, <1>8, <1>9
<1>3. PICK x \in T : \A y \in T : <<y, x>> \notin OpToRel(<, Nat)
  BY <1>2, NatLessThanWellFounded, WFMin
<1>4. \A y \in T : x <= y
  <2> SUFFICES ASSUME NEW y \in T PROVE x <= y
    OBVIOUS
  <2>1. x \in Nat /\ y \in Nat /\ <<y, x>> \in Nat \X Nat
    BY <1>2
  <2>2. ~(y < x)
    BY <1>3, <2>1 DEF OpToRel
  <2> QED
    BY <2>1, <2>2
<1>5. PICK m \in S : x = n - m
  BY <1>1
<1>6. \A y \in S : m >= y
  <2> SUFFICES ASSUME NEW y \in S PROVE m >= y
    OBVIOUS
  <2>1. n - m <= n - y
    BY <1>1, <1>4, <1>5
  <2>2. m \in Int /\ y \in Int
    OBVIOUS
  <2> QED
    BY <2>1, <2>2
<1>7. Max(S) \in S
  BY <1>6 DEF Max
<1> QED
  BY <1>7

\* Both ways of giving ids out stay within the number of calls (SQLite, PostgreSQL)
LEMMA NextIdFacts ==
  ASSUME Archived, NEW c \in Calls, ~Used(c)
  PROVE  NextId \in Ids /\ NextId <= c
<1>1. c \in Nat /\ c >= 1
  BY ArchiveFacts
<1>2. \A d \in Calls : Used(d) => d < c
  <2> SUFFICES ASSUME NEW d \in Calls, Used(d), ~(d < c) PROVE FALSE
    OBVIOUS
  <2>1. d # c /\ d \in Nat
    BY ArchiveFacts
  <2>2. c < d
    BY <1>1, <2>1
  <2> QED
    BY <2>2 DEF Archived, Numbered
<1>3. \A d \in Calls : Used(d) => calls[d].id \in 0..c - 1
  <2> SUFFICES ASSUME NEW d \in Calls, Used(d) PROVE calls[d].id \in 0..c - 1
    OBVIOUS
  <2>1. PICK i \in Nat : i = calls[d].id
    BY DEF Archived, ArchiveTypeOK, RunCalls
  <2>2. i <= d /\ d \in Nat /\ d < c
    BY <1>2, <2>1, ArchiveFacts DEF Archived, Numbered
  <2> QED
    BY <1>1, <2>1, <2>2
<1>4. PICK S : S = {0} \union IF ReuseIds THEN {i \in Ids : Exists(i)} ELSE Given
  OBVIOUS
<1>5. S \subseteq 0..c - 1
  <2>1. 0 \in 0..c - 1
    BY <1>1
  <2>2. Given \subseteq 0..c - 1
    BY <1>3 DEF Given, Used
  <2>3. \A i \in Ids : Exists(i) => i \in 0..c - 1
    BY <1>3 DEF Archived, Numbered
  <2> QED
    BY <1>4, <2>1, <2>2, <2>3
<1>6. Max(S) \in 0..c - 1
  BY <1>1, <1>4, <1>5, HighestBelow
<1>7. NextId = 1 + Max(S)
  BY <1>4 DEF NextId
<1>8. PICK m \in Nat : m = Max(S) /\ m <= c - 1
  BY <1>1, <1>6
<1> QED
  BY <1>1, <1>7, <1>8, ArchiveFacts

\* What a step may do to the rest
EndedStays ==
  \A c \in Calls : calls[c].pc = "ended" => calls'[c].pc = "ended" /\ calls'[c].id = calls[c].id

RowStays(i) == rows'[i].file = rows[i].file /\ rows'[i].tenant = rows[i].tenant /\ rows'[i].status # "absent"

JustRecorded(i, c) ==
  /\ calls[c].pc # "ended" /\ calls'[c].pc = "ended" /\ calls'[c].id = i
  /\ files[c] >= 0 /\ files[c] < MinAge /\ rows'[i].status # "absent"

RowsFollow == \A i \in Ids : rows'[i].file # 0 => RowStays(i) \/ JustRecorded(i, rows'[i].file)

FilesFollow ==
  \A i \in Ids : rows'[i].file # 0 /\ files[rows'[i].file] >= 0 =>
    files'[rows'[i].file] >= 0 /\ (purge'.pc = "sweep" => files'[rows'[i].file] = files[rows'[i].file])

RemovalsFollow ==
  /\ purge' = purge \/ (purge'.pc = "remove" => Discarded(purge.doomed)')
  /\ \A t \in Tenants :
       \/ delete'[t] = delete[t]
       \/ /\ delete'[t].pc = "commit" => Condemned(delete[t].doomed, t)'
          /\ delete'[t].pc = "remove" => Discarded(delete[t].doomed)'

SweepFollows == purge' = purge \/ (purge'.pc = "sweep" => \A i \in Ids : rows'[i].status # "absent" => i \in purge'.known)

LEMMA RowFile ==
  ASSUME ArchiveTypeOK, NEW i \in Ids, rows[i].file # 0
  PROVE  rows[i].file \in Calls
  BY DEF ArchiveTypeOK, Rows

LEMMA DiscardedStays ==
  ASSUME Archived, ArchiveTypeOK', EndedStays, RowsFollow, NEW doomed \in SUBSET Calls
  PROVE  /\ Discarded(doomed) => Discarded(doomed)'
         /\ \A t \in Tenants : Condemned(doomed, t) => Condemned(doomed, t)'
<1>1. 0 \notin doomed
  BY ArchiveFacts
<1>2. ASSUME NEW i \in Ids, NEW c \in doomed, calls[c].pc = "ended", rows'[i].file = c PROVE RowStays(i)
  BY <1>1, <1>2 DEF RowsFollow, JustRecorded
<1>3. ASSUME Discarded(doomed) PROVE Discarded(doomed)'
  BY <1>2, <1>3 DEF Discarded, EndedStays, RowStays
<1>4. ASSUME NEW t \in Tenants, Condemned(doomed, t) PROVE Condemned(doomed, t)'
  BY <1>2, <1>4 DEF Condemned, EndedStays, RowStays
<1> QED
  BY <1>3, <1>4

LEMMA ArchiveKeeps ==
  ASSUME Archived, ArchiveTypeOK', Numbered', Young', EndedStays, RowsFollow, FilesFollow,
         RemovalsFollow, SweepFollows
  PROVE  Archived'
<1>1. ASSUME NEW i \in Ids, rows'[i].file # 0, RowStays(i)
      PROVE  /\ rows[i].file = rows'[i].file /\ rows'[i].file \in Calls
             /\ calls[rows'[i].file].id = i /\ calls[rows'[i].file].pc = "ended"
             /\ files[rows'[i].file] >= 0
  BY <1>1, RowFile DEF Archived, RowsKept, RowStays
<1>2. RowsKept'
  <2> SUFFICES ASSUME NEW i \in Ids, NEW c \in Calls, c = rows'[i].file, c # 0
               PROVE  rows'[i].status # "absent" /\ calls'[c].id = i /\ calls'[c].pc = "ended" /\ files'[c] >= 0
    BY DEF RowsKept, Exists, ArchiveTypeOK, Rows
  <2>1. CASE RowStays(i)
    BY <1>1, <2>1 DEF EndedStays, FilesFollow, RowStays
  <2>2. CASE JustRecorded(i, c)
    BY <2>2 DEF JustRecorded, FilesFollow
  <2> QED
    BY <2>1, <2>2 DEF RowsFollow
<1>3. Removing'
  <2>1. ASSUME purge'.pc = "remove" PROVE Discarded(purge.doomed)'
    <3>1. CASE purge' = purge
      <4>1. PICK doomed \in SUBSET Calls : doomed = purge.doomed /\ doomed = purge'.doomed
        BY <3>1 DEF Archived, ArchiveTypeOK, Purges
      <4>2. Discarded(doomed)
        BY <2>1, <3>1, <4>1 DEF Archived, Removing
      <4>3. Discarded(doomed)'
        BY <4>2, DiscardedStays
      <4> QED
        BY <4>1, <4>3 DEF Discarded
    <3> QED
      BY <2>1, <3>1 DEF RemovalsFollow
  <2>2. ASSUME NEW t \in Tenants, delete'[t] = delete[t]
        PROVE  /\ delete'[t].pc = "commit" => Condemned(delete[t].doomed, t)'
               /\ delete'[t].pc = "remove" => Discarded(delete[t].doomed)'
    <3>1. PICK doomed \in SUBSET Calls : doomed = delete[t].doomed /\ doomed = delete'[t].doomed
      BY <2>2 DEF Archived, ArchiveTypeOK, Deletions
    <3>2. /\ delete[t].pc = "commit" => Condemned(doomed, t)
          /\ delete[t].pc = "remove" => Discarded(doomed)
      BY <3>1 DEF Archived, Removing
    <3>3. /\ delete[t].pc = "commit" => Condemned(doomed, t)'
          /\ delete[t].pc = "remove" => Discarded(doomed)'
      BY <3>2, DiscardedStays
    <3> QED
      BY <2>2, <3>1, <3>3 DEF Condemned, Discarded
  <2>3. ASSUME NEW t \in Tenants
        PROVE  /\ delete'[t].pc = "commit" => Condemned(delete[t].doomed, t)'
               /\ delete'[t].pc = "remove" => Discarded(delete[t].doomed)'
    BY <2>2 DEF RemovalsFollow
  <2> QED
    BY <2>1, <2>3 DEF Removing
<1>4. Sweeping'
  <2> SUFFICES ASSUME purge'.pc = "sweep", NEW i \in Ids, NEW c \in Calls, c = rows'[i].file, c # 0
               PROVE  i \in purge'.known \/ files'[c] < MinAge
    BY DEF Sweeping, ArchiveTypeOK, Rows
  <2>1. CASE purge' = purge
    <3>1. CASE RowStays(i)
      <4>1. files'[c] = files[c] /\ c = rows[i].file
        BY <1>1, <3>1 DEF FilesFollow
      <4> QED
        BY <2>1, <4>1 DEF Archived, Sweeping
    <3>2. CASE JustRecorded(i, c)
      BY <3>2 DEF JustRecorded, FilesFollow
    <3> QED
      BY <3>1, <3>2 DEF RowsFollow
  <2>2. CASE \A j \in Ids : rows'[j].status # "absent" => j \in purge'.known
    BY <2>2 DEF RowsFollow, RowStays, JustRecorded
  <2> QED
    BY <2>1, <2>2 DEF SweepFollows
<1> QED
  BY <1>2, <1>3, <1>4 DEF Archived

\* The parts of a step that leave the rest alone
LEMMA NumberedStays ==
  ASSUME Archived, NEW f \in [Calls -> RunCalls], f = calls',
         \A c \in Calls : f[c].id = calls[c].id /\ (f[c].pc # "none" <=> calls[c].pc # "none"),
         \A i \in Ids : rows'[i].status # "absent" => rows[i].status # "absent"
  PROVE  Numbered'
  BY DEF Archived, Numbered, Used, Exists

LEMMA RemovalsStay ==
  /\ purge' = purge /\ delete' = delete => RemovalsFollow
  /\ purge' = purge => SweepFollows
  BY DEF RemovalsFollow, SweepFollows

LEMMA RowsStay ==
  ASSUME Archived, rows' = rows
  PROVE  RowsFollow
  BY DEF Archived, RowsKept, Exists, RowsFollow, RowStays

LEMMA RowsGo ==
  ASSUME Archived, NEW dead \in SUBSET Ids, rows' = Without(dead)
  PROVE  /\ rows' \in [Ids -> Rows] /\ RowsFollow
         /\ \A i \in Ids : rows'[i].status # "absent" => rows[i].status # "absent"
         /\ \A i \in Ids : rows'[i].file # 0 => i \notin dead /\ rows'[i] = rows[i]
<1>1. PICK none \in Rows : none = NoRow /\ none.status = "absent" /\ none.file = 0
  BY NothingFacts
<1>2. rows' = [i \in Ids |-> IF i \in dead THEN none ELSE rows[i]] /\ rows \in [Ids -> Rows]
  BY <1>1 DEF Without, Archived, ArchiveTypeOK
<1>3. rows' \in [Ids -> Rows] /\ \A i \in Ids : rows'[i] = IF i \in dead THEN none ELSE rows[i]
  BY <1>2
<1>4. \A i \in Ids : rows[i].file # 0 => rows[i].status # "absent"
  BY DEF Archived, RowsKept, Exists
<1> QED
  BY <1>1, <1>3, <1>4 DEF RowsFollow, RowStays

LEMMA FilesRemoved ==
  ASSUME Archived, NEW doomed \in SUBSET Calls, NEW kept \in SUBSET doomed, Removed(doomed, kept),
         calls' = calls, rows' = rows,
         \A c \in doomed, i \in Ids : rows[i].file # c
  PROVE  files' \in [Calls -> Int] /\ Young' /\ FilesFollow
<1>1. /\ files' = [c \in Calls |-> IF c \in doomed \ kept THEN -1 ELSE files[c]]
      /\ files \in [Calls -> Int]
  BY DEF Removed, Archived, ArchiveTypeOK
<1>2. files' \in [Calls -> Int] /\ \A c \in Calls : files'[c] = IF c \in doomed \ kept THEN -1 ELSE files[c]
  BY <1>1
<1>3. Young'
  BY <1>2 DEF Archived, Young
<1>4. FilesFollow
  <2> SUFFICES ASSUME NEW i \in Ids, rows[i].file # 0
               PROVE  files'[rows[i].file] = files[rows[i].file]
    BY DEF FilesFollow
  <2>1. rows[i].file \in Calls /\ rows[i].file \notin doomed
    BY RowFile DEF Archived
  <2> QED
    BY <1>2, <2>1
<1> QED
  BY <1>2, <1>3, <1>4

\* A call goes on
LEMMA CallMoves ==
  ASSUME Archived, NEW c \in Calls, NEW pc \in {"folder", "written", "ended"},
         calls[c].pc \in {"started", "folder", "written"}, calls' = [calls EXCEPT ![c].pc = pc]
  PROVE  /\ calls' \in [Calls -> RunCalls] /\ EndedStays
         /\ \A d \in Calls : /\ calls'[d].id = calls[d].id /\ (calls'[d].pc # "none" <=> calls[d].pc # "none")
                             /\ calls'[d].pc = IF d = c THEN pc ELSE calls[d].pc
<1>1. PICK q \in RunCalls : q = calls[c]
  BY DEF Archived, ArchiveTypeOK
<1>2. PICK r : r = [q EXCEPT !.pc = pc]
  OBVIOUS
<1>3. r \in RunCalls /\ r.pc = pc /\ r.id = q.id
  BY <1>2 DEF RunCalls
<1>4. calls' = [calls EXCEPT ![c] = r]
  BY <1>1, <1>2
<1>5. calls' \in [Calls -> RunCalls] /\ \A d \in Calls : calls'[d] = IF d = c THEN r ELSE calls[d]
  BY <1>3, <1>4 DEF Archived, ArchiveTypeOK
<1> QED
  BY <1>1, <1>3, <1>5 DEF EndedStays

LEMMA StartKeeps ==
  ASSUME Archived, NEW t \in Tenants, Start(t)
  PROVE  Archived'
<1>1. /\ tenants' = tenants /\ files' = files /\ purge' = purge /\ delete' = delete
      /\ rows' = [rows EXCEPT ![NextId] = [NoRow EXCEPT !.status = "running", !.tenant = t]]
  BY DEF Start
<1>2. PICK c \in Calls : /\ calls[c].pc = "none" /\ \A d \in 1..c - 1 : calls[d].pc # "none"
                         /\ calls' = [calls EXCEPT ![c] = [pc |-> "started", id |-> NextId, tenant |-> t]]
  BY DEF Start
<1>3. PICK i \in Ids : i = NextId /\ i <= c
  BY <1>2, NextIdFacts DEF Used
<1>4. PICK q, r : /\ q = [pc |-> "started", id |-> i, tenant |-> t]
                  /\ r = [NoRow EXCEPT !.status = "running", !.tenant = t]
  OBVIOUS
<1>5. t \in Owners /\ i \in Nat
  BY ArchiveFacts DEF Owners
<1>6. q \in RunCalls /\ q.pc = "started" /\ q.id = i
  BY <1>4, <1>5 DEF RunCalls
<1>7. r \in Rows /\ r.status = "running" /\ r.file = 0
  BY <1>4, <1>5, NothingFacts DEF Rows
<1>8. calls' \in [Calls -> RunCalls] /\ \A d \in Calls : calls'[d] = IF d = c THEN q ELSE calls[d]
  BY <1>2, <1>3, <1>4, <1>6 DEF Archived, ArchiveTypeOK
<1>9. rows' \in [Ids -> Rows] /\ \A j \in Ids : rows'[j] = IF j = i THEN r ELSE rows[j]
  BY <1>1, <1>3, <1>4, <1>7 DEF Archived, ArchiveTypeOK
<1>10. ArchiveTypeOK'
  BY <1>1, <1>8, <1>9 DEF Archived, ArchiveTypeOK
<1>11. Numbered'
  <2>1. \A d \in Calls : Used(d)' <=> d = c \/ Used(d)
    BY <1>2, <1>6, <1>8 DEF Used
  <2>2. \A d \in Calls : Used(d)' => calls'[d].id \in Ids /\ calls'[d].id <= d
    BY <1>3, <1>6, <1>8, <2>1 DEF Archived, Numbered
  <2>3. \A d \in Calls, e \in Calls : e < d /\ Used(d)' => Used(e)'
    <3> SUFFICES ASSUME NEW d \in Calls, NEW e \in Calls, e < d, Used(d)' PROVE Used(e)
      BY <2>1
    <3>1. CASE d = c
      <4>1. e \in 1..c - 1
        BY <3>1, ArchiveFacts
      <4> QED
        BY <1>2, <4>1 DEF Used
    <3>2. CASE d # c
      BY <2>1, <3>2 DEF Archived, Numbered
    <3> QED
      BY <3>1, <3>2
  <2>4. ASSUME NEW j \in Ids, rows'[j].status # "absent" PROVE \E d \in Calls : Used(d)' /\ calls'[d].id = j
    <3>1. CASE j = i
      BY <1>6, <1>8, <2>1, <3>1
    <3>2. CASE j # i
      <4>1. PICK d \in Calls : Used(d) /\ calls[d].id = j
        BY <1>9, <2>4, <3>2 DEF Archived, Numbered, Exists
      <4> QED
        BY <1>2, <1>8, <2>1, <4>1 DEF Used
    <3> QED
      BY <3>1, <3>2
  <2> QED
    BY <2>2, <2>3, <2>4 DEF Numbered, Exists
<1>12. Young'
  BY <1>1, <1>2, <1>6, <1>8 DEF Archived, Young
<1>13. EndedStays
  BY <1>2, <1>8 DEF EndedStays
<1>14. RowsFollow /\ FilesFollow
  <2>1. ASSUME NEW j \in Ids, rows'[j].file # 0 PROVE RowStays(j) /\ rows'[j].file = rows[j].file
    BY <1>7, <1>9, <2>1 DEF Archived, RowsKept, Exists, RowStays
  <2> QED
    BY <1>1, <2>1 DEF RowsFollow, FilesFollow
<1> QED
  BY <1>1, <1>10, <1>11, <1>12, <1>13, <1>14, RemovalsStay, ArchiveKeeps

LEMMA MakeFolderKeeps ==
  ASSUME Archived, NEW c \in Calls, MakeFolder(c)
  PROVE  Archived'
<1>1. /\ tenants' = tenants /\ rows' = rows /\ files' = files /\ purge' = purge /\ delete' = delete
      /\ calls[c].pc = "started" /\ calls' = [calls EXCEPT ![c].pc = "folder"]
  BY DEF MakeFolder
<1>2. /\ calls' \in [Calls -> RunCalls] /\ EndedStays
      /\ \A d \in Calls : /\ calls'[d].id = calls[d].id /\ (calls'[d].pc # "none" <=> calls[d].pc # "none")
                          /\ calls'[d].pc = IF d = c THEN "folder" ELSE calls[d].pc
  BY <1>1, CallMoves
<1>3. ArchiveTypeOK'
  BY <1>1, <1>2 DEF Archived, ArchiveTypeOK
<1>4. Numbered'
  BY <1>1, <1>2, NumberedStays
<1>5. Young'
  BY <1>1, <1>2 DEF Archived, Young
<1>6. RowsFollow /\ FilesFollow
  BY <1>1, RowsStay DEF FilesFollow
<1> QED
  BY <1>1, <1>2, <1>3, <1>4, <1>5, <1>6, RemovalsStay, ArchiveKeeps

LEMMA WriteKeeps ==
  ASSUME Archived, NEW c \in Calls, Write(c)
  PROVE  Archived'
<1>1. /\ tenants' = tenants /\ rows' = rows /\ purge' = purge /\ delete' = delete
      /\ calls[c].pc = "folder" /\ calls' = [calls EXCEPT ![c].pc = "written"]
  BY DEF Write
<1>2. PICK n \in Int : n <= 0 /\ files' = [files EXCEPT ![c] = n]
  <2>1. PICK n : n = IF calls[c].tenant \in folders THEN 0 ELSE -1
    OBVIOUS
  <2>2. n \in Int /\ n <= 0
    BY <2>1
  <2>3. files' = [files EXCEPT ![c] = n]
    BY <2>1 DEF Write
  <2> QED
    BY <2>2, <2>3
<1>3. /\ calls' \in [Calls -> RunCalls] /\ EndedStays
      /\ \A d \in Calls : /\ calls'[d].id = calls[d].id /\ (calls'[d].pc # "none" <=> calls[d].pc # "none")
                          /\ calls'[d].pc = IF d = c THEN "written" ELSE calls[d].pc
  BY <1>1, CallMoves
<1>4. files' \in [Calls -> Int] /\ \A d \in Calls : files'[d] = IF d = c THEN n ELSE files[d]
  BY <1>2 DEF Archived, ArchiveTypeOK
<1>5. ArchiveTypeOK'
  BY <1>1, <1>3, <1>4 DEF Archived, ArchiveTypeOK
<1>6. Numbered'
  BY <1>1, <1>3, NumberedStays
<1>7. Young'
  BY <1>2, <1>3, <1>4 DEF Archived, Young
<1>8. RowsFollow /\ FilesFollow
  <2>1. ASSUME NEW i \in Ids, rows[i].file # 0 PROVE files'[rows[i].file] = files[rows[i].file]
    BY <1>1, <1>4, <2>1, RowFile DEF Archived, RowsKept
  <2> QED
    BY <1>1, <2>1, RowsStay DEF FilesFollow
<1> QED
  BY <1>1, <1>3, <1>5, <1>6, <1>7, <1>8, RemovalsStay, ArchiveKeeps

LEMMA FinishKeeps ==
  ASSUME Archived, NEW c \in Calls, Finish(c)
  PROVE  Archived'
<1>1. /\ tenants' = tenants /\ files' = files /\ purge' = purge /\ delete' = delete
      /\ calls[c].pc = "written" /\ calls' = [calls EXCEPT ![c].pc = "ended"]
  BY DEF Finish
<1>2. /\ calls' \in [Calls -> RunCalls] /\ EndedStays
      /\ \A d \in Calls : /\ calls'[d].id = calls[d].id /\ (calls'[d].pc # "none" <=> calls[d].pc # "none")
                          /\ calls'[d].pc = IF d = c THEN "ended" ELSE calls[d].pc
  BY <1>1, CallMoves
<1>3. PICK i \in Ids : i = calls[c].id
  BY <1>1 DEF Archived, Numbered, Used
<1>4. PICK q \in Rows : q = rows[i]
  BY DEF Archived, ArchiveTypeOK
<1>5. PICK f \in {0} \union Calls : f = IF files[c] >= 0 THEN c ELSE 0
  OBVIOUS
<1>6. PICK r : r = [q EXCEPT !.status = "done", !.file = f]
  OBVIOUS
<1>7. r \in Rows /\ r.status = "done" /\ r.file = f /\ r.tenant = q.tenant
  BY <1>6 DEF Rows
<1>8. rows' = rows \/ (q.status # "absent" /\ rows' = [rows EXCEPT ![i] = r])
  BY <1>3, <1>4, <1>5, <1>6 DEF Finish, Exists
<1>9. /\ rows' \in [Ids -> Rows]
      /\ rows' = rows \/ (q.status # "absent" /\ \A j \in Ids : rows'[j] = IF j = i THEN r ELSE rows[j])
  BY <1>7, <1>8 DEF Archived, ArchiveTypeOK
<1>10. ArchiveTypeOK'
  BY <1>1, <1>2, <1>9 DEF Archived, ArchiveTypeOK
<1>11. Numbered'
  BY <1>2, <1>4, <1>9, NumberedStays
<1>12. Young'
  BY <1>1, <1>2 DEF Archived, Young
<1>13. RowsFollow
  <2>1. CASE rows' = rows
    BY <2>1, RowsStay
  <2>2. CASE q.status # "absent" /\ \A j \in Ids : rows'[j] = IF j = i THEN r ELSE rows[j]
    <3> SUFFICES ASSUME NEW j \in Ids, rows'[j].file # 0 PROVE RowStays(j) \/ JustRecorded(j, rows'[j].file)
      BY DEF RowsFollow
    <3>1. CASE j = i
      <4>1. rows'[j].file = c /\ files[c] >= 0 /\ rows'[j].status = "done"
        BY <1>5, <1>7, <2>2, <3>1
      <4>2. files[c] < MinAge
        BY <1>1, <4>1, ArchiveFacts DEF Archived, Young, ArchiveTypeOK
      <4> QED
        BY <1>1, <1>2, <1>3, <3>1, <4>1, <4>2 DEF JustRecorded
    <3>2. CASE j # i
      BY <2>2, <3>2 DEF Archived, RowsKept, Exists, RowStays
    <3> QED
      BY <3>1, <3>2
  <2> QED
    BY <1>9, <2>1, <2>2
<1>14. FilesFollow
  BY <1>1 DEF FilesFollow
<1> QED
  BY <1>1, <1>2, <1>10, <1>11, <1>12, <1>13, <1>14, RemovalsStay, ArchiveKeeps

\* The files recorded in some rows are those of reports that have ended, and in no
\* other row
LEMMA RecordedFacts ==
  ASSUME Archived, NEW dead \in SUBSET Ids
  PROVE  /\ Recorded(dead) \subseteq Calls
         /\ \A c \in Recorded(dead) : calls[c].pc = "ended" /\ \A j \in Ids : rows[j].file = c => j \in dead
<1> SUFFICES ASSUME NEW c \in Recorded(dead)
             PROVE  /\ c \in Calls /\ calls[c].pc = "ended"
                    /\ \A j \in Ids : rows[j].file = c => j \in dead
  OBVIOUS
<1>1. c # 0 /\ \E i \in dead : c = rows[i].file
  BY DEF Recorded
<1>2. PICK i \in dead : c = rows[i].file
  BY <1>1
<1>3. c \in Calls /\ calls[c].id = i /\ calls[c].pc = "ended"
  BY <1>1, <1>2, RowFile DEF Archived, RowsKept
<1>4. ASSUME NEW j \in Ids, rows[j].file = c PROVE j \in dead
  <2>1. calls[c].id = j
    BY <1>1, <1>4 DEF Archived, RowsKept
  <2> QED
    BY <1>3, <2>1
<1> QED
  BY <1>3, <1>4

LEMMA NobodyMoves ==
  ASSUME Archived, calls' = calls
  PROVE  EndedStays /\ (files' = files => Young')
  BY DEF Archived, EndedStays, Young

LEMMA PurgeRowsKeeps ==
  ASSUME Archived, PurgeRows
  PROVE  Archived'
<1>1. /\ tenants' = tenants /\ calls' = calls /\ files' = files /\ delete' = delete
      /\ purge' = [purge EXCEPT !.pc = "remove", !.doomed = Recorded(Expired)]
  BY DEF PurgeRows
<1>2. PICK dead \in SUBSET Ids : dead = Expired
  BY DEF Expired
<1>3. /\ rows' \in [Ids -> Rows] /\ RowsFollow
      /\ \A i \in Ids : rows'[i].status # "absent" => rows[i].status # "absent"
      /\ \A i \in Ids : rows'[i].file # 0 => i \notin dead /\ rows'[i] = rows[i]
  BY <1>2, RowsGo DEF PurgeRows
<1>4. PICK doomed \in SUBSET Calls :
        /\ doomed = Recorded(dead)
        /\ \A c \in doomed : calls[c].pc = "ended" /\ \A j \in Ids : rows[j].file = c => j \in dead
  BY RecordedFacts
<1>5. purge' \in Purges /\ purge'.pc = "remove" /\ purge'.doomed = doomed
  BY <1>1, <1>2, <1>4 DEF Archived, ArchiveTypeOK, Purges
<1>6. ArchiveTypeOK'
  BY <1>1, <1>3, <1>5 DEF Archived, ArchiveTypeOK
<1>7. Numbered'
  BY <1>1, <1>3, NumberedStays DEF Archived, ArchiveTypeOK
<1>8. Discarded(purge.doomed)'
  <2>1. 0 \notin doomed
    BY ArchiveFacts
  <2> QED
    BY <1>1, <1>3, <1>4, <1>5, <2>1 DEF Discarded
<1>9. RemovalsFollow /\ SweepFollows /\ FilesFollow
  BY <1>1, <1>5, <1>8 DEF RemovalsFollow, SweepFollows, FilesFollow
<1> QED
  BY <1>1, <1>3, <1>6, <1>7, <1>9, NobodyMoves, ArchiveKeeps

LEMMA PurgeFilesKeeps ==
  ASSUME Archived, PurgeFiles
  PROVE  Archived'
<1>1. /\ tenants' = tenants /\ calls' = calls /\ rows' = rows /\ delete' = delete
      /\ purge.pc = "remove" /\ purge' = [purge EXCEPT !.pc = "read", !.doomed = {}]
  BY DEF PurgeFiles
<1>2. PICK doomed \in SUBSET Calls : doomed = purge.doomed
  BY DEF Archived, ArchiveTypeOK, Purges
<1>3. PICK kept \in SUBSET doomed : Removed(doomed, kept)
  BY <1>2 DEF PurgeFiles
<1>4. \A c \in doomed, i \in Ids : rows[i].file # c
  BY <1>1, <1>2 DEF Archived, Removing, Discarded
<1>5. files' \in [Calls -> Int] /\ Young' /\ FilesFollow
  BY <1>1, <1>3, <1>4, FilesRemoved
<1>6. purge' \in Purges /\ purge'.pc = "read"
  BY <1>1 DEF Archived, ArchiveTypeOK, Purges
<1>7. ArchiveTypeOK'
  BY <1>1, <1>5, <1>6 DEF Archived, ArchiveTypeOK
<1>8. Numbered'
  BY <1>1, NumberedStays DEF Archived, ArchiveTypeOK
<1>9. RemovalsFollow /\ SweepFollows
  BY <1>1, <1>6 DEF RemovalsFollow, SweepFollows
<1> QED
  BY <1>1, <1>5, <1>7, <1>8, <1>9, RowsStay, NobodyMoves, ArchiveKeeps

LEMMA PurgeReadKeeps ==
  ASSUME Archived, PurgeRead
  PROVE  Archived'
<1>1. /\ tenants' = tenants /\ calls' = calls /\ rows' = rows /\ files' = files /\ delete' = delete
      /\ purge' = [purge EXCEPT !.pc = "sweep", !.known = {i \in Ids : Exists(i)}]
  BY DEF PurgeRead
<1>2. PICK known \in SUBSET Ids : known = {i \in Ids : Exists(i)}
  OBVIOUS
<1>3. purge' \in Purges /\ purge'.pc = "sweep" /\ purge'.known = known
  BY <1>1, <1>2 DEF Archived, ArchiveTypeOK, Purges
<1>4. ArchiveTypeOK'
  BY <1>1, <1>3 DEF Archived, ArchiveTypeOK
<1>5. Numbered'
  BY <1>1, NumberedStays DEF Archived, ArchiveTypeOK
<1>6. SweepFollows
  BY <1>1, <1>2, <1>3 DEF SweepFollows, Exists
<1>7. RemovalsFollow /\ FilesFollow
  BY <1>1, <1>3 DEF RemovalsFollow, FilesFollow
<1> QED
  BY <1>1, <1>4, <1>5, <1>6, <1>7, RowsStay, NobodyMoves, ArchiveKeeps

LEMMA PurgeSweepKeeps ==
  ASSUME Archived, PurgeSweep
  PROVE  Archived'
<1>1. PICK orphans \in SUBSET Calls : orphans = {c \in Calls : OldEnough(files[c]) /\ calls[c].id \notin purge.known}
  OBVIOUS
<1>2. /\ tenants' = tenants /\ calls' = calls /\ rows' = rows /\ delete' = delete
      /\ purge.pc = "sweep" /\ purge' = NoPurge
      /\ files' = files \/ \E kept \in SUBSET orphans : Removed(orphans, kept)
  BY <1>1 DEF PurgeSweep
<1>3. ASSUME NEW c \in orphans, NEW i \in Ids, rows[i].file = c PROVE FALSE
  <2>1. c \in Calls /\ files[c] >= MinAge /\ calls[c].id \notin purge.known
    BY <1>1 DEF OldEnough
  <2>2. calls[c].id = i /\ (i \in purge.known \/ files[c] < MinAge)
    BY <1>2, <1>3, <2>1, ArchiveFacts DEF Archived, RowsKept, Sweeping
  <2> QED
    BY <2>1, <2>2, ArchiveFacts DEF Archived, ArchiveTypeOK
<1>4. files' \in [Calls -> Int] /\ Young' /\ FilesFollow
  <2>1. CASE files' = files
    BY <1>2, <2>1 DEF Archived, ArchiveTypeOK, Young, FilesFollow
  <2>2. ASSUME NEW kept \in SUBSET orphans, Removed(orphans, kept)
        PROVE  files' \in [Calls -> Int] /\ Young' /\ FilesFollow
    BY <1>2, <1>3, <2>2, FilesRemoved
  <2> QED
    BY <1>2, <2>1, <2>2
<1>5. purge' \in Purges /\ purge'.pc = "idle"
  BY <1>2, NothingFacts
<1>6. ArchiveTypeOK'
  BY <1>2, <1>4, <1>5 DEF Archived, ArchiveTypeOK
<1>7. Numbered'
  BY <1>2, NumberedStays DEF Archived, ArchiveTypeOK
<1>8. RemovalsFollow /\ SweepFollows
  BY <1>2, <1>5 DEF RemovalsFollow, SweepFollows
<1> QED
  BY <1>2, <1>4, <1>6, <1>7, <1>8, RowsStay, NobodyMoves, ArchiveKeeps

LEMMA DeleteReadKeeps ==
  ASSUME Archived, NEW t \in Tenants, DeleteRead(t)
  PROVE  Archived'
<1>1. /\ tenants' = tenants /\ calls' = calls /\ rows' = rows /\ files' = files /\ purge' = purge
      /\ delete' = [delete EXCEPT ![t] = [pc |-> "commit",
                      doomed |-> Recorded({i \in Ids : Exists(i) /\ rows[i].tenant = t})]]
  BY DEF DeleteRead
<1>2. PICK dead \in SUBSET Ids : dead = {i \in Ids : Exists(i) /\ rows[i].tenant = t}
  OBVIOUS
<1>3. PICK doomed \in SUBSET Calls :
        /\ doomed = Recorded(dead)
        /\ \A c \in doomed : calls[c].pc = "ended" /\ \A j \in Ids : rows[j].file = c => j \in dead
  BY RecordedFacts
<1>4. PICK r : r = [pc |-> "commit", doomed |-> doomed]
  OBVIOUS
<1>5. r \in Deletions /\ r.pc = "commit" /\ r.doomed = doomed
  BY <1>4 DEF Deletions
<1>6. delete' = [delete EXCEPT ![t] = r]
  BY <1>1, <1>2, <1>3, <1>4
<1>7. delete' \in [Tenants -> Deletions] /\ \A u \in Tenants : delete'[u] = IF u = t THEN r ELSE delete[u]
  BY <1>5, <1>6 DEF Archived, ArchiveTypeOK
<1>8. ArchiveTypeOK'
  BY <1>1, <1>7 DEF Archived, ArchiveTypeOK
<1>9. Numbered'
  BY <1>1, NumberedStays DEF Archived, ArchiveTypeOK
<1>10. Condemned(doomed, t)
  BY <1>2, <1>3 DEF Condemned
<1>11. Condemned(delete[t].doomed, t)'
  BY <1>1, <1>5, <1>7, <1>10 DEF Condemned
<1>12. RemovalsFollow
  BY <1>1, <1>5, <1>7, <1>11 DEF RemovalsFollow
<1>13. FilesFollow /\ SweepFollows
  BY <1>1 DEF FilesFollow, SweepFollows
<1> QED
  BY <1>1, <1>8, <1>9, <1>12, <1>13, RowsStay, NobodyMoves, ArchiveKeeps

LEMMA DeleteCommitKeeps ==
  ASSUME Archived, NEW t \in Tenants, DeleteCommit(t)
  PROVE  Archived'
<1>1. /\ tenants' \subseteq Tenants /\ calls' = calls /\ files' = files /\ purge' = purge
      /\ delete[t].pc = "commit" /\ delete' = [delete EXCEPT ![t].pc = "remove"]
  BY DEF DeleteCommit, Archived, ArchiveTypeOK
<1>2. PICK dead \in SUBSET Ids : dead = {i \in Ids : Exists(i) /\ rows[i].tenant = t}
  OBVIOUS
<1>3. /\ rows' \in [Ids -> Rows] /\ RowsFollow
      /\ \A i \in Ids : rows'[i].status # "absent" => rows[i].status # "absent"
      /\ \A i \in Ids : rows'[i].file # 0 => i \notin dead /\ rows'[i] = rows[i]
  BY <1>2, RowsGo DEF DeleteCommit
<1>4. PICK q \in Deletions : q = delete[t]
  BY DEF Archived, ArchiveTypeOK
<1>5. PICK r : r = [q EXCEPT !.pc = "remove"]
  OBVIOUS
<1>6. r \in Deletions /\ r.pc = "remove" /\ r.doomed = q.doomed /\ q.doomed \in SUBSET Calls
  BY <1>5 DEF Deletions
<1>7. delete' = [delete EXCEPT ![t] = r]
  BY <1>1, <1>4, <1>5
<1>8. delete' \in [Tenants -> Deletions] /\ \A u \in Tenants : delete'[u] = IF u = t THEN r ELSE delete[u]
  BY <1>6, <1>7 DEF Archived, ArchiveTypeOK
<1>9. ArchiveTypeOK'
  BY <1>1, <1>3, <1>8 DEF Archived, ArchiveTypeOK
<1>10. Numbered'
  BY <1>1, <1>3, NumberedStays DEF Archived, ArchiveTypeOK
<1>11. Discarded(delete[t].doomed)'
  <2>1. Condemned(q.doomed, t)
    BY <1>1, <1>4 DEF Archived, Removing
  <2>2. 0 \notin q.doomed
    BY <1>6, ArchiveFacts
  <2>3. ASSUME NEW c \in q.doomed, NEW i \in Ids, rows'[i].file = c PROVE FALSE
    <3>1. rows'[i].file # 0 /\ i \notin dead /\ rows[i].file = c
      BY <1>3, <2>2, <2>3
    <3>2. Exists(i) /\ rows[i].tenant = t
      BY <2>1, <2>2, <3>1 DEF Condemned, Archived, RowsKept
    <3> QED
      BY <1>2, <3>1, <3>2
  <2> QED
    BY <1>1, <1>6, <1>8, <2>1, <2>3 DEF Discarded, Condemned
<1>12. RemovalsFollow
  BY <1>1, <1>6, <1>8, <1>11 DEF RemovalsFollow
<1>13. FilesFollow /\ SweepFollows
  BY <1>1 DEF FilesFollow, SweepFollows
<1> QED
  BY <1>1, <1>3, <1>9, <1>10, <1>12, <1>13, NobodyMoves, ArchiveKeeps

LEMMA DeleteFilesKeeps ==
  ASSUME Archived, NEW t \in Tenants, DeleteFiles(t)
  PROVE  Archived'
<1>1. /\ tenants' = tenants /\ calls' = calls /\ rows' = rows /\ purge' = purge
      /\ delete[t].pc = "remove" /\ delete' = [delete EXCEPT ![t] = NoDelete]
  BY DEF DeleteFiles
<1>2. PICK doomed \in SUBSET Calls : doomed = delete[t].doomed
  BY DEF Archived, ArchiveTypeOK, Deletions
<1>3. PICK kept \in SUBSET doomed : Removed(doomed, kept)
  BY <1>2 DEF DeleteFiles
<1>4. \A c \in doomed, i \in Ids : rows[i].file # c
  BY <1>1, <1>2 DEF Archived, Removing, Discarded
<1>5. files' \in [Calls -> Int] /\ Young' /\ FilesFollow
  BY <1>1, <1>3, <1>4, FilesRemoved
<1>6. PICK r \in Deletions : r = NoDelete /\ r.pc = "idle"
  BY NothingFacts
<1>7. delete' \in [Tenants -> Deletions] /\ \A u \in Tenants : delete'[u] = IF u = t THEN r ELSE delete[u]
  BY <1>1, <1>6 DEF Archived, ArchiveTypeOK
<1>8. ArchiveTypeOK'
  BY <1>1, <1>5, <1>7 DEF Archived, ArchiveTypeOK
<1>9. Numbered'
  BY <1>1, NumberedStays DEF Archived, ArchiveTypeOK
<1>10. RemovalsFollow /\ SweepFollows
  BY <1>1, <1>6, <1>7 DEF RemovalsFollow, SweepFollows
<1> QED
  BY <1>1, <1>5, <1>8, <1>9, <1>10, RowsStay, NobodyMoves, ArchiveKeeps

LEMMA ArchiveRestartKeeps ==
  ASSUME Archived, Restart
  PROVE  Archived'
<1>1. /\ tenants' = tenants /\ files' = files /\ purge' = NoPurge
      /\ delete' = [t \in Tenants |-> NoDelete]
      /\ calls' = [c \in Calls |-> IF Active(c) THEN [calls[c] EXCEPT !.pc = "ended"] ELSE calls[c]]
      /\ rows' = [i \in Ids |-> IF rows[i].status = "running" THEN [rows[i] EXCEPT !.status = "done"]
                                ELSE rows[i]]
  BY DEF Restart
<1>2. PICK no \in Deletions : no = NoDelete /\ no.pc = "idle"
  BY NothingFacts
<1>3. delete' \in [Tenants -> Deletions] /\ \A t \in Tenants : delete'[t] = no
  BY <1>1, <1>2
<1>4. purge' \in Purges /\ purge'.pc = "idle"
  BY <1>1, NothingFacts
<1>5. ASSUME NEW c \in Calls
      PROVE  /\ calls'[c] \in RunCalls /\ calls'[c].id = calls[c].id
             /\ calls'[c].pc = IF Active(c) THEN "ended" ELSE calls[c].pc
  <2>1. PICK q \in RunCalls : q = calls[c]
    BY DEF Archived, ArchiveTypeOK
  <2>2. PICK r : r = [q EXCEPT !.pc = "ended"]
    OBVIOUS
  <2>3. r \in RunCalls /\ r.pc = "ended" /\ r.id = q.id
    BY <2>2 DEF RunCalls
  <2>4. calls'[c] = IF Active(c) THEN r ELSE q
    BY <1>1, <2>1, <2>2
  <2> QED
    BY <2>1, <2>3, <2>4
<1>6. ASSUME NEW i \in Ids
      PROVE  /\ rows'[i] \in Rows /\ rows'[i].file = rows[i].file /\ rows'[i].tenant = rows[i].tenant
             /\ rows'[i].status # "absent" <=> rows[i].status # "absent"
  <2>1. PICK q \in Rows : q = rows[i]
    BY DEF Archived, ArchiveTypeOK
  <2>2. PICK r : r = [q EXCEPT !.status = "done"]
    OBVIOUS
  <2>3. r \in Rows /\ r.status = "done" /\ r.file = q.file /\ r.tenant = q.tenant
    BY <2>2 DEF Rows
  <2>4. rows'[i] = IF q.status = "running" THEN r ELSE q
    BY <1>1, <2>1, <2>2
  <2> QED
    BY <2>1, <2>3, <2>4
<1>7. calls' \in [Calls -> RunCalls] /\ rows' \in [Ids -> Rows]
  BY <1>1, <1>5, <1>6
<1>8. ArchiveTypeOK'
  BY <1>1, <1>3, <1>4, <1>7 DEF Archived, ArchiveTypeOK
<1>9. \A c \in Calls : calls'[c].pc # "none" <=> calls[c].pc # "none"
  BY <1>5 DEF Active
<1>10. Numbered'
  BY <1>5, <1>6, <1>7, <1>9, NumberedStays
<1>11. Young' /\ EndedStays
  BY <1>1, <1>5 DEF Archived, Young, EndedStays, Active
<1>12. RowsFollow /\ FilesFollow
  BY <1>1, <1>6 DEF Archived, RowsKept, Exists, RowsFollow, RowStays, FilesFollow
<1>13. RemovalsFollow /\ SweepFollows
  BY <1>2, <1>3, <1>4 DEF RemovalsFollow, SweepFollows
<1> QED
  BY <1>8, <1>10, <1>11, <1>12, <1>13, ArchiveKeeps

LEMMA DayKeeps ==
  ASSUME Archived, Day
  PROVE  Archived'
<1>1. /\ \A c \in Calls : ~Active(c)
      /\ purge.pc = "idle" /\ tenants' = tenants /\ calls' = calls /\ purge' = purge /\ delete' = delete
      /\ files' = [c \in Calls |-> IF files[c] \in 0..Retention - 1 THEN files[c] + 1 ELSE files[c]]
      /\ rows' = [i \in Ids |-> IF Exists(i) /\ rows[i].age < Retention
                                THEN [rows[i] EXCEPT !.age = @ + 1] ELSE rows[i]]
  BY DEF Day
<1>2. ASSUME NEW c \in Calls
      PROVE  files'[c] \in Int /\ (files[c] = -1 => files'[c] = -1) /\ (files[c] >= 0 => files'[c] >= 0)
  <2>1. files[c] \in Int /\ files'[c] = IF files[c] \in 0..Retention - 1 THEN files[c] + 1 ELSE files[c]
    BY <1>1 DEF Archived, ArchiveTypeOK
  <2> QED
    BY <2>1, ArchiveFacts
<1>3. ASSUME NEW i \in Ids
      PROVE  /\ rows'[i] \in Rows /\ rows'[i].file = rows[i].file /\ rows'[i].tenant = rows[i].tenant
             /\ rows'[i].status = rows[i].status
  <2>1. PICK q \in Rows : q = rows[i]
    BY DEF Archived, ArchiveTypeOK
  <2>2. PICK r : r = [q EXCEPT !.age = q.age + 1]
    OBVIOUS
  <2>3. r \in Rows /\ r.status = q.status /\ r.file = q.file /\ r.tenant = q.tenant
    BY <2>2 DEF Rows
  <2>4. rows'[i] = q \/ rows'[i] = r
    BY <1>1, <2>1, <2>2
  <2> QED
    BY <2>1, <2>3, <2>4
<1>4. files' \in [Calls -> Int] /\ rows' \in [Ids -> Rows]
  BY <1>1, <1>2, <1>3
<1>5. ArchiveTypeOK'
  BY <1>1, <1>4 DEF Archived, ArchiveTypeOK
<1>6. Numbered'
  BY <1>1, <1>3, NumberedStays DEF Archived, ArchiveTypeOK
<1>7. Young'
  BY <1>1, <1>2 DEF Archived, Young, Active
<1>8. RowsFollow
  BY <1>3 DEF Archived, RowsKept, Exists, RowsFollow, RowStays
<1>9. FilesFollow
  <2> SUFFICES ASSUME NEW i \in Ids, rows'[i].file # 0, files[rows'[i].file] >= 0
               PROVE  files'[rows'[i].file] >= 0
    BY <1>1 DEF FilesFollow
  <2>1. rows'[i].file \in Calls
    BY <1>3, RowFile DEF Archived
  <2> QED
    BY <1>2, <2>1
<1> QED
  BY <1>1, <1>5, <1>6, <1>7, <1>8, <1>9, NobodyMoves, RemovalsStay, ArchiveKeeps

LEMMA ArchiveStutterKeeps ==
  ASSUME Archived, UNCHANGED ArchiveVars
  PROVE  Archived'
<1>1. /\ tenants' = tenants /\ calls' = calls /\ rows' = rows /\ files' = files /\ purge' = purge
      /\ delete' = delete
  BY DEF ArchiveVars
<1>2. ArchiveTypeOK' /\ FilesFollow
  BY <1>1 DEF Archived, ArchiveTypeOK, FilesFollow
<1>3. Numbered'
  BY <1>1, NumberedStays DEF Archived, ArchiveTypeOK
<1> QED
  BY <1>1, <1>2, <1>3, RowsStay, NobodyMoves, RemovalsStay, ArchiveKeeps

LEMMA ArchiveStepKeeps ==
  ASSUME Archived, [ArchiveNext]_ArchiveVars
  PROVE  Archived'
<1>1. ASSUME NEW t \in Tenants, Start(t) \/ DeleteRead(t) \/ Deletion(t) PROVE Archived'
  BY <1>1, StartKeeps, DeleteReadKeeps, DeleteCommitKeeps, DeleteFilesKeeps DEF Deletion
<1>2. ASSUME NEW c \in Calls, Report(c) PROVE Archived'
  BY <1>2, MakeFolderKeeps, WriteKeeps, FinishKeeps DEF Report
<1>3. ASSUME Purge PROVE Archived'
  BY <1>3, PurgeRowsKeeps, PurgeFilesKeeps, PurgeReadKeeps, PurgeSweepKeeps DEF Purge
<1> QED
  BY <1>1, <1>2, <1>3, ArchiveRestartKeeps, DayKeeps, ArchiveStutterKeeps DEF ArchiveNext

LEMMA ArchiveStarts == ArchiveInit => Archived
<1> SUFFICES ASSUME ArchiveInit PROVE Archived
  OBVIOUS
<1>1. PICK row \in Rows, call \in RunCalls, no \in Deletions :
        /\ row = NoRow /\ row.status = "absent" /\ row.file = 0
        /\ call = NoCall /\ call.pc = "none" /\ no = NoDelete /\ no.pc = "idle"
  BY NothingFacts
<1>2. /\ tenants = Tenants /\ rows = [i \in Ids |-> row] /\ calls = [c \in Calls |-> call]
      /\ files = [c \in Calls |-> -1] /\ delete = [t \in Tenants |-> no]
  BY <1>1 DEF ArchiveInit
<1>3. purge \in Purges /\ purge.pc = "idle"
  BY NothingFacts DEF ArchiveInit
<1>4. ArchiveTypeOK
  BY <1>1, <1>2, <1>3 DEF ArchiveTypeOK
<1>5. Numbered /\ RowsKept
  BY <1>1, <1>2 DEF Numbered, Used, Exists, RowsKept
<1>6. Young
  BY <1>1, <1>2 DEF Young
<1>7. Removing /\ Sweeping
  BY <1>1, <1>2, <1>3 DEF Removing, Sweeping
<1> QED
  BY <1>4, <1>5, <1>6, <1>7 DEF Archived

\* ArchiveHasItsFiles holds for any number of tenants and reports, for both ways of
\* giving run ids out, and wherever the process stops: no purge, deletion or sweep
\* removes a file that a row offers (archive.py remove_files and sweep_orphans,
\* runner.py purge_old_data).
THEOREM ReportsCanBeOpened == ArchiveSpec => []ArchiveHasItsFiles
<1>1. Archived => ArchiveHasItsFiles
  BY DEF Archived, RowsKept, ArchiveHasItsFiles
<1>2. Archived /\ [ArchiveNext]_ArchiveVars => Archived'
  BY ArchiveStepKeeps
<1> QED
  BY <1>1, <1>2, ArchiveStarts, PTL DEF ArchiveSpec

-----------------------------------------------------------------------------
(* Alerts about stalled collection                                           *)

StallSpec == StallInit /\ [][StallNext]_StallVars

Since == Nat \union {-1}
StallChecks == [phase : {"due", "send", "save", "done"}, due : SUBSET Streams, open : SUBSET Streams]

StallTypeOK ==
  /\ state \in [Streams -> Since] /\ told \in [Streams -> Since]
  /\ check \in StallChecks /\ twice \in BOOLEAN /\ stalls \in Nat

\* What is on its way in the alert of the check that runs
Underway(s) == check.phase \in {"send", "save"} /\ s \in check.due

\* AlertState may be told again: nothing, or a day old
Lapsed(s) == state[s] = -1 \/ state[s] >= RepeatAfter

\* AlertState is as old as the last alert delivered, but for one that a stop may
\* have lost, and for one that is delivered and not yet saved
Noted(s) ==
  /\ Underway(s) => Lapsed(s)
  /\ IF check.phase = "save" /\ s \in check.due
     THEN told[s] = 0
     ELSE told[s] = state[s] \/ (told[s] = -1 /\ state[s] >= RepeatAfter)

\* A stream found stalled is told, or will be, or was told within the day
InTime(s) ==
  CASE check.phase = "send" -> s \in check.due \/ told[s] \in 0..RepeatAfter - 1
    [] check.phase = "save" -> told[s] \in 0..RepeatAfter - 1
    [] check.phase = "done" -> refused \/ told[s] \in 0..RepeatAfter - 1
    [] OTHER -> TRUE

StallInv ==
  /\ StallTypeOK /\ ~twice
  /\ \A s \in Streams : Noted(s)
  /\ Watched => \A s \in check.open : InTime(s)

LEMMA RepeatFacts == RepeatAfter \in Nat /\ RepeatAfter > 0 /\ 0 \in 0..RepeatAfter - 1
  BY StallConstants DEF StallConstants

LEMMA CheckReadKeeps == ASSUME StallInv, CheckRead PROVE StallInv'
<1>1. check \in StallChecks /\ Stalled \subseteq Streams /\ Due \subseteq Streams
  BY DEF StallInv, StallTypeOK, Stalled, Due
<1>2. CASE Watched
  <2>1. /\ check.phase = "due" /\ state' = [s \in Streams |-> Forget(s)]
        /\ check' = [phase |-> IF Due = {} THEN "done" ELSE "send", due |-> Due, open |-> Stalled]
        /\ told' = [s \in Streams |-> IF s \in Stalled THEN told[s] ELSE -1]
        /\ UNCHANGED <<channels, twice, stalls>>
    BY <1>2 DEF CheckRead
  <2>2. StallTypeOK' /\ ~twice'
    BY <1>1, <2>1 DEF StallInv, StallTypeOK, StallChecks, Since, Forget
  <2>3. ASSUME NEW s \in Streams PROVE Noted(s)'
    <3>1. told[s] = state[s] \/ (told[s] = -1 /\ state[s] >= RepeatAfter)
      BY <1>1, <2>1 DEF StallInv, Noted
    <3>2. s \in Due => Lapsed(s) /\ s \in Stalled
      BY DEF Due, Lapsed
    <3> QED
      BY <1>1, <2>1, <3>1, <3>2 DEF Noted, Underway, Lapsed, Forget
  <2>4. ASSUME NEW s \in Stalled PROVE InTime(s)'
    <3>1. told[s] = state[s] \/ (told[s] = -1 /\ state[s] >= RepeatAfter)
      BY <1>1, <2>1 DEF StallInv, Noted
    <3>2. s \in Due \/ told[s] \in 0..RepeatAfter - 1
      BY <1>1, <3>1, RepeatFacts DEF Due, StallInv, StallTypeOK, Since
    <3> QED
      BY <1>1, <2>1, <3>2 DEF InTime
  <2> QED
    BY <1>1, <2>1, <2>2, <2>3, <2>4 DEF StallInv
<1>3. CASE ~Watched
  <2>1. /\ check' = [check EXCEPT !.phase = "done", !.open = Stalled] /\ check.phase = "due"
        /\ UNCHANGED <<state, told, channels, twice, stalls>>
    BY <1>3 DEF CheckRead
  <2>2. check' \in StallChecks /\ check'.phase = "done" /\ check'.due = check.due
    BY <1>1, <2>1 DEF StallChecks
  <2>3. \A s \in Streams : Noted(s)'
    BY <2>1, <2>2 DEF StallInv, Noted, Underway
  <2> QED
    BY <1>3, <2>1, <2>2, <2>3 DEF StallInv, StallTypeOK, Watched
<1> QED
  BY <1>2, <1>3

LEMMA CheckSendKeeps == ASSUME StallInv, CheckSend PROVE StallInv'
<1>1. PICK taken \in SUBSET channels :
        /\ check.phase = "send" /\ stalls' = stalls + (IF taken = {} THEN 1 ELSE 0)
        /\ refused' = (taken = {})
        /\ IF taken = {} THEN UNCHANGED <<told, twice>>
           ELSE /\ told' = [s \in Streams |-> IF s \in check.due THEN 0 ELSE told[s]]
                /\ twice' = (twice \/ \E s \in check.due : told[s] \in 0..RepeatAfter - 1)
        /\ check' = [check EXCEPT !.phase = IF taken = {} THEN "done" ELSE "save"]
        /\ UNCHANGED <<channels, state>>
  BY DEF CheckSend
<1>2. check \in StallChecks /\ check'.due = check.due /\ check'.open = check.open
  BY <1>1 DEF StallInv, StallTypeOK, StallChecks
<1>3. \A s \in check.due : s \in Streams /\ Lapsed(s) /\ Noted(s)
  BY <1>1, <1>2 DEF StallInv, Noted, Underway, StallChecks
<1>4. CASE taken = {}
  <2>1. check' \in StallChecks /\ check'.phase = "done" /\ refused' = TRUE
    BY <1>1, <1>2, <1>4 DEF StallChecks
  <2>2. StallTypeOK' /\ ~twice'
    BY <1>1, <1>4, <2>1 DEF StallInv, StallTypeOK
  <2>3. \A s \in Streams : Noted(s)'
    BY <1>1, <1>2, <1>4, <2>1 DEF StallInv, Noted, Underway
  <2> QED
    BY <2>1, <2>2, <2>3 DEF StallInv, InTime
<1>5. CASE taken # {}
  <2>1. /\ check' \in StallChecks /\ check'.phase = "save"
        /\ told' = [s \in Streams |-> IF s \in check.due THEN 0 ELSE told[s]]
        /\ twice' = (twice \/ \E s \in check.due : told[s] \in 0..RepeatAfter - 1)
    BY <1>1, <1>2, <1>5 DEF StallChecks
  <2>2. \A s \in check.due : told[s] \notin 0..RepeatAfter - 1
    BY <1>1, <1>3, RepeatFacts DEF Noted, Lapsed, StallInv, StallTypeOK, Since
  <2>3. StallTypeOK' /\ ~twice'
    BY <1>1, <1>5, <2>1, <2>2 DEF StallInv, StallTypeOK, Since
  <2>4. \A s \in Streams : Noted(s)'
    BY <1>1, <1>2, <1>3, <2>1 DEF StallInv, Noted, Underway, Lapsed
  <2>5. Watched => \A s \in check.open : InTime(s)'
    BY <1>1, <1>2, <2>1, RepeatFacts DEF StallInv, InTime, StallChecks
  <2> QED
    BY <1>1, <1>2, <2>3, <2>4, <2>5 DEF StallInv, Watched
<1> QED
  BY <1>4, <1>5

LEMMA CheckSaveKeeps == ASSUME StallInv, CheckSave PROVE StallInv'
<1>1. /\ check \in StallChecks /\ check.phase = "save"
      /\ check'.phase = "done" /\ check'.due = check.due /\ check'.open = check.open /\ check' \in StallChecks
      /\ state' = [s \in Streams |-> IF s \in check.due THEN 0 ELSE state[s]]
      /\ UNCHANGED <<channels, told, twice, refused, stalls>>
  BY DEF CheckSave, StallInv, StallTypeOK, StallChecks
<1>2. StallTypeOK'
  BY <1>1 DEF StallInv, StallTypeOK, Since
<1>3. \A s \in Streams : Noted(s)'
  BY <1>1 DEF StallInv, Noted, Underway
<1> QED
  BY <1>1, <1>2, <1>3 DEF StallInv, InTime, Watched

\* A stop leaves AlertState as it is
LEMMA StallStopKeeps == ASSUME StallInv, StallStop PROVE StallInv'
<1>1. /\ check.phase \in {"send", "save"} /\ check' = [phase |-> "done", due |-> {}, open |-> {}]
      /\ told' = [s \in Streams |-> IF s \in check.due THEN -1 ELSE told[s]]
      /\ stalls' = stalls + 1 /\ UNCHANGED <<channels, state, twice>>
  BY DEF StallStop
<1>2. StallTypeOK' /\ ~twice'
  BY <1>1 DEF StallInv, StallTypeOK, Since, StallChecks
<1>3. \A s \in Streams : Noted(s)'
  BY <1>1 DEF StallInv, Noted, Underway, Lapsed
<1> QED
  BY <1>1, <1>2, <1>3 DEF StallInv

LEMMA StallTickKeeps == ASSUME StallInv, StallTick PROVE StallInv'
<1>1. /\ check.phase = "done" /\ check' = [phase |-> "due", due |-> {}, open |-> {}]
      /\ state' = [s \in Streams |-> Older(state[s], RepeatAfter)]
      /\ told' = [s \in Streams |-> Older(told[s], RepeatAfter)]
      /\ UNCHANGED <<channels, twice, stalls>>
  BY DEF StallTick
<1>2. StallTypeOK'
  BY <1>1 DEF StallInv, StallTypeOK, Since, StallChecks, Older
<1>3. ASSUME NEW s \in Streams PROVE Noted(s)'
  <2>1. state[s] \in Since /\ told[s] \in Since /\ (told[s] = state[s] \/ (told[s] = -1 /\ state[s] >= RepeatAfter))
    BY <1>1 DEF StallInv, StallTypeOK, Noted
  <2> QED
    BY <1>1, <2>1, RepeatFacts DEF Noted, Underway, Older, Since
<1> QED
  BY <1>1, <1>2, <1>3 DEF StallInv

(* At most one alert a day for each stalled stream, and never less: however *)
(* deliveries fail, the service stops in a check, and collectors and        *)
(* tenants come and go beside it.                                           *)
THEOREM StallsAreTold == StallSpec => []ToldOnceADay
<1>1. StallInit => StallInv
  <2> SUFFICES ASSUME StallInit PROVE StallInv
    OBVIOUS
  <2>1. check = [phase |-> "due", due |-> {}, open |-> {}] /\ ~twice
    BY DEF StallInit
  <2>2. StallTypeOK
    BY DEF StallInit, StallTypeOK, StallChecks, Since
  <2>3. \A s \in Streams : Noted(s)
    BY <2>1 DEF StallInit, Noted, Underway
  <2> QED
    BY <2>1, <2>2, <2>3 DEF StallInv
<1>2. StallInv /\ [StallNext]_StallVars => StallInv'
  <2> SUFFICES ASSUME StallInv, [StallNext]_StallVars PROVE StallInv'
    OBVIOUS
  <2>1. CASE UNCHANGED <<state, told, check, twice, stalls, channels, refused>>
    BY <2>1 DEF StallInv, StallTypeOK, Noted, Underway, Lapsed, InTime, Watched
  <2>2. CASE TenantToggle \/ (\E s \in Streams : Collected(s) \/ CollectFailed(s)) \/ UNCHANGED StallVars
    BY <2>1, <2>2 DEF TenantToggle, Collected, CollectFailed, StallVars
  <2> QED
    BY <2>2, CheckReadKeeps, CheckSendKeeps, CheckSaveKeeps, StallStopKeeps, StallTickKeeps DEF StallNext
<1>3. StallInv => ToldOnceADay
  BY DEF StallInv, ToldOnceADay, InTime
<1> QED
  BY <1>1, <1>2, <1>3, PTL DEF StallSpec

-----------------------------------------------------------------------------
(* Reminders of keys that expire                                             *)

KeySpec == KeyInit /\ [][KeyNext]_KeyVars

Stages == {"none", "week", "last_day"}

KeyTypeOK ==
  /\ left \in [Keys -> Nat \union {-1}] /\ checked \in BOOLEAN /\ part \in 0..Parts - 1
  /\ stage \in [Keys -> Stages] /\ skipped \subseteq Keys /\ losses \in Nat

\* What the owner of a key may have been told so far
Unsaid == <<>>
OnlyWeek == <<"week">>
OnlyLast == <<"last_day">>
Both == <<"week", "last_day">>

\* AlertState agrees with what was delivered, while the key may still expire
StageTold(k) ==
  /\ stage[k] = "week" => left[k] <= Soon /\ reminded[k] = OnlyWeek
  /\ stage[k] = "last_day" =>
       left[k] <= Parts /\ reminded[k] \in {OnlyLast, Both}
  /\ stage[k] = "none" /\ left[k] > 0 => reminded[k] = Unsaid
  /\ reminded[k] \in {Unsaid, OnlyWeek, OnlyLast, Both}

\* The day of a key whose last job before it expires has run
LastDayTold(k) ==
  left[k] >= 0 /\ left[k] + part <= Parts /\ (part > 0 \/ checked \/ left[k] = 0) /\ k \notin skipped =>
    reminded[k] \in {OnlyLast, Both}

KeyInv ==
  /\ KeyTypeOK
  /\ \A k \in Keys : StageTold(k)
  /\ \A k \in Keys : LastDayTold(k)

LEMMA SoonFacts == Parts \in Nat /\ Parts > 0 /\ WarningDays \in Nat /\ Soon \in Nat /\ Soon >= Parts
<1>1. Parts \in Nat /\ Parts > 0 /\ WarningDays \in Nat /\ WarningDays >= 1
  BY KeyConstants DEF KeyConstants
<1>2. WarningDays * Parts \in Nat
  BY <1>1
<1>3. WarningDays * Parts >= Parts
  <2>1. (WarningDays - 1) * Parts >= 0
    BY <1>1
  <2> QED
    BY <1>1, <2>1
<1> QED
  BY <1>1, <1>2, <1>3 DEF Soon

\* What Append gives, on one element
LEMMA AppendSecond == ASSUME NEW x, NEW y PROVE Append(<<x>>, y) = <<x, y>>
<1>1. PICK s : s = <<x>>
  OBVIOUS
<1>2. PICK t : t = <<x, y>>
  OBVIOUS
<1>0. PICK S : S = {x, y}
  OBVIOUS
<1>3. s \in Seq({x, y}) /\ Len(s) = 1 /\ s[1] = x
  BY <1>1
<1>4. t \in Seq({x, y}) /\ Len(t) = 2 /\ t[1] = x /\ t[2] = y
  BY <1>2
<1>5. PICK a : a = Append(s, y)
  OBVIOUS
<1>6. a \in Seq(S) /\ Len(a) = 2 /\ a[1] = x /\ a[2] = y
  <2>1. s \in Seq(S) /\ y \in S
    BY <1>0, <1>3
  <2>2. a \in Seq(S) /\ Len(a) = Len(s) + 1 /\ (\A i \in 1..Len(s) : a[i] = s[i]) /\ a[Len(s) + 1] = y
    BY <1>5, <2>1, AppendProperties, ZenonT(60)
  <2> QED
    BY <1>3, <2>2
<1>7. a = t
  BY <1>0, <1>4, <1>6, SeqEqual
<1> QED
  BY <1>1, <1>2, <1>5, <1>7
LEMMA Appends ==
  Append(Unsaid, "week") = OnlyWeek /\ Append(Unsaid, "last_day") = OnlyLast /\ Append(OnlyWeek, "last_day") = Both
<1>1. Append(<<"week">>, "last_day") = <<"week", "last_day">>
  BY AppendSecond
<1>2. Append(<<>>, "week") = <<"week">> /\ Append(<<>>, "last_day") = <<"last_day">>
  OBVIOUS
<1> QED
  BY <1>1, <1>2, Zenon DEF Unsaid, OnlyWeek, OnlyLast, Both

LEMMA KeyFacts ==
  ASSUME KeyInv, NEW k \in Keys
  PROVE  /\ left[k] \in Int /\ left[k] >= -1 /\ stage[k] \in Stages /\ StageTold(k) /\ LastDayTold(k)
         /\ part \in 0..Parts - 1
<1>1. left[k] \in Nat \union {-1}
  BY DEF KeyInv, KeyTypeOK
<1> QED
  BY <1>1 DEF KeyInv, KeyTypeOK

\* The part of the invariant that every step has to show again
LEMMA KeyInvFrom ==
  ASSUME left' \in [Keys -> Nat \union {-1}], checked' \in BOOLEAN, part' \in 0..Parts - 1,
         stage' \in [Keys -> Stages], skipped' \subseteq Keys, losses' \in Nat,
         \A k \in Keys : StageTold(k)', \A k \in Keys : LastDayTold(k)'
  PROVE  KeyInv'
  BY DEF KeyInv, KeyTypeOK

\* A key that is about to be announced
LEMMA AnnouncedFacts ==
  ASSUME KeyInv, NEW k \in Announced
  PROVE  /\ k \in Keys /\ left[k] \in Nat /\ left[k] > 0 /\ left[k] <= Soon
         /\ \/ StageOf(k) = "week" /\ left[k] > Parts /\ reminded[k] = Unsaid
            \/ StageOf(k) = "last_day" /\ left[k] <= Parts /\ reminded[k] \in {Unsaid, OnlyWeek}
<1>1. k \in Keys /\ left[k] > 0 /\ left[k] <= Soon /\ stage[k] # StageOf(k)
  BY DEF Announced, Expiring
<1>2. left[k] \in Nat /\ stage[k] \in Stages /\ StageTold(k)
  BY <1>1, KeyFacts
<1>3. CASE left[k] <= Parts
  <2>1. StageOf(k) = "last_day" /\ (stage[k] = "none" \/ stage[k] = "week")
    BY <1>1, <1>2, <1>3 DEF StageOf, Stages
  <2> QED
    BY <1>1, <1>2, <1>3, <2>1 DEF StageTold
<1>4. CASE left[k] > Parts
  <2>1. StageOf(k) = "week" /\ stage[k] # "week" /\ stage[k] # "last_day"
    BY <1>1, <1>2, <1>4, SoonFacts DEF StageOf, StageTold
  <2>2. stage[k] = "none"
    BY <1>2, <2>1 DEF Stages
  <2> QED
    BY <1>1, <1>2, <1>4, <2>1, <2>2 DEF StageTold
<1> QED
  BY <1>2, <1>3, <1>4, SoonFacts

LEMMA CheckKeysKeeps == ASSUME KeyInv, CheckKeys PROVE KeyInv'
<1>1. part = 0 /\ checked' = TRUE /\ left' = left /\ part' = part
  BY Zenon DEF CheckKeys
<1>2. left \in [Keys -> Nat \union {-1}] /\ part \in 0..Parts - 1 /\ stage \in [Keys -> Stages]
      /\ skipped \subseteq Keys /\ losses \in Nat
  BY DEF KeyInv, KeyTypeOK
<1>3. ASSUME NEW k \in Keys
      PROVE  /\ Kept[k] = (IF left[k] > 0 /\ left[k] <= Soon THEN stage[k] ELSE "none")
             /\ Kept[k] \in Stages /\ StageOf(k) \in Stages
  BY <1>2, <1>3 DEF Kept, Expiring, StageOf, Stages
\* A key that is not announced has been told what its time calls for
<1>4. ASSUME NEW k \in Keys, left[k] >= 0, left[k] <= Parts, k \notin Announced
      PROVE  k \in skipped \/ reminded[k] \in {OnlyLast, Both}
  <2>1. CASE left[k] = 0
    BY <1>1, <1>4, <2>1, SoonFacts, KeyFacts DEF LastDayTold
  <2>2. CASE left[k] # 0
    <3>1. left[k] > 0 /\ left[k] <= Soon
      BY <1>4, <2>2, SoonFacts, KeyFacts
    <3>2. stage[k] = "last_day"
      BY <1>4, <3>1 DEF Announced, Expiring, StageOf
    <3> QED
      BY <3>2, KeyFacts DEF StageTold
  <2> QED
    BY <2>1, <2>2
<1>5. ASSUME NEW k \in Keys, reminded'[k] = reminded[k], stage'[k] = Kept[k] PROVE StageTold(k)'
  <2>1. CASE left[k] > 0 /\ left[k] <= Soon
    BY <1>1, <1>3, <1>5, <2>1, KeyFacts DEF StageTold
  <2>2. CASE ~(left[k] > 0 /\ left[k] <= Soon)
    <3>1. stage'[k] = "none" /\ left'[k] = left[k]
      BY <1>1, <1>3, <1>5, <2>2
    <3>2. left[k] > 0 => stage[k] = "none"
      BY <2>2, SoonFacts, KeyFacts DEF StageTold, Stages
    <3> QED
      BY <1>5, <3>1, <3>2, KeyFacts DEF StageTold
  <2> QED
    BY <2>1, <2>2
<1>6. CASE /\ stage' = [k \in Keys |-> IF k \in Announced THEN StageOf(k) ELSE Kept[k]]
           /\ reminded' = [k \in Keys |-> IF k \in Announced THEN Append(reminded[k], StageOf(k))
                                          ELSE reminded[k]]
           /\ UNCHANGED <<losses, skipped>>
  <2>1. stage' \in [Keys -> Stages]
    BY <1>3, <1>6
  <2>2. ASSUME NEW k \in Keys, k \in Announced PROVE StageTold(k)' /\ LastDayTold(k)'
    <3>1. stage'[k] = StageOf(k) /\ reminded'[k] = Append(reminded[k], StageOf(k)) /\ left'[k] = left[k]
      BY <1>1, <1>6, <2>2
    <3>2. CASE StageOf(k) = "week" /\ left[k] > Parts /\ reminded[k] = Unsaid
      <4>1. stage'[k] = "week" /\ reminded'[k] = OnlyWeek /\ left'[k] > Parts /\ left'[k] \in Nat /\ left'[k] <= Soon
        BY <3>1, <3>2, Appends, AnnouncedFacts, <2>2
      <4>2. StageTold(k)'
        BY <4>1 DEF StageTold
      <4>3. LastDayTold(k)'
        BY <1>1, <4>1, SoonFacts DEF LastDayTold
      <4> QED
        BY <4>2, <4>3
    <3>3. CASE StageOf(k) = "last_day" /\ left[k] <= Parts /\ reminded[k] \in {Unsaid, OnlyWeek}
      <4>1. stage'[k] = "last_day" /\ reminded'[k] \in {OnlyLast, Both} /\ left'[k] <= Parts
        BY <3>1, <3>3, Appends
      <4>2. StageTold(k)'
        BY <4>1 DEF StageTold
      <4>3. LastDayTold(k)'
        BY <4>1 DEF LastDayTold
      <4> QED
        BY <4>2, <4>3
    <3> QED
      BY <2>2, <3>2, <3>3, AnnouncedFacts
  <2>3. ASSUME NEW k \in Keys, k \notin Announced PROVE StageTold(k)' /\ LastDayTold(k)'
    <3>1. stage'[k] = Kept[k] /\ reminded'[k] = reminded[k] /\ left'[k] = left[k]
      BY <1>1, <1>6, <2>3
    <3>2. LastDayTold(k)'
      BY <1>1, <1>4, <1>6, <2>3, <3>1, KeyFacts, SoonFacts DEF LastDayTold
    <3> QED
      BY <1>5, <3>1, <3>2
  <2>4. \A k \in Keys : StageTold(k)'
    BY <2>2, <2>3
  <2>5. \A k \in Keys : LastDayTold(k)'
    BY <2>2, <2>3
  <2> QED
    BY <1>1, <1>2, <1>6, <2>1, <2>4, <2>5, KeyInvFrom
<1>7. CASE /\ losses' = losses + 1 /\ stage' = Kept
           /\ skipped' = skipped \union {k \in Announced : StageOf(k) = "last_day"}
           /\ UNCHANGED reminded
  <2>1. stage' \in [Keys -> Stages]
    BY <1>3, <1>7 DEF Kept
  <2>2. skipped' \subseteq Keys /\ losses' \in Nat
    BY <1>2, <1>7, AnnouncedFacts
  <2>3. \A k \in Keys : StageTold(k)'
    BY <1>5, <1>7
  <2>4. ASSUME NEW k \in Keys PROVE LastDayTold(k)'
    <3>1. k \in Announced /\ left[k] <= Parts => k \in skipped'
      BY <1>7 DEF StageOf
    <3> QED
      BY <1>1, <1>4, <1>7, <3>1, KeyFacts, SoonFacts DEF LastDayTold
  <2> QED
    BY <1>1, <1>2, <2>1, <2>2, <2>3, <2>4, KeyInvFrom
<1> QED
  BY <1>6, <1>7, Zenon DEF CheckKeys

LEMMA KeyTickKeeps == ASSUME KeyInv, KeyTick PROVE KeyInv'
<1>1. /\ (part = 0 => checked) /\ checked' = FALSE /\ part' = (part + 1) % Parts
      /\ left' = [k \in Keys |-> IF left[k] > 0 THEN left[k] - 1 ELSE left[k]]
      /\ UNCHANGED <<stage, reminded, skipped, losses>>
  BY DEF KeyTick, KeyInv, KeyTypeOK
<1>2. part \in 0..Parts - 1 /\ stage \in [Keys -> Stages] /\ skipped \subseteq Keys /\ losses \in Nat
  BY DEF KeyInv, KeyTypeOK
<1>3. part' = (IF part + 1 = Parts THEN 0 ELSE part + 1) /\ part' \in 0..Parts - 1
  BY <1>1, <1>2, SoonFacts
<1>4. ASSUME NEW k \in Keys
      PROVE  left'[k] = (IF left[k] > 0 THEN left[k] - 1 ELSE left[k]) /\ left'[k] \in Nat \union {-1}
  BY <1>1, <1>4, KeyFacts
<1>5. ASSUME NEW k \in Keys PROVE StageTold(k)'
  BY <1>1, <1>4, <1>5, KeyFacts, SoonFacts DEF StageTold
<1>6. ASSUME NEW k \in Keys PROVE LastDayTold(k)'
  BY <1>1, <1>2, <1>3, <1>4, <1>6, KeyFacts, SoonFacts DEF LastDayTold
<1>7. left' \in [Keys -> Nat \union {-1}]
  BY <1>1, <1>4
<1> QED
  BY <1>1, <1>2, <1>3, <1>5, <1>6, <1>7, KeyInvFrom

LEMMA RevokeKeeps == ASSUME KeyInv, NEW k \in Keys, Revoke(k) PROVE KeyInv'
<1>1. left' = [left EXCEPT ![k] = -1] /\ UNCHANGED <<checked, part, stage, reminded, skipped, losses>>
  BY DEF Revoke
<1>2. /\ left \in [Keys -> Nat \union {-1}] /\ checked \in BOOLEAN /\ part \in 0..Parts - 1
      /\ stage \in [Keys -> Stages] /\ skipped \subseteq Keys /\ losses \in Nat
  BY DEF KeyInv, KeyTypeOK
<1>3. ASSUME NEW o \in Keys PROVE left'[o] = left[o] \/ left'[o] = -1
  BY <1>1, <1>2, <1>3
<1>4. ASSUME NEW o \in Keys PROVE StageTold(o)'
  BY <1>1, <1>3, <1>4, KeyFacts, SoonFacts DEF StageTold
<1>5. ASSUME NEW o \in Keys PROVE LastDayTold(o)'
  BY <1>1, <1>3, <1>5, KeyFacts, SoonFacts DEF LastDayTold
<1>6. left' \in [Keys -> Nat \union {-1}]
  BY <1>1, <1>2
<1> QED
  BY <1>1, <1>2, <1>4, <1>5, <1>6, KeyInvFrom

(* The week's reminder and that of the last day come once each and in that   *)
(* order, and no key expires of whose last day nobody was told, unless that  *)
(* reminder reached nobody: however many parts a day has, whenever keys are  *)
(* revoked, and on whatever days nobody can be told.                         *)
THEOREM KeysAreTold == KeySpec => []KeysAreAnnounced
<1>1. KeyInit => KeyInv
  <2> SUFFICES ASSUME KeyInit PROVE KeyInv
    OBVIOUS
  <2>1. left \in [Keys -> Nat] /\ \A k \in Keys : left[k] > 0
    <3>1. {1, Parts + 1, Soon, Soon + 2} \subseteq Nat \ {0}
      BY SoonFacts
    <3> QED
      BY <3>1 DEF KeyInit
  <2>2. checked = FALSE /\ part = 0 /\ stage = [k \in Keys |-> "none"] /\ skipped = {} /\ losses = 0
        /\ reminded = [k \in Keys |-> Unsaid]
    BY DEF KeyInit, Unsaid
  <2>3. KeyTypeOK
    <3>1. left \in [Keys -> Nat \union {-1}]
      BY <2>1
    <3>2. part \in 0..Parts - 1 /\ stage \in [Keys -> Stages]
      BY <2>2, SoonFacts DEF Stages
    <3> QED
      BY <2>2, <3>1, <3>2 DEF KeyTypeOK
  <2>4. \A k \in Keys : StageTold(k)
    BY <2>2 DEF StageTold
  <2>5. \A k \in Keys : LastDayTold(k)
    BY <2>1, <2>2 DEF LastDayTold
  <2> QED
    BY <2>3, <2>4, <2>5 DEF KeyInv
<1>2. KeyInv /\ [KeyNext]_KeyVars => KeyInv'
  <2> SUFFICES ASSUME KeyInv, [KeyNext]_KeyVars PROVE KeyInv'
    OBVIOUS
  <2>1. CASE UNCHANGED KeyVars
    <3>1. UNCHANGED <<left, checked, part, stage, reminded, skipped, losses>>
      BY <2>1 DEF KeyVars
    <3>2. (\A k \in Keys : StageTold(k)') /\ KeyTypeOK'
      BY <3>1 DEF KeyInv, KeyTypeOK, StageTold
    <3>3. \A k \in Keys : LastDayTold(k)'
      BY <3>1 DEF KeyInv, LastDayTold
    <3> QED
      BY <3>2, <3>3 DEF KeyInv
  <2> QED
    BY <2>1, RevokeKeeps, CheckKeysKeeps, KeyTickKeeps DEF KeyNext
<1>3. KeyInv => KeysAreAnnounced
  <2> SUFFICES ASSUME KeyInv, NEW k \in Keys
               PROVE  /\ reminded[k] \in {Unsaid, OnlyWeek, OnlyLast, Both}
                      /\ left[k] = 0 /\ k \notin skipped => reminded[k] \in {OnlyLast, Both}
    BY Zenon DEF KeysAreAnnounced, Unsaid, OnlyWeek, OnlyLast, Both
  <2>1. reminded[k] \in {Unsaid, OnlyWeek, OnlyLast, Both}
    BY KeyFacts DEF StageTold
  <2>2. left[k] = 0 /\ k \notin skipped => reminded[k] \in {OnlyLast, Both}
    BY KeyFacts, SoonFacts DEF LastDayTold
  <2> QED
    BY <2>1, <2>2
<1> QED
  BY <1>1, <1>2, <1>3, PTL DEF KeySpec

(* The stalled collectors and the expiring keys, which the service watches  *)
(* at the same time.                                                        *)
THEOREM AlertsGoOut == StallSpec /\ KeySpec => []AlertsAreTold
<1>1. ToldOnceADay /\ KeysAreAnnounced => AlertsAreTold
  BY DEF AlertsAreTold
<1> QED
  BY <1>1, StallsAreTold, KeysAreTold, PTL

-----------------------------------------------------------------------------
(* Backups                                                                   *)

BackupSpec == BackupInit /\ [][BackupNext]_BackupVars

Instants == 0..LastInstant

BackupJobs ==
  [phase : {"idle", "copy", "pack", "replace", "prune"}, stamp : Instants, full : BOOLEAN,
   keep : Nat, rows : SUBSET ReportFiles, todo : SUBSET ReportFiles, files : SUBSET ReportFiles]

BackupFiles ==
  [stamp : Instants, full : BOOLEAN, rows : SUBSET ReportFiles, files : SUBSET ReportFiles, done : Instants]

BackupTypeOK ==
  /\ instant \in Instants
  /\ report \in [ReportFiles -> {"none", "written", "kept", "expired", "gone"}]
  /\ since \in [ReportFiles -> 0..LastInstant + 1] /\ until \in [ReportFiles -> 0..LastInstant + 1]
  /\ archives \subseteq BackupFiles
  /\ making \in [Makers -> BackupJobs]
  /\ begun \in Nat
  /\ newest \in [BOOLEAN -> Instants \union {-1}]

\* The times of a report, and how far it has come
Dated(r) ==
  /\ IF report[r] \in {"none", "written"} THEN since[r] = LastInstant + 1 ELSE since[r] <= instant
  /\ IF report[r] \in {"expired", "gone"} THEN until[r] <= instant ELSE until[r] = LastInstant + 1

\* The rows of a copy, as they would be judged if the backup were done at t
HoldsRows(b, t) ==
  /\ \A r \in ReportFiles : since[r] < b.stamp /\ until[r] > t => r \in b.rows
  /\ \A r \in b.rows : report[r] \notin {"none", "written"}

\* A backup that is finished, and one that is being made
FinishedOK(b) ==
  /\ b.stamp <= instant /\ b.done <= instant
  /\ HoldsRows(b, b.done)
  /\ b.full => \A r \in b.rows : r \in b.files \/ until[r] <= b.done

UnderwayOK(b) ==
  /\ b.phase # "idle" => b.stamp <= instant
  /\ b.phase \in {"pack", "replace"} => HoldsRows(b, instant)
  /\ b.phase = "pack" => b.full
  /\ b.phase \in {"pack", "replace"} /\ b.full =>
       \A r \in b.rows : r \in b.files \/ until[r] <= instant \/ (b.phase = "pack" /\ r \in b.todo)
  /\ b.phase = "prune" => b.keep > 0

NewestStays ==
  \A full \in BOOLEAN :
    /\ newest[full] >= 0 => \E b \in archives : b.full = full /\ b.stamp = newest[full]
    /\ \A b \in archives : b.full = full => b.stamp <= newest[full]

BackupInv ==
  /\ BackupTypeOK
  /\ \A r \in ReportFiles : Dated(r)
  /\ \A b \in archives : FinishedOK(b)
  /\ \A j \in Makers : UnderwayOK(making[j])
  /\ NewestStays

LEMMA InstantFacts == LastInstant \in Nat /\ Instants \subseteq Nat /\ BackupKeep \in Nat /\ BackupKeep > 0 /\ ReportFiles \subseteq Nat
  BY BackupConstants DEF BackupConstants, Instants

LEMMA NoBackupFacts == NoBackup \in BackupJobs /\ NoBackup.phase = "idle" /\ UnderwayOK(NoBackup)
<1>1. 0 \in Instants
  BY InstantFacts DEF Instants
<1>2. NoBackup.phase = "idle"
  BY DEF NoBackup
<1> QED
  BY <1>1, <1>2 DEF NoBackup, BackupJobs, UnderwayOK

\* The lowest of numbers
LEMMA LeastIsIn == ASSUME NEW S \in SUBSET Nat, S # {} PROVE Min(S) \in S
<1>1. PICK x \in S : \A y \in S : <<y, x>> \notin OpToRel(<, Nat)
  BY NatLessThanWellFounded, WFMin
<1>2. \A y \in S : x <= y
  <2> SUFFICES ASSUME NEW y \in S PROVE x <= y
    OBVIOUS
  <2>1. x \in Nat /\ y \in Nat /\ <<y, x>> \in Nat \X Nat
    OBVIOUS
  <2>2. ~(y < x)
    BY <1>1, <2>1 DEF OpToRel
  <2> QED
    BY <2>1, <2>2
<1> QED
  BY <1>2 DEF Min

LEMMA GreaterOfTwo == ASSUME NEW a \in Int, NEW b \in Int PROVE Max({a, b}) = IF a >= b THEN a ELSE b
<1>1. PICK m : m = IF a >= b THEN a ELSE b
  OBVIOUS
<1>2. m \in {a, b} /\ \A x \in {a, b} : m >= x
  BY <1>1
<1>3. PICK n : n = Max({a, b})
  OBVIOUS
<1>4. n \in {a, b} /\ \A x \in {a, b} : n >= x
  BY <1>2, <1>3 DEF Max
<1> QED
  BY <1>1, <1>2, <1>3, <1>4

\* Reports that come and go while the backups stay as they are
LEMMA JudgedAlike ==
  ASSUME BackupInv, UNCHANGED <<instant, archives, making, begun, newest>>,
         report' \in [ReportFiles -> {"none", "written", "kept", "expired", "gone"}],
         since' \in [ReportFiles -> 0..LastInstant + 1], until' \in [ReportFiles -> 0..LastInstant + 1],
         \A r \in ReportFiles : Dated(r)',
         \A r \in ReportFiles : since'[r] # since[r] => since'[r] = instant,
         \A r \in ReportFiles : until'[r] # until[r] => until[r] = LastInstant + 1 /\ until'[r] = instant,
         \A r \in ReportFiles : report[r] \notin {"none", "written"} => report'[r] \notin {"none", "written"}
  PROVE  BackupInv'
<1>1. LastInstant \in Nat /\ instant \in Nat /\ instant <= LastInstant
  BY InstantFacts DEF BackupInv, BackupTypeOK, Instants
<1>2. ASSUME NEW b, NEW t \in Nat, b.stamp \in Nat, b.stamp <= instant, t <= instant, b.rows \subseteq ReportFiles,
             HoldsRows(b, t)
      PROVE  HoldsRows(b, t)'
  <2>1. ASSUME NEW r \in ReportFiles, since'[r] < b.stamp, until'[r] > t PROVE r \in b.rows
    BY <1>1, <1>2, <2>1 DEF HoldsRows
  <2> QED
    BY <1>2, <2>1 DEF HoldsRows
<1>3. ASSUME NEW b \in archives PROVE FinishedOK(b)'
  <2>1. b \in BackupFiles /\ FinishedOK(b)
    BY DEF BackupInv, BackupTypeOK
  <2>2. b.stamp \in Nat /\ b.done \in Nat /\ b.rows \subseteq ReportFiles
    BY <2>1, InstantFacts DEF BackupFiles
  <2>3. HoldsRows(b, b.done)'
    BY <1>2, <2>1, <2>2 DEF FinishedOK
  <2>4. \A r \in b.rows : until[r] <= b.done => until'[r] = until[r]
    BY <1>1, <2>1, <2>2 DEF FinishedOK
  <2> QED
    BY <2>1, <2>2, <2>3, <2>4 DEF FinishedOK
<1>4. ASSUME NEW j \in Makers PROVE UnderwayOK(making[j])'
  <2>1. making[j] \in BackupJobs /\ UnderwayOK(making[j])
    BY DEF BackupInv, BackupTypeOK
  <2>2. making[j].stamp \in Nat /\ making[j].rows \subseteq ReportFiles
    BY <2>1, InstantFacts DEF BackupJobs
  <2>3. making[j].phase \in {"pack", "replace"} => HoldsRows(making[j], instant)'
    BY <1>1, <1>2, <2>1, <2>2 DEF UnderwayOK
  <2>4. \A r \in making[j].rows : until[r] <= instant => until'[r] <= instant
    BY <1>1, <2>2
  <2> QED
    BY <2>1, <2>2, <2>3, <2>4 DEF UnderwayOK, HoldsRows
<1>5. NewestStays'
  BY DEF BackupInv, NewestStays
<1> QED
  BY <1>3, <1>4, <1>5 DEF BackupInv, BackupTypeOK

LEMMA ReportsKeep ==
  ASSUME BackupInv, NEW r \in ReportFiles, FinishReport(r) \/ PurgeReport(r)
  PROVE  BackupInv'
<1>1. LastInstant \in Nat /\ instant \in Nat /\ instant <= LastInstant
  BY InstantFacts DEF BackupInv, BackupTypeOK, Instants
<1>2. /\ report \in [ReportFiles -> {"none", "written", "kept", "expired", "gone"}]
      /\ since \in [ReportFiles -> 0..LastInstant + 1] /\ until \in [ReportFiles -> 0..LastInstant + 1]
      /\ \A o \in ReportFiles : Dated(o)
  BY DEF BackupInv, BackupTypeOK
<1>3. UNCHANGED <<instant, archives, making, begun, newest>>
  BY DEF FinishReport, PurgeReport
<1>4. CASE FinishReport(r)
  <2>1. /\ report[r] \in {"none", "written"} /\ until' = until
        /\ report' = [report EXCEPT ![r] = IF @ = "none" THEN "written" ELSE "kept"]
        /\ since' = IF report[r] = "written" THEN [since EXCEPT ![r] = instant] ELSE since
    BY <1>4 DEF FinishReport
  <2>2. /\ report' \in [ReportFiles -> {"none", "written", "kept", "expired", "gone"}]
        /\ since' \in [ReportFiles -> 0..LastInstant + 1]
    BY <1>1, <1>2, <2>1
  <2>3. \A o \in ReportFiles : Dated(o)'
    BY <1>1, <1>2, <1>3, <2>1 DEF Dated
  <2> QED
    BY <1>1, <1>2, <1>3, <2>1, <2>2, <2>3, JudgedAlike
<1>5. CASE PurgeReport(r)
  <2>1. /\ report[r] \in {"kept", "expired"} /\ since' = since
        /\ report' = [report EXCEPT ![r] = IF @ = "kept" THEN "expired" ELSE "gone"]
        /\ until' = IF report[r] = "kept" THEN [until EXCEPT ![r] = instant] ELSE until
    BY <1>5 DEF PurgeReport
  <2>2. /\ report' \in [ReportFiles -> {"none", "written", "kept", "expired", "gone"}]
        /\ until' \in [ReportFiles -> 0..LastInstant + 1]
    BY <1>1, <1>2, <2>1
  <2>3. \A o \in ReportFiles : Dated(o)'
    BY <1>1, <1>2, <1>3, <2>1 DEF Dated
  <2>4. \A o \in ReportFiles : until'[o] # until[o] => until[o] = LastInstant + 1 /\ until'[o] = instant
    BY <1>2, <2>1 DEF Dated
  <2> QED
    BY <1>1, <1>2, <1>3, <2>1, <2>2, <2>3, <2>4, JudgedAlike
<1> QED
  BY <1>4, <1>5

\* A maker that goes on, without a change to the archives
LEMMA MakerMoves ==
  ASSUME BackupInv, NEW j \in Makers, NEW b \in BackupJobs, UnderwayOK(b),
         making' = [making EXCEPT ![j] = b], begun' \in Nat,
         UNCHANGED <<instant, report, since, until, archives, newest>>
  PROVE  BackupInv'
<1>1. making' \in [Makers -> BackupJobs] /\ \A i \in Makers : making'[i] = b \/ making'[i] = making[i]
  BY DEF BackupInv, BackupTypeOK
<1>2. \A i \in Makers : UnderwayOK(making[i])
  BY DEF BackupInv
<1>3. \A i \in Makers : UnderwayOK(making[i])'
  BY <1>1, <1>2 DEF UnderwayOK, HoldsRows
<1>4. \A r \in ReportFiles : Dated(r)'
  BY DEF BackupInv, Dated
<1>5. (\A a \in archives : FinishedOK(a)') /\ NewestStays'
  BY DEF BackupInv, FinishedOK, HoldsRows, NewestStays
<1>6. BackupTypeOK'
  BY <1>1 DEF BackupInv, BackupTypeOK
<1> QED
  BY <1>3, <1>4, <1>5, <1>6 DEF BackupInv

LEMMA BeginKeeps ==
  ASSUME BackupInv, NEW j \in Makers, NEW full \in BOOLEAN, NEW keep \in {0, BackupKeep}, BeginBackup(j, full, keep)
  PROVE  BackupInv'
<1> DEFINE b == [NoBackup EXCEPT !.phase = "copy", !.stamp = instant, !.full = full, !.keep = keep]
<1>1. making' = [making EXCEPT ![j] = b] /\ begun' = begun + 1
      /\ UNCHANGED <<instant, report, since, until, archives, newest>>
  BY DEF BeginBackup
<1>2. instant \in Instants /\ instant \in Nat /\ begun \in Nat /\ keep \in Nat
  BY InstantFacts DEF BackupInv, BackupTypeOK
<1>3. b \in BackupJobs /\ b.phase = "copy" /\ b.stamp = instant
  BY <1>2, NoBackupFacts DEF BackupJobs
<1>4. UnderwayOK(b)
  <2> HIDE DEF b
  <2> QED
    BY <1>2, <1>3 DEF UnderwayOK
<1>5. begun' \in Nat /\ b \in BackupJobs /\ making' = [making EXCEPT ![j] = b]
  BY <1>1, <1>2, <1>3
<1> HIDE DEF b
<1> QED
  BY <1>1, <1>4, <1>5, MakerMoves

\* Whoever fails or is done leaves nothing behind
LEMMA FailKeeps ==
  ASSUME BackupInv, NEW j \in Makers, making' = [making EXCEPT ![j] = NoBackup],
         UNCHANGED <<instant, report, since, until, archives, begun, newest>>
  PROVE  BackupInv'
  BY NoBackupFacts, MakerMoves DEF BackupInv, BackupTypeOK

LEMMA CopyKeeps ==
  ASSUME BackupInv, NEW j \in Makers, CopyDatabase(j)
  PROVE  BackupInv'
<1> DEFINE o == making[j]
           held == {r \in ReportFiles : report[r] = "kept"}
           next == IF o.full THEN "pack" ELSE "replace"
           b == [o EXCEPT !.phase = next, !.rows = held, !.todo = ReportFiles]
<1>1. o \in BackupJobs /\ o.phase = "copy" /\ UnderwayOK(o) /\ held \subseteq ReportFiles
  BY DEF CopyDatabase, BackupInv, BackupTypeOK
<1>2. making' = [making EXCEPT ![j] = b] /\ UNCHANGED <<instant, report, since, until, archives, begun, newest>>
  BY DEF CopyDatabase, BackupInv, BackupTypeOK
<1>3. /\ b \in BackupJobs /\ b.phase = next /\ b.rows = held /\ b.todo = ReportFiles /\ b.stamp = o.stamp
      /\ b.full = o.full /\ o.full \in BOOLEAN /\ o.stamp \in Nat /\ instant \in Nat /\ instant <= LastInstant
      /\ o.stamp <= instant
  <2>1. o.stamp <= instant
    BY <1>1 DEF UnderwayOK
  <2>2. instant \in Nat /\ instant <= LastInstant
    BY InstantFacts DEF BackupInv, BackupTypeOK, Instants
  <2>3. o.full \in BOOLEAN /\ o.stamp \in Nat /\ next \in {"pack", "replace"}
    BY <1>1, InstantFacts DEF BackupJobs
  <2> HIDE DEF held, next
  <2> QED
    BY <1>1, <2>1, <2>2, <2>3 DEF BackupJobs
<1>4. HoldsRows(b, instant)
  <2>1. ASSUME NEW r \in ReportFiles, since[r] < b.stamp, until[r] > instant PROVE report[r] = "kept"
    <3>1. Dated(r) /\ report[r] \in {"none", "written", "kept", "expired", "gone"}
      BY DEF BackupInv, BackupTypeOK
    <3>2. until[r] \in Nat /\ LastInstant \in Nat
      BY InstantFacts DEF BackupInv, BackupTypeOK
    <3>3. report[r] \notin {"none", "written"}
      BY <1>3, <2>1, <3>1, <3>2 DEF Dated
    <3>4. report[r] \notin {"expired", "gone"}
      BY <1>3, <2>1, <3>1, <3>2 DEF Dated
    <3> QED
      BY <3>1, <3>3, <3>4
  <2> HIDE DEF b
  <2> QED
    BY <1>3, <2>1 DEF HoldsRows
<1>5. UnderwayOK(b)
  <2> HIDE DEF b
  <2> QED
    BY <1>1, <1>3, <1>4 DEF UnderwayOK
<1> HIDE DEF b
<1>6. begun \in Nat
  BY DEF BackupInv, BackupTypeOK
<1> QED
  BY <1>2, <1>3, <1>5, <1>6, MakerMoves

LEMMA PackKeeps ==
  ASSUME BackupInv, NEW j \in Makers, PackReport(j)
  PROVE  BackupInv'
<1> DEFINE o == making[j]
           r == Min(o.todo)
<1>1. o \in BackupJobs /\ o.phase = "pack" /\ UnderwayOK(o) /\ begun \in Nat
      /\ UNCHANGED <<instant, report, since, until, archives, begun, newest>>
  BY DEF PackReport, BackupInv, BackupTypeOK
<1>2. /\ o.full = TRUE /\ o.stamp \in Nat /\ o.stamp <= instant /\ o.rows \subseteq ReportFiles /\ o.todo \subseteq ReportFiles
      /\ o.files \subseteq ReportFiles /\ HoldsRows(o, instant)
      /\ \A x \in o.rows : x \in o.files \/ until[x] <= instant \/ x \in o.todo
  BY <1>1, InstantFacts DEF UnderwayOK, BackupJobs
<1>3. CASE o.todo = {} /\ making' = [making EXCEPT ![j].phase = "replace"]
  <2> DEFINE b == [o EXCEPT !.phase = "replace"]
  <2>1. making' = [making EXCEPT ![j] = b]
    BY <1>3 DEF BackupInv, BackupTypeOK
  <2>2. /\ b \in BackupJobs /\ b.phase = "replace" /\ b.stamp = o.stamp /\ b.full = o.full /\ b.rows = o.rows
        /\ b.files = o.files
    BY <1>1 DEF BackupJobs
  <2> HIDE DEF b
  <2>3. UnderwayOK(b)
    BY <1>2, <1>3, <2>2 DEF UnderwayOK, HoldsRows
  <2> QED
    BY <1>1, <2>1, <2>2, <2>3, MakerMoves
<1>4. CASE o.todo # {} /\ OnDisk(r) /\ making' = [making EXCEPT ![j].todo = @ \ {r}, ![j].files = @ \union {r}]
  <2> DEFINE b == [o EXCEPT !.todo = @ \ {r}, !.files = @ \union {r}]
  <2>1. making' = [making EXCEPT ![j] = b]
    BY <1>4 DEF BackupInv, BackupTypeOK
  <2>2. r \in ReportFiles
    BY <1>2, <1>4, LeastIsIn, InstantFacts
  <2> HIDE DEF r
  <2>3. /\ b \in BackupJobs /\ b.phase = "pack" /\ b.stamp = o.stamp /\ b.full = o.full /\ b.rows = o.rows
        /\ b.files = o.files \union {r} /\ b.todo = o.todo \ {r}
    BY <1>1, <2>2 DEF BackupJobs
  <2> HIDE DEF b
  <2>4. UnderwayOK(b)
    BY <1>2, <2>3 DEF UnderwayOK, HoldsRows
  <2> QED
    BY <1>1, <2>1, <2>3, <2>4, MakerMoves
<1>5. CASE o.todo # {} /\ ~OnDisk(r) /\ making' = [making EXCEPT ![j].todo = @ \ {r}]
  <2> DEFINE b == [o EXCEPT !.todo = @ \ {r}]
  <2>1. making' = [making EXCEPT ![j] = b]
    BY <1>5 DEF BackupInv, BackupTypeOK
  <2>2. r \in ReportFiles
    BY <1>2, <1>5, LeastIsIn, InstantFacts
  <2>3. r \in o.rows => until[r] <= instant
    <3>1. Dated(r) /\ report[r] \in {"none", "written", "kept", "expired", "gone"}
      BY <2>2 DEF BackupInv, BackupTypeOK
    <3>2. r \in o.rows => report[r] = "gone"
      BY <1>2, <1>5, <3>1 DEF OnDisk, HoldsRows
    <3> QED
      BY <3>1, <3>2 DEF Dated
  <2> HIDE DEF r
  <2>4. /\ b \in BackupJobs /\ b.phase = "pack" /\ b.stamp = o.stamp /\ b.full = o.full /\ b.rows = o.rows
        /\ b.files = o.files /\ b.todo = o.todo \ {r}
    BY <1>1, <2>2 DEF BackupJobs
  <2> HIDE DEF b
  <2>5. UnderwayOK(b)
    BY <1>2, <2>3, <2>4 DEF UnderwayOK, HoldsRows
  <2> QED
    BY <1>1, <2>1, <2>4, <2>5, MakerMoves
<1>6. CASE making' = [making EXCEPT ![j] = NoBackup]
  BY <1>1, <1>6, FailKeeps
<1> QED
  BY <1>3, <1>4, <1>5, <1>6 DEF PackReport

\* A backup that gets its name
LEMMA ReplaceKeeps ==
  ASSUME BackupInv, NEW j \in Makers, ReplaceBackup(j)
  PROVE  BackupInv'
<1> DEFINE b == making[j]
           a == [stamp |-> b.stamp, full |-> b.full, rows |-> b.rows, files |-> b.files, done |-> instant]
           n == IF b.keep > 0 THEN [b EXCEPT !.phase = "prune"] ELSE NoBackup
<1>1. /\ b \in BackupJobs /\ b.phase = "replace" /\ UnderwayOK(b) /\ instant \in Instants /\ instant \in Nat
      /\ archives' = {x \in archives : x.full # b.full \/ x.stamp # b.stamp} \union {a}
      /\ newest' = [newest EXCEPT ![b.full] = Max({@, b.stamp})]
      /\ making' = [making EXCEPT ![j] = n]
      /\ UNCHANGED <<instant, report, since, until, begun>>
  BY InstantFacts DEF ReplaceBackup, BackupInv, BackupTypeOK
<1>2. b.full \in BOOLEAN /\ b.stamp \in Instants /\ b.stamp \in Nat /\ b.stamp <= instant
  BY <1>1, InstantFacts DEF BackupJobs, UnderwayOK
<1>3. a \in BackupFiles /\ a.stamp = b.stamp /\ a.full = b.full /\ a.done = instant /\ a.rows = b.rows /\ a.files = b.files
  BY <1>1, <1>2 DEF BackupFiles, BackupJobs
<1>4. FinishedOK(a)
  <2> HIDE DEF a
  <2> QED
    BY <1>1, <1>2, <1>3 DEF FinishedOK, UnderwayOK, HoldsRows
<1>5. n \in BackupJobs /\ UnderwayOK(n)
  <2>1. CASE b.keep > 0
    <3>1. n \in BackupJobs /\ n.phase = "prune" /\ n.stamp = b.stamp /\ n.keep = b.keep
      BY <1>1, <2>1 DEF BackupJobs
    <3> HIDE DEF n
    <3> QED
      BY <1>2, <2>1, <3>1 DEF UnderwayOK
  <2>2. CASE ~(b.keep > 0)
    BY <2>2, NoBackupFacts
  <2> QED
    BY <2>1, <2>2
<1> HIDE DEF a, n
<1>6. making' \in [Makers -> BackupJobs] /\ \A i \in Makers : making'[i] = n \/ making'[i] = making[i]
  BY <1>1, <1>5 DEF BackupInv, BackupTypeOK
<1>7. \A i \in Makers : UnderwayOK(making[i])'
  BY <1>1, <1>5, <1>6 DEF BackupInv, UnderwayOK, HoldsRows
<1>8. \A x \in archives' : x \in BackupFiles /\ FinishedOK(x)'
  BY <1>1, <1>3, <1>4 DEF BackupInv, BackupTypeOK, FinishedOK, HoldsRows
<1>9. PICK m : m = newest[b.full]
  OBVIOUS
<1>10. m \in Instants \union {-1} /\ m \in Int
  BY <1>2, <1>9, InstantFacts DEF BackupInv, BackupTypeOK
<1>11. /\ newest'[b.full] = (IF m >= b.stamp THEN m ELSE b.stamp)
       /\ \A full \in BOOLEAN : full # b.full => newest'[full] = newest[full]
       /\ newest' \in [BOOLEAN -> Instants \union {-1}]
  <2>1. Max({m, b.stamp}) = IF m >= b.stamp THEN m ELSE b.stamp
    BY <1>2, <1>10, GreaterOfTwo
  <2>2. newest' = [newest EXCEPT ![b.full] = IF m >= b.stamp THEN m ELSE b.stamp]
    BY <1>1, <1>9, <2>1
  <2> QED
    BY <1>2, <1>10, <2>2 DEF BackupInv, BackupTypeOK
<1>12. ASSUME NEW full \in BOOLEAN
       PROVE  /\ newest'[full] >= 0 => \E x \in archives' : x.full = full /\ x.stamp = newest'[full]
              /\ \A x \in archives' : x.full = full => x.stamp <= newest'[full]
  <2>1. /\ newest[full] >= 0 => \E x \in archives : x.full = full /\ x.stamp = newest[full]
        /\ \A x \in archives : x.full = full => x.stamp <= newest[full]
    BY DEF BackupInv, NewestStays
  <2>2. a \in archives'
    BY <1>1
  <2>3. CASE full # b.full
    BY <1>1, <1>3, <1>11, <2>1, <2>3
  <2>4. CASE full = b.full
    <3>1. ASSUME NEW x \in archives', x.full = full PROVE x.stamp <= newest'[full]
      <4>1. CASE x = a
        BY <1>2, <1>3, <1>10, <1>11, <2>4, <4>1
      <4>2. CASE x \in archives
        <5>1. x.stamp <= m /\ x.stamp \in Nat
          BY <1>9, <2>1, <2>4, <3>1, <4>2, InstantFacts DEF BackupInv, BackupTypeOK, BackupFiles
        <5> QED
          BY <1>2, <1>10, <1>11, <2>4, <5>1
      <4> QED
        BY <1>1, <4>1, <4>2
    <3>2. \E x \in archives' : x.full = full /\ x.stamp = newest'[full]
      <4>1. CASE m > b.stamp
        <5>1. PICK x \in archives : x.full = full /\ x.stamp = m
          BY <1>2, <1>9, <1>10, <2>1, <2>4, <4>1
        <5>2. x \in archives'
          BY <1>1, <1>2, <1>10, <4>1, <5>1
        <5> QED
          BY <1>2, <1>10, <1>11, <2>4, <4>1, <5>1, <5>2
      <4>2. CASE ~(m > b.stamp)
        BY <1>2, <1>3, <1>10, <1>11, <2>2, <2>4, <4>2
      <4> QED
        BY <4>1, <4>2
    <3> QED
      BY <3>1, <3>2
  <2> QED
    BY <2>3, <2>4
<1>13. NewestStays'
  BY <1>12 DEF NewestStays
<1>14. \A r \in ReportFiles : Dated(r)'
  BY <1>1 DEF BackupInv, Dated
<1>15. BackupTypeOK'
  BY <1>1, <1>6, <1>8, <1>11 DEF BackupInv, BackupTypeOK
<1> QED
  BY <1>7, <1>8, <1>13, <1>14, <1>15 DEF BackupInv

\* The newest of a kind is among those kept, whatever the others are
LEMMA PruneKeeps ==
  ASSUME BackupInv, NEW j \in Makers, PruneBackups(j)
  PROVE  BackupInv'
<1> DEFINE b == making[j]
           same == {a \in archives : a.full = b.full}
<1>1. /\ b \in BackupJobs /\ b.phase = "prune" /\ b.keep > 0 /\ b.keep \in Nat
      /\ archives' = (archives \ same) \union NewestOf(same, b.keep)
      /\ making' = [making EXCEPT ![j] = NoBackup]
      /\ UNCHANGED <<instant, report, since, until, begun, newest>>
  BY DEF PruneBackups, BackupInv, BackupTypeOK, UnderwayOK, BackupJobs
<1>2. archives' \subseteq archives
  BY <1>1 DEF NewestOf
<1>3. ASSUME NEW full \in BOOLEAN, newest[full] >= 0
      PROVE  \E a \in archives' : a.full = full /\ a.stamp = newest[full]
  <2>1. PICK a \in archives : a.full = full /\ a.stamp = newest[full]
    BY <1>3 DEF BackupInv, NewestStays
  <2>2. CASE full # b.full
    BY <1>1, <2>1, <2>2
  <2>3. CASE full = b.full
    <3>1. a \in same
      BY <2>1, <2>3
    <3>2. ASSUME NEW x \in same PROVE ~(x.stamp > a.stamp)
      <4>1. x.stamp <= newest[full] /\ x.stamp \in Nat /\ a.stamp \in Nat
        BY <2>1, <2>3, <3>2, InstantFacts DEF BackupInv, BackupTypeOK, NewestStays, BackupFiles
      <4> QED
        BY <2>1, <4>1
    <3>3. {x \in same : x.stamp > a.stamp} = {}
      BY <3>2
    <3>4. Cardinality({x \in same : x.stamp > a.stamp}) < b.keep
      BY <1>1, <3>3, FS_EmptySet
    <3>5. a \in NewestOf(same, b.keep)
      BY <3>1, <3>4 DEF NewestOf
    <3> QED
      BY <1>1, <2>1, <3>5
  <2> QED
    BY <2>2, <2>3
<1>4. making' \in [Makers -> BackupJobs] /\ \A i \in Makers : making'[i] = NoBackup \/ making'[i] = making[i]
  BY <1>1, NoBackupFacts DEF BackupInv, BackupTypeOK
<1>5. \A i \in Makers : UnderwayOK(making[i])'
  BY <1>1, <1>4, NoBackupFacts DEF BackupInv, UnderwayOK, HoldsRows
<1>6. \A a \in archives' : FinishedOK(a)'
  BY <1>1, <1>2 DEF BackupInv, FinishedOK, HoldsRows
<1>7. NewestStays'
  BY <1>1, <1>2, <1>3 DEF BackupInv, NewestStays
<1>8. \A r \in ReportFiles : Dated(r)'
  BY <1>1 DEF BackupInv, Dated
<1>9. BackupTypeOK'
  BY <1>1, <1>2, <1>4 DEF BackupInv, BackupTypeOK
<1> QED
  BY <1>5, <1>6, <1>7, <1>8, <1>9 DEF BackupInv

LEMMA InstantKeeps == ASSUME BackupInv, InstantPasses PROVE BackupInv'
<1>1. /\ LastInstant \in Nat /\ instant \in Nat /\ instant' = instant + 1 /\ instant' \in Instants
      /\ UNCHANGED <<report, since, until, archives, making, begun, newest>>
  BY InstantFacts DEF InstantPasses, BackupInv, BackupTypeOK, Instants
<1>2. ASSUME NEW r \in ReportFiles PROVE Dated(r)' /\ since[r] \in Nat /\ until[r] \in Nat
  <2>1. Dated(r) /\ since[r] \in Nat /\ until[r] \in Nat
    BY <1>1 DEF BackupInv, BackupTypeOK
  <2> QED
    BY <1>1, <2>1 DEF Dated
<1>3. ASSUME NEW a \in archives PROVE FinishedOK(a)'
  <2>1. FinishedOK(a) /\ a.stamp \in Nat /\ a.done \in Nat
    BY InstantFacts DEF BackupInv, BackupTypeOK, BackupFiles
  <2> QED
    BY <1>1, <2>1 DEF FinishedOK, HoldsRows
<1>4. ASSUME NEW i \in Makers PROVE UnderwayOK(making[i])'
  <2>1. UnderwayOK(making[i]) /\ making[i].stamp \in Nat /\ making[i].rows \subseteq ReportFiles
    BY InstantFacts DEF BackupInv, BackupTypeOK, BackupJobs
  <2>2. \A r \in ReportFiles : until[r] > instant' => until[r] > instant
    BY <1>1, <1>2
  <2>3. \A r \in ReportFiles : until[r] <= instant => until[r] <= instant'
    BY <1>1, <1>2
  <2>4. making[i].stamp <= instant => making[i].stamp <= instant'
    BY <1>1, <2>1
  <2> QED
    BY <1>1, <2>1, <2>2, <2>3, <2>4 DEF UnderwayOK, HoldsRows
<1>5. BackupTypeOK' /\ NewestStays'
  BY <1>1 DEF BackupInv, BackupTypeOK, NewestStays
<1> QED
  BY <1>1, <1>2, <1>3, <1>4, <1>5 DEF BackupInv

(* Every backup can be brought back: it has the rows of the reports that    *)
(* were there, a full one their files but for those purged while it was     *)
(* made, and the newest of each kind outlives every pruning - whoever makes *)
(* backups beside whom, and wherever one fails.                             *)
THEOREM BackupsCanRestore == BackupSpec => []BackupsRestore
<1>1. BackupInit => BackupInv
  <2> SUFFICES ASSUME BackupInit PROVE BackupInv
    OBVIOUS
  <2>1. instant = 0 /\ LastInstant \in Nat
    BY InstantFacts DEF BackupInit
  <2>2. BackupTypeOK
    BY <2>1, NoBackupFacts DEF BackupInit, BackupTypeOK, Instants
  <2>3. \A r \in ReportFiles : Dated(r)
    BY DEF BackupInit, Dated
  <2>4. \A j \in Makers : UnderwayOK(making[j])
    BY NoBackupFacts DEF BackupInit
  <2>5. NewestStays
    BY DEF BackupInit, NewestStays
  <2> QED
    BY <2>2, <2>3, <2>4, <2>5 DEF BackupInit, BackupInv
<1>2. BackupInv /\ [BackupNext]_BackupVars => BackupInv'
  <2> SUFFICES ASSUME BackupInv, [BackupNext]_BackupVars PROVE BackupInv'
    OBVIOUS
  <2>1. CASE UNCHANGED BackupVars
    BY <2>1 DEF BackupVars, BackupInv, BackupTypeOK, Dated, FinishedOK, UnderwayOK, HoldsRows, NewestStays
  <2>2. ASSUME NEW j \in Makers, BackupFails(j) PROVE BackupInv'
    BY <2>2, FailKeeps DEF BackupFails
  <2> QED
    BY <2>1, <2>2, ReportsKeep, BeginKeeps, CopyKeeps, PackKeeps, ReplaceKeeps, PruneKeeps, InstantKeeps DEF BackupNext
<1>3. BackupInv => BackupsRestore
  BY DEF BackupInv, NewestStays, FinishedOK, HoldsRows, BackupsRestore
<1> QED
  BY <1>1, <1>2, <1>3, PTL DEF BackupSpec

-----------------------------------------------------------------------------
(* The vendors a tenant protects                                             *)

VendorSpec == VendorInit /\ [][VendorNext]_VendorVars

MailOK == convicted \subseteq Outside \X Hosts

\* Whatever a candidate was seen to do, it is an organisational domain
LEMMA CandidatesAreRegs == ASSUME MailOK PROVE Candidates \subseteq Regs
<1>1. ASSUME NEW m \in convicted PROVE Registrable[m[1]] \in Regs /\ Registrable[m[2]] \in Regs
  <2>1. m[1] \in Hosts /\ m[2] \in Hosts
    BY VendorConstants DEF MailOK
  <2> QED
    BY <2>1 DEF Regs
<1> QED
  BY <1>1 DEF Candidates, Senders, ReplyTos

LEMMA ImitatorsSeen == ASSUME MailOK PROVE ImitatorsAreFlagged
<1> SUFFICES ASSUME NEW reg \in Candidates \ (Anchors \union Freemail), Resembles[reg] \intersect Anchors # {}
             PROVE  reg \in Lookalikes /\ reg \notin Compromised
  BY DEF ImitatorsAreFlagged
<1>1. Registrable[reg] = reg
  BY CandidatesAreRegs, VendorConstants DEF Regs
<1>2. LookalikeOf(reg, Anchors) # {}
  BY <1>1 DEF LookalikeOf
<1>3. reg \notin Established
  BY <1>2 DEF Established
<1>4. reg \notin Protected /\ Anchors \subseteq Protected
  BY <1>3 DEF Protected, TopEstablished
<1>5. LookalikeOf(reg, Protected) # {}
  BY <1>1, <1>4 DEF LookalikeOf
<1>6. Flagged(reg)
  BY <1>5 DEF Flagged
<1> QED
  BY <1>3, <1>6 DEF Lookalikes, Compromised, Anchors

(* Whatever a domain resembles and however its mail came in, one that       *)
(* imitates an own domain or a listed vendor is found and counted, whatever *)
(* the limits are (vendor_risk.py:93-95, 222-232): it cannot have become    *)
(* established, so that the report never protects it and never takes it for *)
(* a sender it knows.                                                       *)
THEOREM ImitatorsAreReported == VendorSpec => []ImitatorsAreFlagged
<1>1. VendorInit => MailOK
  BY DEF VendorInit, MailOK
<1>2. MailOK /\ [VendorNext]_VendorVars => MailOK'
  BY DEF MailOK, VendorNext, VendorVars, Deliver, Convict, NextMailDay, NextPeriod
<1>3. MailOK => ImitatorsAreFlagged
  BY ImitatorsSeen
<1> QED
  BY <1>1, <1>2, <1>3, PTL DEF VendorSpec

-----------------------------------------------------------------------------
(* The score of a quarter                                                    *)

LEMMA Divides ==
  ASSUME NEW n \in Int, NEW w \in Int, w > 0, NEW q \in Int, q = n \div w, NEW r \in Int, r = n % w
  PROVE  n = q * w + r
  BY SMT

\* What is rounded to k or more is at least k and a half less
LEMMA RoundedUp ==
  ASSUME NEW n \in Nat, NEW w \in Nat, w > 0, NEW k \in Nat, Rounded(n, w) >= k + 1
  PROVE  2 * n >= (2 * k + 1) * w
<1> DEFINE q == n \div w
           r == n % w
<1>1. q \in Int /\ r \in 0..w - 1
  OBVIOUS
<1>2. Rounded(n, w) = IF 2 * r > w \/ (2 * r = w /\ q % 2 = 1) THEN q + 1 ELSE q
  BY DEF Rounded
<1>3. n = q * w + r
  BY <1>1, Divides
<1> HIDE DEF q, r
<1>4. CASE q >= k + 1
  <2>1. q * w >= (k + 1) * w
    BY <1>1, <1>4
  <2>2. (2 * k + 1) * w <= 2 * ((k + 1) * w)
    OBVIOUS
  <2> QED
    BY <1>1, <1>3, <2>1, <2>2
<1>5. CASE q < k + 1
  <2>1. q = k /\ 2 * r >= w
    BY <1>1, <1>2, <1>5
  <2> QED
    BY <1>1, <1>3, <2>1
<1> QED
  BY <1>1, <1>4, <1>5

\* What a check adds to the weights and to the points
PartOf(status, W, weight) == IF status \in W THEN weight ELSE 0

LEMMA WeightOfIs ==
  ASSUME NEW c, NEW W
  PROVE  WeightOf(c, W) =
           PartOf(c.dmarc, W, 20) + PartOf(c.spf, W, 5) + PartOf(c.tls, W, 5) + PartOf(c.remediated, W, 20)
           + PartOf(c.automatic, W, 10) + PartOf(c.dwell, W, 10) + PartOf(c.allow, W, 10)
           + PartOf(c.logs, W, 10) + PartOf(c.data, W, 5) + PartOf(c.vips, W, 5) + PartOf(c.false, W, 5)
  BY DEF WeightOf, SumOf, Weight, PartOf

LEMMA PointsIs ==
  ASSUME NEW c
  PROVE  Points(c) =
           20 * Factor(c.dmarc) + 5 * Factor(c.spf) + 5 * Factor(c.tls) + 20 * Factor(c.remediated)
           + 10 * Factor(c.automatic) + 10 * Factor(c.dwell) + 10 * Factor(c.allow)
           + 10 * Factor(c.logs) + 5 * Factor(c.data) + 5 * Factor(c.vips) + 5 * Factor(c.false)
  BY DEF Points, SumOf, Weight

Judged == {"ok", "warning", "critical"}

LEMMA FactorMost ==
  ASSUME NEW status
  PROVE  Factor(status) \in 0..2 /\ (status = "critical" => Factor(status) = 0)
         /\ (status \notin Judged => Factor(status) = 0) /\ (status # "ok" => Factor(status) <= 1)
  BY DEF Factor, Judged

\* The checks that need no evidence have always been assessed
LEMMA AlwaysAssessed ==
  ASSUME NEW f \in Facts, NEW c, c = Checks(f)
  PROVE  c.logs \in Judged /\ c.data \in Judged /\ c.vips \in Judged
  BY DEF Checks, AtLeast, Judged

LEMMA NoGradeWithout ==
  ASSUME NEW f \in Facts, Gap \/ f.own = {}
  PROVE  ~Graded(Checks(f))
<1>1. PICK c : c = Checks(f)
  OBVIOUS
<1>2. PICK A : A = Assessed(c)
  OBVIOUS
<1>3. PICK U : U = WeightOf(c, {"unknown"})
  OBVIOUS
<1>4. A = PartOf(c.dmarc, Judged, 20) + PartOf(c.spf, Judged, 5) + PartOf(c.tls, Judged, 5)
          + PartOf(c.remediated, Judged, 20) + PartOf(c.automatic, Judged, 10) + PartOf(c.dwell, Judged, 10)
          + PartOf(c.allow, Judged, 10) + PartOf(c.logs, Judged, 10) + PartOf(c.data, Judged, 5)
          + PartOf(c.vips, Judged, 5) + PartOf(c.false, Judged, 5)
  BY <1>2, WeightOfIs DEF Assessed, Judged
<1>5. U = PartOf(c.dmarc, {"unknown"}, 20) + PartOf(c.spf, {"unknown"}, 5) + PartOf(c.tls, {"unknown"}, 5)
          + PartOf(c.remediated, {"unknown"}, 20) + PartOf(c.automatic, {"unknown"}, 10)
          + PartOf(c.dwell, {"unknown"}, 10) + PartOf(c.allow, {"unknown"}, 10)
          + PartOf(c.logs, {"unknown"}, 10) + PartOf(c.data, {"unknown"}, 5)
          + PartOf(c.vips, {"unknown"}, 5) + PartOf(c.false, {"unknown"}, 5)
  BY <1>3, WeightOfIs
<1>6. PartOf(c.logs, Judged, 10) = 10
  BY <1>1, AlwaysAssessed DEF PartOf
<1>7. A \in Nat /\ U \in Nat /\ A >= 10
  BY <1>4, <1>5, <1>6 DEF PartOf
<1>8. 41 * A < 159 * U
  <2>1. CASE Gap
    <3>1. c.remediated = "unknown" /\ c.automatic = "unknown" /\ c.dwell = "unknown" /\ c.allow = "unknown"
      BY <1>1, <2>1 DEF Checks, AboutThreats
    <3>2. A <= 55
      BY <1>4, <3>1 DEF PartOf, Judged
    <3>3. U >= 50
      BY <1>5, <3>1 DEF PartOf
    <3> QED
      BY <1>7, <3>2, <3>3
  <2>2. CASE f.own = {}
    <3>1. c.dmarc = "unknown" /\ c.spf = "left_out" /\ c.tls = "left_out"
      BY <1>1, <2>2 DEF Checks, DnsChecks
    <3>2. A <= 75
      BY <1>4, <3>1 DEF PartOf, Judged
    <3>3. U >= 20
      BY <1>5, <3>1 DEF PartOf
    <3> QED
      BY <1>7, <3>2, <3>3
  <2> QED
    BY <2>1, <2>2
<1>9. Evidence(c) = Rounded(A * 100, A + U)
  BY <1>2, <1>3 DEF Evidence
<1>10. ASSUME Rounded(A * 100, A + U) >= 79 + 1 PROVE FALSE
  <2>1. 2 * (A * 100) >= (2 * 79 + 1) * (A + U)
    <3>1. A * 100 \in Nat /\ A + U \in Nat /\ A + U > 0
      BY <1>7
    <3> QED
      BY <1>10, <3>1, RoundedUp
  <2> QED
    BY <1>7, <1>8, <2>1
<1> QED
  BY <1>1, <1>9, <1>10 DEF Graded

\* Threats left in the inboxes and a domain open to anybody cost too many points
LEMMA NoGoodGrade ==
  ASSUME NEW f \in Facts, ~Gap, f.own # {}, f.acted < 90, InQuarter # {}, \A c \in f.own : c.dmarc.level = "critical"
  PROVE  ~(Score(Checks(f)) >= 75) /\ ~(Score(Checks(f)) >= 90)
<1>1. PICK c : c = Checks(f)
  OBVIOUS
<1>2. PICK A : A = Assessed(c)
  OBVIOUS
<1>3. PICK P : P = Points(c)
  OBVIOUS
<1>4. A = PartOf(c.dmarc, Judged, 20) + PartOf(c.spf, Judged, 5) + PartOf(c.tls, Judged, 5)
          + PartOf(c.remediated, Judged, 20) + PartOf(c.automatic, Judged, 10) + PartOf(c.dwell, Judged, 10)
          + PartOf(c.allow, Judged, 10) + PartOf(c.logs, Judged, 10) + PartOf(c.data, Judged, 5)
          + PartOf(c.vips, Judged, 5) + PartOf(c.false, Judged, 5)
  BY <1>2, WeightOfIs DEF Assessed, Judged
<1>5. P = 20 * Factor(c.dmarc) + 5 * Factor(c.spf) + 5 * Factor(c.tls) + 20 * Factor(c.remediated)
           + 10 * Factor(c.automatic) + 10 * Factor(c.dwell) + 10 * Factor(c.allow)
           + 10 * Factor(c.logs) + 5 * Factor(c.data) + 5 * Factor(c.vips) + 5 * Factor(c.false)
  BY <1>3, PointsIs
<1>6. c.remediated = "critical"
  <2>1. f.acted \in Int
    BY DEF Facts
  <2> QED
    BY <1>1, <2>1 DEF Checks, AboutThreats, AtLeast
<1>7. c.dmarc \in {"warning", "critical"}
  BY <1>1 DEF Checks, DnsChecks
<1>8. PartOf(c.dmarc, Judged, 20) = 20 /\ PartOf(c.remediated, Judged, 20) = 20
  BY <1>6, <1>7 DEF PartOf, Judged
<1>9. Factor(c.remediated) = 0 /\ 20 * Factor(c.dmarc) <= 20 /\ Factor(c.dmarc) \in Nat
  BY <1>6, <1>7 DEF Factor
<1> DEFINE Small(x) == PartOf(x, Judged, 5) \in 0..5 /\ 5 * Factor(x) \in 0..2 * PartOf(x, Judged, 5)
           Medium(x) == PartOf(x, Judged, 10) \in 0..10 /\ 10 * Factor(x) \in 0..2 * PartOf(x, Judged, 10)
<1>10. \A x : Small(x) /\ Medium(x)
  BY FactorMost DEF PartOf
<1>11. P \in Nat /\ A \in 40..105 /\ P <= 2 * A - 60
  <2> DEFINE Weighs(x, w) == PartOf(x, Judged, w)
             Earns(x, w) == w * Factor(x)
  <2>1. A = 20 + Weighs(c.spf, 5) + Weighs(c.tls, 5) + 20 + Weighs(c.automatic, 10) + Weighs(c.dwell, 10)
            + Weighs(c.allow, 10) + Weighs(c.logs, 10) + Weighs(c.data, 5) + Weighs(c.vips, 5) + Weighs(c.false, 5)
    BY <1>4, <1>8
  <2>2. P = 20 * Factor(c.dmarc) + Earns(c.spf, 5) + Earns(c.tls, 5) + 20 * 0 + Earns(c.automatic, 10)
            + Earns(c.dwell, 10) + Earns(c.allow, 10) + Earns(c.logs, 10) + Earns(c.data, 5) + Earns(c.vips, 5)
            + Earns(c.false, 5)
    BY <1>5, <1>9
  <2>3. \A x : /\ Weighs(x, 5) \in 0..5 /\ Earns(x, 5) \in 0..2 * Weighs(x, 5)
              /\ Weighs(x, 10) \in 0..10 /\ Earns(x, 10) \in 0..2 * Weighs(x, 10)
    BY <1>10
  <2> HIDE DEF Weighs, Earns
  <2>4. A \in 40..105
    <3>1. /\ Weighs(c.spf, 5) \in 0..5 /\ Weighs(c.tls, 5) \in 0..5
          /\ Weighs(c.automatic, 10) \in 0..10 /\ Weighs(c.dwell, 10) \in 0..10
          /\ Weighs(c.allow, 10) \in 0..10 /\ Weighs(c.logs, 10) \in 0..10
          /\ Weighs(c.data, 5) \in 0..5 /\ Weighs(c.vips, 5) \in 0..5 /\ Weighs(c.false, 5) \in 0..5
      BY <2>3
    <3> QED
      BY <2>1, <3>1
  <2>5. P \in Nat
    <3>1. /\ Earns(c.spf, 5) \in Nat /\ Earns(c.tls, 5) \in Nat /\ Earns(c.automatic, 10) \in Nat
          /\ Earns(c.dwell, 10) \in Nat /\ Earns(c.allow, 10) \in Nat /\ Earns(c.logs, 10) \in Nat
          /\ Earns(c.data, 5) \in Nat /\ Earns(c.vips, 5) \in Nat /\ Earns(c.false, 5) \in Nat
      BY <2>3
    <3> QED
      BY <1>9, <2>2, <3>1
  <2>6. P <= 2 * A - 60
    <3>1. \A x : /\ Weighs(x, 5) \in Int /\ Earns(x, 5) \in Int /\ Earns(x, 5) <= 2 * Weighs(x, 5)
                /\ Weighs(x, 10) \in Int /\ Earns(x, 10) \in Int /\ Earns(x, 10) <= 2 * Weighs(x, 10)
      BY <2>3
    <3>2. P <= 20 + 2 * (A - 40)
      BY <1>9, <2>1, <2>2, <3>1, SMTT(60)
    <3> QED
      BY <2>4, <3>2
  <2> QED
    BY <2>4, <2>5, <2>6
<1>12. Score(c) = Rounded(P * 50, A)
  BY <1>2, <1>3 DEF Score
<1>13. ASSUME Rounded(P * 50, A) >= 74 + 1 PROVE FALSE
  <2>1. 2 * (P * 50) >= (2 * 74 + 1) * A
    <3>1. P * 50 \in Nat /\ A \in Nat /\ A > 0
      BY <1>11
    <3> QED
      BY <1>13, <3>1, RoundedUp
  <2> QED
    BY <1>11, <2>1
<1>14. ASSUME Rounded(P * 50, A) >= 89 + 1 PROVE FALSE
  <2>1. 2 * (P * 50) >= (2 * 89 + 1) * A
    <3>1. P * 50 \in Nat /\ A \in Nat /\ A > 0
      BY <1>11
    <3> QED
      BY <1>14, <3>1, RoundedUp
  <2> QED
    BY <1>11, <2>1
<1> QED
  BY <1>1, <1>12, <1>13, <1>14

EffectivenessSpec == EffectivenessInit /\ [][EffectivenessNext]_EffectivenessVars

(* A score counts what is not known as neither good nor bad, and no grade   *)
(* is given on too little: whatever was collected of the quarter, whatever  *)
(* DNS may answer and whatever else the checks find                         *)
(* (posture_effectiveness.py build: weights, Python's round and the limits).*)
THEOREM GradesHaveEvidence == EffectivenessSpec => []GradeNeedsEvidence
<1>1. ASSUME NEW f \in Facts, GradeOf(Checks(f)) # "none"
      PROVE  ~Gap /\ f.own # {}
  BY <1>1, NoGradeWithout DEF GradeOf
<1>2. ASSUME NEW f \in Facts, GradeOf(Checks(f)) \in {"A", "B"}
      PROVE  ~(f.acted < 90 /\ InQuarter # {} /\ \A c \in f.own : c.dmarc.level = "critical")
  <2>1. ~Gap /\ f.own # {}
    BY <1>1, <1>2
  <2>2. Score(Checks(f)) >= 90 \/ Score(Checks(f)) >= 75
    BY <1>2 DEF GradeOf
  <2> QED
    BY <2>1, <2>2, NoGoodGrade
<1>3. GradeNeedsEvidence
  BY <1>1, <1>2 DEF GradeNeedsEvidence
<1> QED
  BY <1>3, PTL
=============================================================================

------------------------- MODULE PlacementLifecycle -------------------------
(***************************************************************************)
(* What a placement drive promises each student it lists                   *)
(* (employee/drive-management/drive-student-status.ts): the statuses, and  *)
(* the only ways from one to another, whoever asks and however the         *)
(* requests interleave.  A batch may take several students at once.        *)
(***************************************************************************)
CONSTANT Students

VARIABLE standing   \* each student's status in the drive

Outcomes == {"not_attended", "selected", "not_selected"}

Standings == {"none", "imported", "invited", "accepted", "denied", "revoked"} \cup Outcomes

\* The only ways out of a status.  The comment there calls denied and revoked
\* terminal, with the outcomes; but DriveStudentsService.invite, as its own comment
\* says, takes both back to invited, and that is what is specified here.  Only a
\* student nobody has contacted can be dropped.
After(s) ==
  IF s = "none" THEN {"imported"}
  ELSE IF s = "imported" THEN {"none", "invited"}
  ELSE IF s \in {"denied", "revoked"} THEN {"invited"}
  ELSE IF s = "invited" THEN {"accepted", "denied", "revoked"}
  ELSE IF s = "accepted" THEN Outcomes \cup {"revoked"}
  ELSE {}

PlacementInit == standing \in [Students -> {"none", "imported"}]

Advance(batch) ==
  /\ standing' \in [Students -> Standings]
  /\ \A s \in Students : IF s \in batch THEN standing'[s] \in After(standing[s])
                                        ELSE standing'[s] = standing[s]

PlacementNext == \E batch \in SUBSET Students : Advance(batch)

PlacementSpec == PlacementInit /\ [][PlacementNext]_standing
=============================================================================

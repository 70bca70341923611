---------------------------- MODULE BootMilestones ----------------------------
(***************************************************************************)
(* The milestones of a boot: which event writes which line of the boot       *)
(* trace, and in what order the lines can come.  boot.logged is the set of   *)
(* those written since the last reset: each is written once.                   *)
(*                                                                          *)
(* M5 and M7 have code that no other code calls: they are never written.     *)
(***************************************************************************)
EXTENDS Naturals

CONSTANTS
  DecisionTraced,  \* a readiness-decision trace is configured
  IdleFixture      \* an idle-display fixture is configured

ASSUME MilestonesAssumption == DecisionTraced \in BOOLEAN /\ IdleFixture \in BOOLEAN

VARIABLE boot
bootVars == <<boot>>

Milestones == {"M3", "M4", "M5A", "M5C", "M5V", "M6", "M7A", "M7B", "M7C", "M8",
               "M9", "M10", "protocol_ready", "acceptance_ready"}

(* What the display says, as far as the milestones read it. *)
Texts == {"other", "oos", "not_responding", "idle"}

(* What the boot contract waits for: m_tel_boot_power_ack_seen,              *)
(* m_tel_boot_error_report_seen, m_tel_boot_status_seen.                     *)
Evidence == {"ack", "error", "status"}

(* boot.seen is the evidence that came; error and status say that the frame  *)
(* came whole (m_csio_error_report_ok, m_csio_status_frame_ok).              *)
MilestonesTypeOK ==
  boot \in [logged : SUBSET Milestones, text : Texts, bannerSeen : BOOLEAN,
            bannerShown : BOOLEAN, seen : SUBSET Evidence, error : BOOLEAN,
            status : BOOLEAN, contract : BOOLEAN, allInit : BOOLEAN, ready : BOOLEAN,
            baseline : BOOLEAN]

BootReset ==
  [logged |-> {}, text |-> "other", bannerSeen |-> FALSE, bannerShown |-> FALSE,
   seen |-> {}, error |-> FALSE, status |-> FALSE, contract |-> FALSE,
   allInit |-> FALSE, ready |-> FALSE, baseline |-> FALSE]

MilestonesInit == boot = BootReset

Written(b, m) == m \in b.logged
(* Writes a milestone that is due, unless it has been written. *)
Log(b, due, m) == IF due THEN [b EXCEPT !.logged = @ \cup {m}] ELSE b

Snapshot(b) == Log(Log(b, TRUE, "M3"), TRUE, "M4")
Readiness(b) ==
  LET p == Log(b, b.ready, "protocol_ready")
  IN Log(p, p.ready /\ p.text = "oos", "acceptance_ready")

(* The first write of RAM, or a timer started by the reset, has the CPU      *)
(* described.                                                               *)
CpuDescribed == boot' = Snapshot(boot)

(* A write to the display: M7C is judged on the new text and the banner      *)
(* noted before.                                                             *)
Shown(b, text) == [b EXCEPT !.text = text, !.bannerShown = @ \/ text = "not_responding"]
JudgedReady(b) ==
  Log(b, /\ b.status \/ b.error
         /\ b.contract /\ b.bannerSeen
         /\ b.text # "not_responding", "M7C")
(* The banner is noted only for the decision trace, when a tenth of a second *)
(* has passed since that trace was last written.                             *)
BannerNoted(b, due) ==
  [b EXCEPT !.bannerSeen =
     @ \/ (DecisionTraced /\ due /\ ~Written(b, "M7C") /\ b.text = "not_responding")]
(* The first write at all, and the first that matches the idle fixture. *)
FirstWrites(b) ==
  LET wrote == Log(b, TRUE, "M6")
      idle  == IdleFixture /\ b.text = "idle" /\ ~Written(b, "M10")
  IN Log(Log(wrote, idle, "M9"), idle, "M10")
DisplayWrite ==
  \E text \in Texts :
     boot' \in {FirstWrites(BannerNoted(JudgedReady(Shown(boot, text)), due)) : due \in BOOLEAN}

(* What the link brings: the power-on octet, read back from the receive      *)
(* register or passing the bridge, and the two frames.                       *)
ContractProgress(b) ==
  IF b.contract \/ b.seen # Evidence THEN b
  ELSE Readiness([b EXCEPT !.contract = TRUE, !.ready = b.allInit])

AckRead == boot' = Log(boot, TRUE, "M7A")
AckPassed == boot' = ContractProgress([boot EXCEPT !.seen = @ \cup {"ack"}])
FramePassed ==
  \E b \in {[boot EXCEPT !.seen = @ \cup {"error"}, !.error = TRUE],
            [boot EXCEPT !.seen = @ \cup {"status"}, !.status = TRUE]} :
     boot' = ContractProgress(Log(b, b.error /\ b.status, "M7B"))
(* The default backend takes the evidence from the octets it passes on,      *)
(* before the firmware has read them: the code of a frame is evidence, whole *)
(* or not.  It asks nothing of the initialisation.                           *)
BackendAnswers ==
  \E seen \in {s \in SUBSET Evidence : boot.seen \subseteq s} :
    \E error  \in {boot.error, boot.error \/ "error" \in seen},
       status \in {boot.status, boot.status \/ "status" \in seen} :
       boot' = [boot EXCEPT !.seen = seen, !.error = error, !.status = status,
                            !.contract = @ \/ seen = Evidence,
                            !.ready = @ \/ seen = Evidence]
InitDoneSeen == boot' = [boot EXCEPT !.allInit = TRUE]

(* The ten-millisecond poll: readiness first, then whether the ASCI          *)
(* registers moved, which the first poll only remembers.                     *)
MilestonePoll ==
  LET b == Readiness(boot)
  IN \E moved \in BOOLEAN :
       boot' = IF ~b.baseline THEN [b EXCEPT !.baseline = TRUE] ELSE Log(b, moved, "M8")

(* Voice: the first phrase, and the first end of one, if it played. *)
FirstPhrase == boot' = Log(Log(boot, TRUE, "M5V"), TRUE, "M5A")
PhraseEnds == Written(boot, "M5A") /\ boot' = Log(boot, TRUE, "M5C")

BootAgain == boot' = BootReset

MilestonesNext ==
  \/ CpuDescribed \/ DisplayWrite \/ AckRead \/ AckPassed
  \/ FramePassed \/ BackendAnswers \/ InitDoneSeen \/ MilestonePoll
  \/ FirstPhrase \/ PhraseEnds \/ BootAgain

MilestonesSpec == MilestonesInit /\ [][MilestonesNext]_bootVars

(***************************************************************************)
(* The ladder: the tag every other trace line carries is the highest         *)
(* milestone written, so those that stand for a later stage may not come     *)
(* before what they build on.  M7C, that the terminal is ready, is written   *)
(* only after the banner was on the display and a frame had come.            *)
(***************************************************************************)
Before(m, n) == Written(boot, n) => Written(boot, m)
LadderInOrder ==
  /\ Before("M3", "M4") /\ Before("M5V", "M5A") /\ Before("M5A", "M5C")
  /\ Before("M6", "M7C") /\ Before("M6", "M10") /\ Before("M9", "M10")
  /\ Before("protocol_ready", "acceptance_ready")
  /\ Written(boot, "M7C") => boot.bannerShown /\ boot.contract
                             /\ (boot.error \/ boot.status)
  /\ Written(boot, "protocol_ready") => boot.contract
=============================================================================

------------------------------- MODULE MCPath -------------------------------
(* Instances of Path for TLC: sets of configurations.                      *)
EXTENDS Path

Base == [source |-> "publisher", onDemand |-> FALSE, alwaysAvailable |-> FALSE,
         overridePublisher |-> FALSE, regexp |-> FALSE, maxReaders |-> 0,
         record |-> "off"]

OnDemandPublisherConf == [Base EXCEPT !.onDemand = TRUE]
OnDemandSourceConf == [Base EXCEPT !.source = "static", !.onDemand = TRUE]

(* Every kind of path that validate() accepts, and reloads among them.     *)
AllConfs == {
  [Base EXCEPT !.overridePublisher = TRUE, !.maxReaders = 1],
  [Base EXCEPT !.overridePublisher = TRUE, !.maxReaders = 1, !.record = "fmp4"],
  [Base EXCEPT !.regexp = TRUE],
  [OnDemandPublisherConf EXCEPT !.overridePublisher = TRUE, !.regexp = TRUE,
                                !.maxReaders = 1],
  [OnDemandPublisherConf EXCEPT !.record = "mpegts"],
  [Base EXCEPT !.alwaysAvailable = TRUE, !.overridePublisher = TRUE],
  [Base EXCEPT !.alwaysAvailable = TRUE, !.overridePublisher = TRUE,
               !.record = "fmp4"],
  [Base EXCEPT !.source = "static"],
  [Base EXCEPT !.source = "static", !.alwaysAvailable = TRUE,
               !.record = "fmp4"],
  [OnDemandSourceConf EXCEPT !.regexp = TRUE],
  [OnDemandSourceConf EXCEPT !.maxReaders = 1, !.record = "fmp4"],
  [OnDemandSourceConf EXCEPT !.maxReaders = 1, !.record = "mpegts"],
  [Base EXCEPT !.source = "redirect"]
}
=============================================================================

--------------------------- MODULE ServicesProofs ---------------------------
(***************************************************************************)
(* Proofs about what the servers and the paths rest on: the configuration  *)
(* and its edits (Conf), the processes of the external commands            *)
(* (Commands), the verdicts of authentication (Auth), and the three of     *)
(* them together (MCServices), for any values of the constants.            *)
(***************************************************************************)
EXTENDS MCServices, FiniteSetTheorems, WellFoundedInduction, TLAPS

-----------------------------------------------------------------------------
(***************************************************************************)
(* What Validate makes of what is written.                                 *)
(***************************************************************************)

GlobalFields == DOMAIN GlobalDefaults
OldList(g) == IF g.webrtcICEServers = None THEN <<>> ELSE g.webrtcICEServers

\* The values of the paths that are written in c, over the defaults.
PathValues(c) ==
    [n \in DOMAIN OptionalPaths(c.own) |->
        newPath(ConvertedDefaults(c), OptionalPaths(c.own)[n])]

UsersChecked(c) == IF HasLegacy(c) THEN {} ELSE c.global.authInternalUsers

\* Validate has no objection to c.
IsValid(c) ==
    LET g == Converted(c.global) IN
    /\ IsPowerOfTwo(g.writeQueueSize)
    /\ HasLegacy(c) => LegacyAllowed(c.global)
    /\ ValidAuth(g, UsersChecked(c)) /\ ValidServers(g, UsersChecked(c))
    /\ Cardinality(DOMAIN c.own \cap Aliases) <= 1
    /\ \A n \in DOMAIN OptionalPaths(c.own) : validate(g, PathValues(c), n)

Users(c) ==
    IF HasLegacy(c) THEN LegacyUsers(PathValues(c)) ELSE c.global.authInternalUsers

Derivation(c) ==
    [global |-> [Converted(c.global) EXCEPT !.authInternalUsers = Users(c)],
     defaults |-> ConvertedDefaults(c), own |-> OptionalPaths(c.own),
     paths |-> Paths(OptionalPaths(c.own), PathValues(c))]

\* What somebody may have written.
IsWritten(c) ==
    /\ c = [global |-> c.global, defaults |-> c.defaults, own |-> c.own]
    /\ c.global = [f \in GlobalFields |-> c.global[f]]
    /\ c.defaults = [f \in PathFields |-> c.defaults[f]]
    /\ DOMAIN c.own \subseteq Names
    /\ \A n \in DOMAIN c.own : Given(c.own[n], PathFields)
    /\ c.defaults.rpiCameraSecondary \in BOOLEAN
    /\ c.global.webrtcICEServers2 \in Seq(STRING) /\ OldList(c.global) \in Seq(STRING)

\* The fields of the records, as far as a proof needs them.
LEMMA FieldsAre ==
    /\ {"authMethod", "authHTTPAddress", "authInternalUsers", "on", "webrtcICEServers2",
        "writeQueueSize", "webrtcICEServers", "externalAuthenticationURL",
        "rtspTransports", "rtspEncryption", "rtspAuthMethods", "authJWTJWKS", "addresses"}
          \cup DOMAIN Successor \cup DOMAIN Switch \cup RecordParameters
          \subseteq GlobalFields
    /\ RecordParameters \cup LegacyParameters \cup
         {"rpiCameraSecondary", "source", "rpiCameraCamID", "rpiCameraWidth",
          "overridePublisher", "disablePublisherOverride", "alwaysAvailable",
          "sourceOnDemand", "runOnDemand", "runOnInit"}
         \subseteq PathFields
    /\ FilledFields \cap PathFields = {}
    /\ PathFields \cap {"webrtcICEServers", "webrtcICEServers2"} = {}
    /\ "rpiCameraSecondary" \notin GlobalFields
BY DEF GlobalFields, GlobalDefaults, PathFields, setDefaults, Successor, Switch,
   RecordParameters, LegacyParameters, FilledFields

LEMMA DefaultsAre ==
    /\ setDefaults.rpiCameraSecondary = FALSE
    /\ GlobalDefaults.webrtcICEServers = None /\ GlobalDefaults.webrtcICEServers2 = <<>>
    /\ GlobalDefaults.recordSegmentDuration = None
BY DEF GlobalDefaults, setDefaults

\* An old parameter decides no old parameter, and none of these.
LEMMA OverridingIs ==
    \A g : \A f \in {"authMethod", "authHTTPAddress", "authInternalUsers", "on",
        "webrtcICEServers2", "webrtcICEServers", "externalAuthenticationURL", "authJWTJWKS",
        "addresses"} \cup DOMAIN Successor \cup DOMAIN Switch \cup RecordParameters :
          Overriding(g, f) = {}
BY DEF Overriding, Successor, Switch, RecordParameters

\* What converting does to each field.
NotConverted ==
    {"authInternalUsers", "webrtcICEServers", "externalAuthenticationURL",
     "authJWTJWKS", "addresses"}
        \cup DOMAIN Successor \cup DOMAIN Switch \cup RecordParameters

LEMMA ConvertedShape ==
    \A g : /\ DOMAIN Converted(g) = DOMAIN g
           /\ Converted(g) = [f \in DOMAIN g |-> Converted(g)[f]]
BY DEF Converted

LEMMA ConvertedKeeps ==
    ASSUME NEW g, DOMAIN g = GlobalFields, NEW f \in NotConverted
    PROVE  f \in GlobalFields /\ Converted(g)[f] = g[f]
<1>1. f \in GlobalFields /\ Overriding(g, f) = {}
  BY FieldsAre, OverridingIs DEF NotConverted
<1>2. f \notin {"authMethod", "authHTTPAddress", "on", "webrtcICEServers2"}
  BY DEF NotConverted, Successor, Switch, RecordParameters
<1> QED
  BY <1>1, <1>2 DEF Converted

LEMMA ConvertedList ==
    ASSUME NEW g, DOMAIN g = GlobalFields
    PROVE  Converted(g).webrtcICEServers2 =
               IF g.webrtcICEServers = None THEN g.webrtcICEServers2
               ELSE g.webrtcICEServers2 \o g.webrtcICEServers
BY FieldsAre, OverridingIs DEF Converted

LEMMA ConvertedOn ==
    ASSUME NEW g, DOMAIN g = GlobalFields
    PROVE  Converted(g)["on"] =
             (g["on"] \ {Switch[d] : d \in {d \in DOMAIN Switch : g[d] = TRUE}})
                \cup {Switch[d] : d \in {d \in DOMAIN Switch : g[d] = FALSE}}
BY FieldsAre, OverridingIs DEF Converted

LEMMA ConvertedAuth ==
    ASSUME NEW g, DOMAIN g = GlobalFields, NEW f \in {"authMethod", "authHTTPAddress"}
    PROVE  Converted(g)[f] = IF g.externalAuthenticationURL = None THEN g[f]
                             ELSE IF f = "authMethod" THEN "http"
                             ELSE g.externalAuthenticationURL
BY FieldsAre, OverridingIs DEF Converted

LEMMA ConvertedOther ==
    ASSUME NEW g, DOMAIN g = GlobalFields,
           NEW f \in GlobalFields \ {"authMethod", "authHTTPAddress", "on", "webrtcICEServers2"}
    PROVE  /\ Overriding(g, f) = {} => Converted(g)[f] = g[f]
           /\ \A o \in Overriding(g, f) : o \in NotConverted /\ Converted(g)[f] = g[o]
<1>1. Converted(g)[f] = IF Overriding(g, f) # {} THEN g[CHOOSE o \in Overriding(g, f) : TRUE]
                        ELSE g[f]
  BY DEF Converted
<1>2. \A o, p \in Overriding(g, f) : o = p
  BY DEF Overriding, Successor
<1>3. Overriding(g, f) \subseteq NotConverted
  BY DEF Overriding, NotConverted
<1> QED
  BY <1>1, <1>2, <1>3

\* Converting again what has been converted, with any users.
LEMMA ConvertedAgain ==
    ASSUME NEW g, DOMAIN g = GlobalFields, NEW u
    PROVE  LET h == [Converted(g) EXCEPT !.authInternalUsers = u] IN
           \A f \in GlobalFields \ {"webrtcICEServers2"} : Converted(h)[f] = h[f]
<1> DEFINE c == Converted(g)
           h == [c EXCEPT !.authInternalUsers = u]
<1>1. DOMAIN c = GlobalFields
  BY ConvertedShape
<1>2. /\ DOMAIN h = GlobalFields
      /\ h.authInternalUsers = u
      /\ \A f \in GlobalFields \ {"authInternalUsers"} : h[f] = c[f]
  BY <1>1, FieldsAre
<1>3. \A f \in NotConverted \ {"authInternalUsers"} : h[f] = g[f]
  BY <1>2, ConvertedKeeps
<1>4. \A f : Overriding(h, f) = Overriding(g, f)
  <2>1. \A o \in DOMAIN Successor : h[o] = g[o]
    BY <1>3 DEF NotConverted, Successor
  <2> QED
    BY <2>1 DEF Overriding
<1> HIDE DEF h, c
<1>5. ASSUME NEW f \in GlobalFields \ {"webrtcICEServers2"} PROVE Converted(h)[f] = h[f]
  <2>1. CASE f \in {"authMethod", "authHTTPAddress"}
    <3>1. h[f] = c[f] /\ h.externalAuthenticationURL = g.externalAuthenticationURL
      BY <2>1, <1>2, <1>3 DEF NotConverted
    <3> QED
      BY <2>1, <3>1, <1>2, ConvertedAuth DEF c
  <2>2. CASE f = "on"
    <3>1. h["on"] = c["on"] /\ \A d \in DOMAIN Switch : h[d] = g[d]
      BY <2>2, <1>2, <1>3 DEF NotConverted, Switch
    <3> DEFINE off == {Switch[d] : d \in {d \in DOMAIN Switch : g[d] = TRUE}}
               made == {Switch[d] : d \in {d \in DOMAIN Switch : g[d] = FALSE}}
    <3>2. c["on"] = (g["on"] \ off) \cup made
      BY ConvertedOn DEF c
    <3>3. Converted(h)["on"] = (h["on"] \ off) \cup made
      <4>1. Converted(h)["on"] =
              (h["on"] \ {Switch[d] : d \in {d \in DOMAIN Switch : h[d] = TRUE}})
                 \cup {Switch[d] : d \in {d \in DOMAIN Switch : h[d] = FALSE}}
        BY <1>2, ConvertedOn
      <4>2. /\ {d \in DOMAIN Switch : h[d] = TRUE} = {d \in DOMAIN Switch : g[d] = TRUE}
            /\ {d \in DOMAIN Switch : h[d] = FALSE} = {d \in DOMAIN Switch : g[d] = FALSE}
        BY <3>1
      <4> QED
        BY <4>1, <4>2
    <3>4. \A d, e \in DOMAIN Switch : Switch[d] = Switch[e] => d = e
      BY DEF Switch
    <3>5. off \cap made = {}
      BY <3>4
    <3> HIDE DEF off, made
    <3> QED
      BY <2>2, <3>1, <3>2, <3>3, <3>5
  <2>3. CASE f \notin {"authMethod", "authHTTPAddress", "on"}
    <3>1. /\ Overriding(g, f) = {} => Converted(h)[f] = h[f]
          /\ \A o \in Overriding(g, f) : Converted(h)[f] = h[o]
      BY <2>3, <1>2, <1>4, ConvertedOther
    <3>2. CASE Overriding(g, f) = {}
      BY <3>1, <3>2
    <3>3. CASE Overriding(g, f) # {}
      <4>1. PICK o \in Overriding(g, f) : TRUE
        BY <3>3
      <4>2. o \in NotConverted \ {"authInternalUsers"}
        BY <4>1 DEF Overriding, Successor, NotConverted
      <4>3. Converted(h)[f] = g[o]
        BY <3>1, <4>2, <1>3
      <4>4. f # "authInternalUsers"
        BY <3>3, OverridingIs
      <4>5. c[f] = g[o]
        BY <2>3, ConvertedOther DEF c
      <4> QED
        BY <4>3, <4>4, <4>5, <1>2
    <3> QED
      BY <3>2, <3>3
  <2> QED
    BY <2>1, <2>2, <2>3
<1> QED
  BY <1>5 DEF h, c

\* Validate, by the names of its parts.
LEMMA ConvertedDefaultsIs ==
    ASSUME NEW c, DOMAIN c.global = GlobalFields,
           c = [global |-> c.global, defaults |-> c.defaults, own |-> c.own]
    PROVE  ConvertedDefaults([c EXCEPT !.global = Converted(c.global)]) = ConvertedDefaults(c)
<1> DEFINE d == [c EXCEPT !.global = Converted(c.global)]
<1>1. d.global = Converted(c.global) /\ d.defaults = c.defaults
  OBVIOUS
<1>2. \A f \in RecordParameters : d.global[f] = c.global[f]
  BY <1>1, ConvertedKeeps DEF NotConverted
<1> HIDE DEF d
<1>3. ConvertedDefaults(d) = ConvertedDefaults(c)
  BY <1>1, <1>2 DEF ConvertedDefaults
<1> QED
  BY <1>3 DEF d

LEMMA ValidateIs ==
    ASSUME NEW c, IsWritten(c)
    PROVE  Validate(c) = IF IsValid(c) THEN Derivation(c) ELSE None
<1>1. DOMAIN c.global = GlobalFields
  BY DEF IsWritten
<1>2. ConvertedDefaults([c EXCEPT !.global = Converted(c.global)]) = ConvertedDefaults(c)
  BY <1>1, ConvertedDefaultsIs DEF IsWritten
<1>3. Converted(c.global).authInternalUsers = c.global.authInternalUsers
  BY <1>1, ConvertedKeeps DEF NotConverted
<1> QED
  BY <1>2, <1>3 DEF Validate, IsValid, Derivation, PathValues, UsersChecked, Users, HasLegacy,
     LegacyAllowed

\* What is in force: what is derived from what is written, and derived from it
\* again when it is validated again.
IsDerived(d) ==
    /\ d = [global |-> d.global, defaults |-> d.defaults, own |-> d.own, paths |-> d.paths]
    /\ IsWritten(Written(d))
    /\ \A f \in GlobalFields \ {"webrtcICEServers2"} : Converted(d.global)[f] = d.global[f]
    /\ \A i \in DOMAIN OldList(d.global) : \E j \in DOMAIN d.global.webrtcICEServers2 :
           d.global.webrtcICEServers2[j] = OldList(d.global)[i]
    /\ ConvertedDefaults(d) = d.defaults
    /\ DOMAIN d.own # {} /\ Cardinality(DOMAIN d.own \cap Aliases) <= 1
    /\ IsPowerOfTwo(d.global.writeQueueSize)
    /\ \A n \in DOMAIN d.own : validate(d.global, PathValues(d), n)
    /\ d.paths = Paths(d.own, PathValues(d))
    /\ IF HasLegacy(d) THEN d.global.authInternalUsers = LegacyUsers(PathValues(d))
       ELSE /\ ValidAuth(d.global, d.global.authInternalUsers)
            /\ ValidServers(d.global, d.global.authInternalUsers)

ConfInv == IsDerived(conf) /\ edits \in 0..MaxEdits

\* What the checks ask of the global parameters.
Agree(g, h) ==
    \A f \in GlobalFields \ {"authInternalUsers", "webrtcICEServers2"} : g[f] = h[f]

LEMMA ChecksAgree ==
    ASSUME NEW g, NEW h, Agree(g, h)
    PROVE  /\ \A u : ValidAuth(g, u) = ValidAuth(h, u)
           /\ \A u : ValidRTSP(g, u) = ValidRTSP(h, u)
           /\ \A v, n : validate(g, v, n) = validate(h, v, n)
           /\ g.writeQueueSize = h.writeQueueSize
           /\ g["on"] = h["on"] /\ g.addresses = h.addresses
<1>1. /\ g.authMethod = h.authMethod /\ g.authHTTPAddress = h.authHTTPAddress
      /\ g.authJWTJWKS = h.authJWTJWKS /\ g["on"] = h["on"]
      /\ g.writeQueueSize = h.writeQueueSize /\ g.addresses = h.addresses
      /\ g.rtspTransports = h.rtspTransports /\ g.rtspEncryption = h.rtspEncryption
      /\ g.rtspAuthMethods = h.rtspAuthMethods
  BY FieldsAre DEF Agree
<1>2. \A u : ValidAuth(g, u) = ValidAuth(h, u)
  BY <1>1 DEF ValidAuth
<1>3. \A m, u, x : RTSPNeeds(g, m, u, x) = RTSPNeeds(h, m, u, x)
  BY <1>1 DEF RTSPNeeds
<1>4. \A u : ValidRTSP(g, u) = ValidRTSP(h, u)
  BY <1>1, <1>3 DEF ValidRTSP
<1>5. \A p : ValidRecord(g, p) = ValidRecord(h, p)
  BY <1>1 DEF ValidRecord
<1>6. ASSUME NEW v, NEW n PROVE validate(g, v, n) = validate(h, v, n)
  <2>1. ValidRecord(g, v[n]) = ValidRecord(h, v[n])
    BY <1>5
  <2> QED
    BY <2>1, Zenon DEF validate
<1> QED
  BY <1>1, <1>2, <1>4, <1>6

LEMMA OptionalPathsIs ==
    ASSUME NEW own, DOMAIN own \subseteq Names,
           \A n \in DOMAIN own : Given(own[n], PathFields)
    PROVE  LET o == OptionalPaths(own) IN
        /\ DOMAIN o # {} /\ DOMAIN o \subseteq Names
        /\ \A n \in DOMAIN o : Given(o[n], PathFields)
        /\ OptionalPaths(o) = o
        /\ Cardinality(DOMAIN own \cap Aliases) <= 1 =>
               Cardinality(DOMAIN o \cap Aliases) <= 1
        /\ DOMAIN own # {} => o = own
        /\ \A n \in DOMAIN o \ DOMAIN own : n = CatchAll /\ DOMAIN o = {CatchAll}
        /\ \A f : (\E n \in DOMAIN o : f \in DOMAIN o[n]) <=>
                  (\E n \in DOMAIN own : f \in DOMAIN own[n])
<1>1. CASE DOMAIN own # {}
  BY <1>1 DEF OptionalPaths
<1>2. CASE DOMAIN own = {}
  <2> DEFINE o == OptionalPaths(own)
  <2>1. DOMAIN o = {CatchAll} /\ o[CatchAll] = <<>>
    BY <1>2 DEF OptionalPaths
  <2>2. DOMAIN <<>> = {}
    OBVIOUS
  <2>3. Given(<<>>, PathFields)
    BY <2>2 DEF Given
  <2>4. OptionalPaths(o) = o
    BY <2>1 DEF OptionalPaths
  <2>5. DOMAIN o \cap Aliases = {CatchAll}
    BY <2>1 DEF Aliases
  <2>6. Cardinality({CatchAll}) = 1
    BY FS_Singleton
  <2>7. CatchAll \in Names
    BY NamesAssumption
  <2> HIDE DEF o
  <2>8. /\ DOMAIN o # {} /\ DOMAIN o \subseteq Names
        /\ \A n \in DOMAIN o : Given(o[n], PathFields)
        /\ OptionalPaths(o) = o
        /\ Cardinality(DOMAIN o \cap Aliases) <= 1
        /\ \A n \in DOMAIN o : n = CatchAll /\ DOMAIN o = {CatchAll}
        /\ \A f : ~\E n \in DOMAIN o : f \in DOMAIN o[n]
    <3>1. \A n \in DOMAIN o : n = CatchAll /\ o[n] = <<>>
      BY <2>1
    <3>2. \A f : ~\E n \in DOMAIN o : f \in DOMAIN o[n]
      BY <3>1, <2>2
    <3>3. \A n \in DOMAIN o : Given(o[n], PathFields)
      BY <3>1, <2>3
    <3>4. Cardinality(DOMAIN o \cap Aliases) <= 1
      BY <2>5, <2>6
    <3>5. DOMAIN o # {} /\ DOMAIN o \subseteq Names
      BY <2>1, <2>7
    <3> QED
      BY <2>1, <2>4, <3>1, <3>2, <3>3, <3>4, <3>5
  <2> QED
    BY <2>8, <1>2 DEF o
<1> QED
  BY <1>1, <1>2

\* Validate leaves what the invariant says.
LEMMA DerivationIsDerived ==
    ASSUME NEW c, IsWritten(c), IsValid(c)
    PROVE  IsDerived(Derivation(c))
<1> DEFINE g == Converted(c.global)
           d == Derivation(c)
           own == OptionalPaths(c.own)
<1>1. /\ d = [global |-> d.global, defaults |-> d.defaults, own |-> d.own, paths |-> d.paths]
      /\ d.global = [g EXCEPT !.authInternalUsers = Users(c)]
      /\ d.defaults = ConvertedDefaults(c) /\ d.own = own
      /\ d.paths = Paths(own, PathValues(c))
  BY DEF Derivation
<1> HIDE DEF d
<1>2. /\ DOMAIN c.global = GlobalFields /\ DOMAIN c.defaults = PathFields
      /\ DOMAIN c.own \subseteq Names
      /\ \A n \in DOMAIN c.own : Given(c.own[n], PathFields)
  BY DEF IsWritten
<1>3. /\ DOMAIN g = GlobalFields /\ "authInternalUsers" \in GlobalFields
      /\ d.global = [f \in GlobalFields |-> d.global[f]]
      /\ d.global.authInternalUsers = Users(c)
      /\ \A f \in GlobalFields \ {"authInternalUsers"} : d.global[f] = g[f]
  BY <1>1, <1>2, ConvertedShape, FieldsAre
<1>4. /\ \A f \in NotConverted \ {"authInternalUsers"} : d.global[f] = c.global[f]
      /\ g.authInternalUsers = c.global.authInternalUsers
  BY <1>2, <1>3, ConvertedKeeps DEF NotConverted
<1>5. /\ DOMAIN own # {} /\ DOMAIN own \subseteq Names
      /\ \A n \in DOMAIN own : Given(own[n], PathFields)
      /\ OptionalPaths(own) = own
      /\ Cardinality(DOMAIN own \cap Aliases) <= 1
      /\ \A f : (\E n \in DOMAIN own : f \in DOMAIN own[n]) <=>
                (\E n \in DOMAIN c.own : f \in DOMAIN c.own[n])
  BY <1>2, OptionalPathsIs DEF IsValid
<1>6. /\ DOMAIN d.defaults = PathFields
      /\ d.defaults = [f \in PathFields |-> d.defaults[f]]
      /\ \A f \in PathFields : d.defaults[f] =
             IF f \in RecordParameters /\ c.global[f] # None THEN c.global[f]
             ELSE c.defaults[f]
  BY <1>1, <1>2 DEF ConvertedDefaults
<1>7. ConvertedDefaults(d) = d.defaults
  <2>1. \A f \in RecordParameters : d.global[f] = c.global[f]
    BY <1>4 DEF NotConverted, RecordParameters
  <2>2. ConvertedDefaults(d) = [f \in PathFields |->
          IF f \in RecordParameters /\ d.global[f] # None
          THEN d.global[f] ELSE d.defaults[f]]
    BY <1>6 DEF ConvertedDefaults
  <2>3. \A f \in PathFields :
          (IF f \in RecordParameters /\ d.global[f] # None
           THEN d.global[f] ELSE d.defaults[f]) = d.defaults[f]
    BY <2>1, <1>6
  <2>4. ConvertedDefaults(d) = [f \in PathFields |-> d.defaults[f]]
    BY <2>2, <2>3
  <2> QED
    BY <2>4, <1>6
<1>8. PathValues(d) = PathValues(c)
  BY <1>1, <1>5, <1>7 DEF PathValues
<1>9. HasLegacy(d) <=> HasLegacy(c)
  <2>1. \A f \in LegacyParameters : d.defaults[f] = c.defaults[f]
    BY <1>6, FieldsAre DEF LegacyParameters, RecordParameters
  <2> QED
    BY <1>1, <1>5, <2>1 DEF HasLegacy, anyPathHasDeprecatedCredentials
<1>10. Agree(d.global, g)
  BY <1>3 DEF Agree
<1>11. d.global.webrtcICEServers2 = g.webrtcICEServers2
       /\ OldList(d.global) = OldList(c.global)
  BY <1>3, <1>4, FieldsAre DEF NotConverted, OldList
<1>12. ASSUME ~HasLegacy(d)
       PROVE  /\ ValidAuth(d.global, d.global.authInternalUsers)
              /\ ValidServers(d.global, d.global.authInternalUsers)
  <2>1. UsersChecked(c) = d.global.authInternalUsers
    BY <1>3, <1>9, <1>12 DEF Users, UsersChecked
  <2>2. ValidAuth(d.global, UsersChecked(c))
    BY <1>10, ChecksAgree DEF IsValid
  <2>3. ValidServers(g, UsersChecked(c))
    BY DEF IsValid
  <2>4. ValidRTSP(d.global, UsersChecked(c))
        /\ d.global["on"] = g["on"] /\ d.global.addresses = g.addresses
    BY <2>3, <1>10, ChecksAgree DEF ValidServers
  <2>5. ValidServers(d.global, UsersChecked(c))
    BY <2>3, <2>4, <1>11 DEF ValidServers, ValidWebRTC
  <2> QED
    BY <2>1, <2>2, <2>5
<1>13. g.webrtcICEServers2 = c.global.webrtcICEServers2 \o OldList(c.global)
  <2>1. c.global.webrtcICEServers2 \in Seq(STRING)
    BY DEF IsWritten
  <2>2. c.global.webrtcICEServers2 \o <<>> = c.global.webrtcICEServers2
    BY <2>1
  <2> QED
    BY <1>2, <2>2, ConvertedList DEF OldList
<1>14. IsWritten(Written(d))
  <2>1. d.global.webrtcICEServers2 \in Seq(STRING) /\ OldList(d.global) \in Seq(STRING)
    <3>1. c.global.webrtcICEServers2 \in Seq(STRING) /\ OldList(c.global) \in Seq(STRING)
      BY DEF IsWritten
    <3>2. c.global.webrtcICEServers2 \o OldList(c.global) \in Seq(STRING)
      BY <3>1
    <3> QED
      BY <3>1, <3>2, <1>11, <1>13
  <2>2. d.defaults.rpiCameraSecondary \in BOOLEAN
    BY <1>6, FieldsAre DEF IsWritten, RecordParameters
  <2> QED
    BY <2>1, <2>2, <1>1, <1>3, <1>5, <1>6 DEF IsWritten, Written
<1>15. \A i \in DOMAIN OldList(d.global) : \E j \in DOMAIN d.global.webrtcICEServers2 :
           d.global.webrtcICEServers2[j] = OldList(d.global)[i]
  <2> DEFINE s == c.global.webrtcICEServers2
             t == OldList(c.global)
  <2>1. s \in Seq(STRING) /\ t \in Seq(STRING)
    BY DEF IsWritten
  <2> HIDE DEF s, t
  <2>2. \A i \in DOMAIN t : Len(s) + i \in DOMAIN (s \o t) /\ (s \o t)[Len(s) + i] = t[i]
    BY <2>1
  <2> QED
    BY <2>2, <1>11, <1>13 DEF s, t
<1>16. \A f \in GlobalFields \ {"webrtcICEServers2"} : Converted(d.global)[f] = d.global[f]
  BY <1>1, <1>2, ConvertedAgain
<1>17. IsPowerOfTwo(d.global.writeQueueSize)
  BY <1>10, ChecksAgree DEF IsValid
<1>18. \A n \in DOMAIN d.own : validate(d.global, PathValues(d), n)
  BY <1>1, <1>8, <1>10, ChecksAgree DEF IsValid
<1>19. d.paths = Paths(d.own, PathValues(d))
  BY <1>1, <1>8
<1>20. HasLegacy(d) => d.global.authInternalUsers = LegacyUsers(PathValues(d))
  BY <1>3, <1>8, <1>9 DEF Users
<1>21. IsDerived(d)
  BY <1>1, <1>5, <1>7, <1>12, <1>14, <1>15, <1>16, <1>17, <1>18, <1>19, <1>20, Zenon
     DEF IsDerived
<1> QED
  BY <1>21 DEF d

-----------------------------------------------------------------------------
(***************************************************************************)
(* What is written, by a file or by an edit of what is in force.           *)
(***************************************************************************)

LEMMA CopyIs ==
    ASSUME NEW dest, NEW source
    PROVE  LET m == copyStructFields(dest, source) IN
           /\ DOMAIN m = DOMAIN dest \cup DOMAIN source
           /\ m = [f \in DOMAIN m |-> m[f]]
           /\ \A f \in DOMAIN dest \cup DOMAIN source :
                  m[f] = IF f \in DOMAIN source THEN source[f] ELSE dest[f]
BY DEF copyStructFields

LEMMA CopyGiven ==
    ASSUME NEW dest, NEW source, Given(dest, PathFields), Given(source, PathFields)
    PROVE  Given(copyStructFields(dest, source), PathFields)
<1> DEFINE m == copyStructFields(dest, source)
<1>1. /\ DOMAIN m = DOMAIN dest \cup DOMAIN source
      /\ \A f \in DOMAIN dest \cup DOMAIN source :
             m[f] = IF f \in DOMAIN source THEN source[f] ELSE dest[f]
  BY CopyIs
<1> HIDE DEF m
<1>2. Given(m, PathFields)
  BY <1>1 DEF Given
<1> QED
  BY <1>2 DEF m

LEMMA CopyGlobal ==
    ASSUME NEW g, NEW patch, DOMAIN g = GlobalFields, Given(patch, GlobalFields),
           g.webrtcICEServers2 \in Seq(STRING), OldList(g) \in Seq(STRING)
    PROVE  LET h == copyStructFields(g, patch) IN
           /\ h = [f \in GlobalFields |-> h[f]]
           /\ h.webrtcICEServers2 \in Seq(STRING) /\ OldList(h) \in Seq(STRING)
<1> DEFINE h == copyStructFields(g, patch)
<1>1. /\ DOMAIN h = GlobalFields /\ h = [f \in GlobalFields |-> h[f]]
      /\ \A f \in GlobalFields : h[f] = IF f \in DOMAIN patch THEN patch[f] ELSE g[f]
  <2>1. DOMAIN g \cup DOMAIN patch = GlobalFields
    BY DEF Given
  <2>2. DOMAIN h = GlobalFields
    BY <2>1, CopyIs
  <2>3. \A f \in GlobalFields : h[f] = IF f \in DOMAIN patch THEN patch[f] ELSE g[f]
    BY <2>1, CopyIs
  <2>4. h = [f \in DOMAIN h |-> h[f]]
    BY CopyIs
  <2> QED
    BY <2>2, <2>3, <2>4
<1> HIDE DEF h
<1>2. h.webrtcICEServers2 \in Seq(STRING)
  BY <1>1, FieldsAre DEF Given
<1>3. OldList(h) \in Seq(STRING)
  <2>1. <<>> \in Seq(STRING)
    OBVIOUS
  <2>2. CASE "webrtcICEServers" \in DOMAIN patch
    <3>1. h.webrtcICEServers = patch.webrtcICEServers
          /\ patch.webrtcICEServers \in Seq(STRING)
      BY <2>2, <1>1, FieldsAre DEF Given
    <3> QED
      BY <3>1, <2>1 DEF OldList
  <2>3. CASE "webrtcICEServers" \notin DOMAIN patch
    <3>1. h.webrtcICEServers = g.webrtcICEServers
      BY <2>3, <1>1, FieldsAre
    <3> QED
      BY <3>1 DEF OldList
  <2> QED
    BY <2>2, <2>3
<1> QED
  BY <1>1, <1>2, <1>3 DEF h

LEMMA CopyDefaults ==
    ASSUME NEW d, NEW patch, DOMAIN d = PathFields, Given(patch, PathFields),
           d.rpiCameraSecondary \in BOOLEAN
    PROVE  LET h == copyStructFields(d, patch) IN
           h = [f \in PathFields |-> h[f]] /\ h.rpiCameraSecondary \in BOOLEAN
<1> DEFINE h == copyStructFields(d, patch)
<1>1. /\ DOMAIN h = PathFields /\ h = [f \in PathFields |-> h[f]]
      /\ \A f \in PathFields : h[f] = IF f \in DOMAIN patch THEN patch[f] ELSE d[f]
  <2>1. DOMAIN d \cup DOMAIN patch = PathFields
    BY DEF Given
  <2>2. DOMAIN h = PathFields
    BY <2>1, CopyIs
  <2>3. \A f \in PathFields : h[f] = IF f \in DOMAIN patch THEN patch[f] ELSE d[f]
    BY <2>1, CopyIs
  <2>4. h = [f \in DOMAIN h |-> h[f]]
    BY CopyIs
  <2> QED
    BY <2>2, <2>3, <2>4
<1> HIDE DEF h
<1>2. h.rpiCameraSecondary \in BOOLEAN
  BY <1>1, FieldsAre DEF Given
<1> QED
  BY <1>1, <1>2 DEF h

LEMMA FileIsWritten ==
    ASSUME NEW f \in Files
    PROVE  IsWritten(FromFile(f))
<1> DEFINE c == FromFile(f)
<1>1. /\ c.global = copyStructFields(GlobalDefaults, f.global)
      /\ c.defaults = copyStructFields(setDefaults, f.defaults)
      /\ c.own = f.paths
      /\ c = [global |-> c.global, defaults |-> c.defaults, own |-> c.own]
  BY DEF FromFile
<1> HIDE DEF c
<1>2. /\ Given(f.global, GlobalFields) /\ Given(f.defaults, PathFields)
      /\ DOMAIN f.paths \subseteq Names
      /\ \A n \in DOMAIN f.paths : Given(f.paths[n], PathFields)
  BY ValuesAssumption DEF GlobalFields, PathFields
<1>3. GlobalDefaults.webrtcICEServers2 \in Seq(STRING)
      /\ OldList(GlobalDefaults) \in Seq(STRING)
  BY DefaultsAre DEF OldList
<1>4. DOMAIN GlobalDefaults = GlobalFields /\ DOMAIN setDefaults = PathFields
  BY DEF GlobalFields, PathFields
<1>5. /\ c.global = [x \in GlobalFields |-> c.global[x]]
      /\ c.global.webrtcICEServers2 \in Seq(STRING) /\ OldList(c.global) \in Seq(STRING)
  BY <1>1, <1>2, <1>3, <1>4, CopyGlobal
<1>6. c.defaults = [x \in PathFields |-> c.defaults[x]]
      /\ c.defaults.rpiCameraSecondary \in BOOLEAN
  <2>1. setDefaults.rpiCameraSecondary \in BOOLEAN
    BY DefaultsAre
  <2> QED
    BY <1>1, <1>2, <1>4, <2>1, CopyDefaults
<1>7. IsWritten(c)
  BY <1>1, <1>2, <1>5, <1>6 DEF IsWritten
<1> QED
  BY <1>7 DEF c

\* The edits, of what is written in c.
LEMMA GlobalIsWritten ==
    ASSUME NEW c, IsWritten(c), NEW patch \in GlobalPatches
    PROVE  IsWritten(PatchGlobal(c, patch))
<1> DEFINE d == PatchGlobal(c, patch)
<1>1. /\ d.global = copyStructFields(c.global, patch)
      /\ d.defaults = c.defaults /\ d.own = c.own
      /\ d = [global |-> d.global, defaults |-> d.defaults, own |-> d.own]
  BY DEF PatchGlobal, IsWritten
<1> HIDE DEF d
<1>2. Given(patch, GlobalFields)
  BY ValuesAssumption DEF GlobalFields
<1>3. /\ d.global = [x \in GlobalFields |-> d.global[x]]
      /\ d.global.webrtcICEServers2 \in Seq(STRING) /\ OldList(d.global) \in Seq(STRING)
  BY <1>1, <1>2, CopyGlobal DEF IsWritten
<1>4. IsWritten(d)
  BY <1>1, <1>3 DEF IsWritten
<1> QED
  BY <1>4 DEF d

LEMMA DefaultsAreWritten ==
    ASSUME NEW c, IsWritten(c), NEW patch \in DefaultPatches
    PROVE  IsWritten(PatchPathDefaults(c, patch))
<1> DEFINE d == PatchPathDefaults(c, patch)
<1>1. /\ d.defaults = copyStructFields(c.defaults, patch)
      /\ d.global = c.global /\ d.own = c.own
      /\ d = [global |-> d.global, defaults |-> d.defaults, own |-> d.own]
  BY DEF PatchPathDefaults, IsWritten
<1> HIDE DEF d
<1>2. Given(patch, PathFields)
  BY ValuesAssumption DEF PathFields
<1>3. d.defaults = [x \in PathFields |-> d.defaults[x]]
      /\ d.defaults.rpiCameraSecondary \in BOOLEAN
  BY <1>1, <1>2, CopyDefaults DEF IsWritten
<1>4. IsWritten(d)
  BY <1>1, <1>3 DEF IsWritten
<1> QED
  BY <1>4 DEF d

\* A change of what is given for the paths.
LEMMA OwnIsWritten ==
    ASSUME NEW c, IsWritten(c), NEW own, DOMAIN own \subseteq Names,
           \A n \in DOMAIN own : Given(own[n], PathFields)
    PROVE  IsWritten([c EXCEPT !.own = own])
BY DEF IsWritten

LEMMA ReplaceIs ==
    ASSUME NEW c, IsWritten(c), NEW n \in Names, NEW patch \in PathPatches
    PROVE  LET d == ReplacePath(c, n, patch) IN
           /\ IsWritten(d)
           /\ d.global = c.global /\ d.defaults = c.defaults
           /\ d.own = [m \in DOMAIN c.own \cup {n} |-> IF m = n THEN patch ELSE c.own[m]]
<1> DEFINE own == [m \in DOMAIN c.own \cup {n} |-> IF m = n THEN patch ELSE c.own[m]]
<1>1. ReplacePath(c, n, patch) = [c EXCEPT !.own = own]
  BY DEF ReplacePath
<1>2. Given(patch, PathFields)
  BY ValuesAssumption DEF PathFields
<1>3. DOMAIN own \subseteq Names /\ \A m \in DOMAIN own : Given(own[m], PathFields)
  BY <1>2 DEF IsWritten
<1> HIDE DEF own
<1>4. LET d == [c EXCEPT !.own = own] IN
      d.global = c.global /\ d.defaults = c.defaults /\ d.own = own
  BY DEF IsWritten
<1>5. IsWritten([c EXCEPT !.own = own])
  BY <1>3, OwnIsWritten
<1>6. LET d == ReplacePath(c, n, patch) IN
      IsWritten(d) /\ d.global = c.global /\ d.defaults = c.defaults /\ d.own = own
  BY <1>1, <1>4, <1>5
<1> QED
  BY <1>6 DEF own

LEMMA PatchIs ==
    ASSUME NEW c, IsWritten(c), NEW n \in DOMAIN c.own, NEW patch \in PathPatches
    PROVE  LET d == PatchPath(c, n, patch) IN
           /\ IsWritten(d)
           /\ d.global = c.global /\ d.defaults = c.defaults
           /\ DOMAIN d.own = DOMAIN c.own
           /\ \A m \in DOMAIN c.own :
                 d.own[m] = IF m = n THEN copyStructFields(c.own[m], patch) ELSE c.own[m]
<1> DEFINE own == [c.own EXCEPT ![n] = copyStructFields(@, patch)]
<1>1. PatchPath(c, n, patch) = [c EXCEPT !.own = own]
  BY DEF PatchPath
<1>2. /\ DOMAIN own = DOMAIN c.own
      /\ \A m \in DOMAIN c.own :
            own[m] = IF m = n THEN copyStructFields(c.own[m], patch) ELSE c.own[m]
  OBVIOUS
<1>3. Given(copyStructFields(c.own[n], patch), PathFields)
  BY ValuesAssumption, CopyGiven DEF IsWritten, PathFields
<1>4. DOMAIN own \subseteq Names /\ \A m \in DOMAIN own : Given(own[m], PathFields)
  BY <1>2, <1>3 DEF IsWritten
<1> HIDE DEF own
<1>5. LET d == [c EXCEPT !.own = own] IN
      d.global = c.global /\ d.defaults = c.defaults /\ d.own = own
  BY DEF IsWritten
<1>6. IsWritten([c EXCEPT !.own = own])
  BY <1>4, OwnIsWritten
<1> QED
  BY <1>1, <1>2, <1>5, <1>6

LEMMA RemoveIs ==
    ASSUME NEW c, IsWritten(c), NEW n \in DOMAIN c.own
    PROVE  LET d == RemovePath(c, n) IN
           /\ IsWritten(d)
           /\ d.global = c.global /\ d.defaults = c.defaults
           /\ d.own = [m \in DOMAIN c.own \ {n} |-> c.own[m]]
<1> DEFINE own == [m \in DOMAIN c.own \ {n} |-> c.own[m]]
<1>1. RemovePath(c, n) = [c EXCEPT !.own = own]
  BY DEF RemovePath
<1>2. DOMAIN own \subseteq Names /\ \A m \in DOMAIN own : Given(own[m], PathFields)
  BY DEF IsWritten
<1> HIDE DEF own
<1>3. LET d == [c EXCEPT !.own = own] IN
      d.global = c.global /\ d.defaults = c.defaults /\ d.own = own
  BY DEF IsWritten
<1>4. IsWritten([c EXCEPT !.own = own])
  BY <1>2, OwnIsWritten
<1>5. LET d == RemovePath(c, n) IN
      IsWritten(d) /\ d.global = c.global /\ d.defaults = c.defaults /\ d.own = own
  BY <1>1, <1>3, <1>4
<1> QED
  BY <1>5 DEF own

-----------------------------------------------------------------------------
(***************************************************************************)
(* The invariant is inductive.                                             *)
(***************************************************************************)

\* An edit: what it makes of what is written, derived again, or nothing.
LEMMA EditIs ==
    ASSUME NEW kind, NEW n, NEW patch, NEW edited, Edit(kind, n, patch, edited),
           edited # None => IsWritten(edited)
    PROVE  /\ edits < MaxEdits /\ edits' = edits + 1
           /\ last'.kind = kind /\ last'.name = n /\ last'.patch = patch
           /\ last'.accepted \in BOOLEAN
           /\ ~last'.accepted => conf' = conf
           /\ last'.accepted => /\ edited # None /\ IsWritten(edited) /\ IsValid(edited)
                                /\ conf' = Derivation(edited)
<1>1. PICK validated \in {IF edited = None THEN None ELSE Validate(edited)} :
        /\ last' = [kind |-> kind, name |-> n, patch |-> patch, accepted |-> validated # None]
        /\ conf' = IF validated = None THEN conf ELSE validated
  BY DEF Edit
<1>2. validated # None => /\ edited # None /\ IsWritten(edited) /\ IsValid(edited)
                          /\ validated = Derivation(edited)
  BY <1>1, ValidateIs
<1>3. edits < MaxEdits /\ edits' = edits + 1
  BY DEF Edit
<1> QED
  BY <1>1, <1>2, <1>3

LEMMA LoadIs ==
    ASSUME NEW f \in Files, Validate(FromFile(f)) # None
    PROVE  IsDerived(Validate(FromFile(f)))
BY FileIsWritten, ValidateIs, DerivationIsDerived

LEMMA EditKeepsDerived ==
    ASSUME ConfInv, NEW kind, NEW n, NEW patch, NEW edited, Edit(kind, n, patch, edited),
           edited # None => IsWritten(edited)
    PROVE  ConfInv'
<1>1. IsDerived(conf')
  <2>1. CASE last'.accepted
    BY <2>1, EditIs, DerivationIsDerived
  <2>2. CASE ~last'.accepted
    BY <2>2, EditIs DEF ConfInv
  <2> QED
    BY <2>1, <2>2
<1>2. edits' \in 0..MaxEdits
  BY EditIs, NamesAssumption DEF ConfInv
<1> QED
  BY <1>1, <1>2 DEF ConfInv

\* What the edits of a path write.
LEMMA PathEditsAreWritten ==
    ASSUME NEW c, IsWritten(c), NEW n \in Names, NEW patch \in PathPatches
    PROVE  /\ IsWritten(ReplacePath(c, n, patch))
           /\ AddPath(c, n, patch) # None => IsWritten(AddPath(c, n, patch))
           /\ PatchPath(c, n, patch) # None => IsWritten(PatchPath(c, n, patch))
<1>1. IsWritten(ReplacePath(c, n, patch))
  BY ReplaceIs
<1>2. AddPath(c, n, patch) # None => AddPath(c, n, patch) = ReplacePath(c, n, patch)
  BY DEF AddPath
<1>3. PatchPath(c, n, patch) # None => IsWritten(PatchPath(c, n, patch))
  <2>1. n \notin DOMAIN c.own => PatchPath(c, n, patch) = None
    BY DEF PatchPath
  <2> QED
    BY <2>1, PatchIs
<1> QED
  BY <1>1, <1>2, <1>3

LEMMA ConfInit == Init => ConfInv
BY LoadIs, NamesAssumption DEF Init, ConfInv

LEMMA ConfStep == ASSUME ConfInv, [Next]_vars PROVE ConfInv'
<1>1. IsWritten(Written(conf))
  BY DEF ConfInv, IsDerived
<1>2. ASSUME NEW f \in Files, Reload(f) PROVE ConfInv'
  <2>1. IsDerived(conf')
    BY <1>2, LoadIs DEF Reload
  <2>2. edits' \in 0..MaxEdits
    BY <1>2, NamesAssumption DEF Reload, ConfInv
  <2> QED
    BY <2>1, <2>2 DEF ConfInv
<1>3. CASE EditGlobal
  BY <1>1, <1>3, GlobalIsWritten, EditKeepsDerived DEF EditGlobal
<1>4. CASE EditDefaults
  BY <1>1, <1>4, DefaultsAreWritten, EditKeepsDerived DEF EditDefaults
<1>5. ASSUME NEW n \in Names, AddOne(n) PROVE ConfInv'
  BY <1>1, <1>5, PathEditsAreWritten, EditKeepsDerived DEF AddOne
<1>6. ASSUME NEW n \in Names, PatchOne(n) PROVE ConfInv'
  BY <1>1, <1>6, PathEditsAreWritten, EditKeepsDerived DEF PatchOne
<1>7. ASSUME NEW n \in Names, ReplaceOne(n) PROVE ConfInv'
  BY <1>1, <1>7, PathEditsAreWritten, EditKeepsDerived DEF ReplaceOne
<1>8. ASSUME NEW n \in Names, RemoveOne(n) PROVE ConfInv'
  <2>1. RemovePath(Written(conf), n) # None => n \in DOMAIN Written(conf).own
    BY DEF RemovePath
  <2>2. RemovePath(Written(conf), n) # None => IsWritten(RemovePath(Written(conf), n))
    BY <1>1, <2>1, RemoveIs
  <2> QED
    BY <1>8, <2>2, EditKeepsDerived DEF RemoveOne
<1>9. CASE UNCHANGED vars
  BY <1>9 DEF vars, ConfInv
<1> QED
  BY <1>2, <1>3, <1>4, <1>5, <1>6, <1>7, <1>8, <1>9 DEF Next

-----------------------------------------------------------------------------
(***************************************************************************)
(* The paths in force.                                                     *)
(***************************************************************************)

\* What is derived for path n: its values, and what it knows of its pair.
LEMMA DerivedIs ==
    ASSUME NEW paths, NEW n, DOMAIN paths[n] = PathFields
    PROVE  LET p == paths[n]
               q == Derived(paths, n)
               known == IsCamera(p) /\ ~p.rpiCameraSecondary /\ Secondaries(paths, n) # {}
           IN  /\ DOMAIN q = PathFields \cup FilledFields
               /\ \A f \in PathFields \ {"overridePublisher"} : q[f] = p[f]
               /\ p.disablePublisherOverride = None =>
                      q.overridePublisher = p.overridePublisher
               /\ IF IsCamera(p) /\ p.rpiCameraSecondary
                  THEN Primaries(paths, n) # {} =>
                           q.rpiCameraPrimaryName \in Primaries(paths, n)
                  ELSE q.rpiCameraPrimaryName = None
               /\ known => \E s \in Secondaries(paths, n) :
                               q.rpiCameraSecondaryWidth = paths[s].rpiCameraWidth
               /\ ~known => q.rpiCameraSecondaryWidth = 0
<1> DEFINE p == paths[n]
           known == IsCamera(p) /\ ~p.rpiCameraSecondary /\ Secondaries(paths, n) # {}
           base == IF p.source = "publisher" /\ p.disablePublisherOverride # None
                   THEN [p EXCEPT !.overridePublisher = ~p.disablePublisherOverride] ELSE p
           pair == [rpiCameraPrimaryName |->
                       IF IsCamera(p) /\ p.rpiCameraSecondary
                       THEN CHOOSE o \in Primaries(paths, n) : TRUE ELSE None,
                    rpiCameraSecondaryWidth |->
                       IF IsCamera(p) /\ ~p.rpiCameraSecondary /\ Secondaries(paths, n) # {}
                       THEN paths[CHOOSE o \in Secondaries(paths, n) : TRUE].rpiCameraWidth
                       ELSE 0]
           q == copyStructFields(base, pair)
<1>1. Derived(paths, n) = q
  BY DEF Derived
<1>2. /\ DOMAIN base = PathFields
      /\ \A f \in PathFields \ {"overridePublisher"} : base[f] = p[f]
      /\ p.disablePublisherOverride = None => base.overridePublisher = p.overridePublisher
  OBVIOUS
<1>3. DOMAIN pair = FilledFields
  BY DEF FilledFields
<1>4. IF IsCamera(p) /\ p.rpiCameraSecondary
      THEN Primaries(paths, n) # {} => pair.rpiCameraPrimaryName \in Primaries(paths, n)
      ELSE pair.rpiCameraPrimaryName = None
  OBVIOUS
<1>5. /\ known => \E s \in Secondaries(paths, n) :
                      pair.rpiCameraSecondaryWidth = paths[s].rpiCameraWidth
      /\ ~known => pair.rpiCameraSecondaryWidth = 0
  OBVIOUS
<1> HIDE DEF base, pair
<1>6. /\ DOMAIN q = PathFields \cup FilledFields
      /\ \A f \in PathFields : q[f] = base[f]
      /\ \A f \in FilledFields : q[f] = pair[f]
  <2>1. /\ DOMAIN q = DOMAIN base \cup DOMAIN pair
        /\ \A f \in DOMAIN base \cup DOMAIN pair :
              q[f] = IF f \in DOMAIN pair THEN pair[f] ELSE base[f]
    BY CopyIs
  <2> HIDE DEF q
  <2> QED
    BY <1>2, <1>3, <2>1, FieldsAre
<1>7. "overridePublisher" \in PathFields
      /\ {"rpiCameraPrimaryName", "rpiCameraSecondaryWidth"} = FilledFields
  BY FieldsAre DEF FilledFields
<1>8. /\ \A f \in PathFields \ {"overridePublisher"} : q[f] = p[f]
      /\ p.disablePublisherOverride = None => q.overridePublisher = p.overridePublisher
      /\ q.rpiCameraPrimaryName = pair.rpiCameraPrimaryName
      /\ q.rpiCameraSecondaryWidth = pair.rpiCameraSecondaryWidth
  BY <1>2, <1>6, <1>7
<1> HIDE DEF q, p
<1> QED
  BY <1>1, <1>4, <1>5, <1>6, <1>8 DEF p

\* The values of the paths of a configuration.
LEMMA ValuesAre ==
    ASSUME NEW d, IsDerived(d)
    PROVE  LET values == PathValues(d) IN
        /\ OptionalPaths(d.own) = d.own
        /\ DOMAIN values = DOMAIN d.own /\ DOMAIN d.paths = DOMAIN d.own
        /\ DOMAIN d.own \subseteq Names /\ DOMAIN d.own # {}
        /\ \A n \in DOMAIN d.own :
              /\ DOMAIN values[n] = PathFields
              /\ \A f \in PathFields : values[n][f] =
                    IF f \in DOMAIN d.own[n] THEN d.own[n][f] ELSE d.defaults[f]
              /\ values[n].rpiCameraSecondary \in BOOLEAN
              /\ d.paths[n] = Derived(values, n)
              /\ validate(d.global, values, n)
<1> DEFINE values == PathValues(d)
<1>1. OptionalPaths(d.own) = d.own
  BY DEF OptionalPaths, IsDerived
<1>2. values = [n \in DOMAIN d.own |-> copyStructFields(d.defaults, d.own[n])]
  BY <1>1 DEF PathValues, newPath, IsDerived
<1>3. /\ DOMAIN d.defaults = PathFields /\ d.defaults.rpiCameraSecondary \in BOOLEAN
      /\ DOMAIN d.own \subseteq Names
      /\ \A n \in DOMAIN d.own : Given(d.own[n], PathFields)
  BY DEF IsDerived, IsWritten, Written
<1>4. DOMAIN d.paths = DOMAIN d.own /\ \A n \in DOMAIN d.own : d.paths[n] = Derived(values, n)
  BY DEF IsDerived, Paths
<1>5. ASSUME NEW n \in DOMAIN d.own
      PROVE  /\ DOMAIN values[n] = PathFields
             /\ \A f \in PathFields : values[n][f] =
                    IF f \in DOMAIN d.own[n] THEN d.own[n][f] ELSE d.defaults[f]
             /\ values[n].rpiCameraSecondary \in BOOLEAN
  <2>1. values[n] = copyStructFields(d.defaults, d.own[n])
    BY <1>2
  <2>2. DOMAIN d.own[n] \subseteq PathFields
    BY <1>3 DEF Given
  <2> HIDE DEF values
  <2>3. /\ DOMAIN values[n] = DOMAIN d.defaults \cup DOMAIN d.own[n]
        /\ \A f \in DOMAIN d.defaults \cup DOMAIN d.own[n] : values[n][f] =
              IF f \in DOMAIN d.own[n] THEN d.own[n][f] ELSE d.defaults[f]
    <3> DEFINE m == copyStructFields(d.defaults, d.own[n])
    <3>1. /\ DOMAIN m = DOMAIN d.defaults \cup DOMAIN d.own[n]
          /\ \A f \in DOMAIN d.defaults \cup DOMAIN d.own[n] : m[f] =
                IF f \in DOMAIN d.own[n] THEN d.own[n][f] ELSE d.defaults[f]
      BY CopyIs
    <3> HIDE DEF m
    <3>2. values[n] = m
      BY <2>1 DEF m
    <3> QED
      BY <3>1, <3>2
  <2>4. /\ DOMAIN values[n] = PathFields
        /\ \A f \in PathFields : values[n][f] =
              IF f \in DOMAIN d.own[n] THEN d.own[n][f] ELSE d.defaults[f]
    BY <1>3, <2>2, <2>3
  <2>5. values[n].rpiCameraSecondary \in BOOLEAN
    BY <1>3, <2>4, FieldsAre DEF Given
  <2> QED
    BY <2>4, <2>5
<1>6. DOMAIN values = DOMAIN d.own
  BY <1>2
<1>7. DOMAIN d.own # {} /\ \A n \in DOMAIN d.own : validate(d.global, values, n)
  BY DEF IsDerived
<1> HIDE DEF values
<1>8. \A n \in DOMAIN d.own :
              /\ DOMAIN values[n] = PathFields
              /\ \A f \in PathFields : values[n][f] =
                    IF f \in DOMAIN d.own[n] THEN d.own[n][f] ELSE d.defaults[f]
              /\ values[n].rpiCameraSecondary \in BOOLEAN
              /\ d.paths[n] = Derived(values, n)
              /\ validate(d.global, values, n)
  BY <1>4, <1>5, <1>7
<1> QED
  BY <1>1, <1>3, <1>4, <1>6, <1>7, <1>8 DEF values

\* Types.
LEMMA ConfTypes == ConfInv => TypeOK
<1> SUFFICES ASSUME ConfInv PROVE TypeOK
  OBVIOUS
<1>1. IsDerived(conf) /\ edits \in 0..MaxEdits
  BY DEF ConfInv
<1>2. DOMAIN conf.global = DOMAIN GlobalDefaults /\ DOMAIN conf.defaults = DOMAIN setDefaults
  BY <1>1 DEF IsDerived, IsWritten, Written, GlobalFields, PathFields
<1>3. \A n \in DOMAIN conf.own : DOMAIN conf.own[n] \subseteq DOMAIN setDefaults
  BY <1>1 DEF IsDerived, IsWritten, Written, Given, PathFields
<1>4. DOMAIN conf.own \subseteq Names /\ DOMAIN conf.paths = DOMAIN conf.own
  BY <1>1, ValuesAre
<1>5. \A n \in DOMAIN conf.paths : DOMAIN conf.paths[n] = DOMAIN setDefaults \cup FilledFields
  BY <1>1, ValuesAre, DerivedIs DEF PathFields
<1> QED
  BY <1>1, <1>2, <1>3, <1>4, <1>5 DEF TypeOK

\* Two parts of PathsAreUsable.
CanRun(p, n) ==
    /\ p.alwaysAvailable => ~HasRegexp(n) /\ ~IsOnDemand(p)
    /\ IsStatic(p) /\ HasRegexp(n) => IsOnDemand(p)
    /\ ~(IsStatic(p) /\ p.runOnDemand)
    /\ HasRegexp(n) => ~p.runOnInit

PairIsRight(d, n) ==
    LET p == d.paths[n] IN
    /\ IsCamera(p) /\ p.rpiCameraSecondary =>
           /\ p.rpiCameraPrimaryName \in DOMAIN d.paths
           /\ LET o == d.paths[p.rpiCameraPrimaryName]
              IN  /\ SameCamera(o, p) /\ ~o.rpiCameraSecondary
                  /\ o.rpiCameraSecondaryWidth = p.rpiCameraWidth
    /\ p.rpiCameraSecondaryWidth # 0 =>
           Cardinality({m \in DOMAIN d.paths : d.paths[m].rpiCameraPrimaryName = n}) = 1
    /\ \A m \in DOMAIN d.paths \ {n} :
           SameCamera(p, d.paths[m]) => p.rpiCameraSecondary # d.paths[m].rpiCameraSecondary

LEMMA UsableIs ==
    PathsAreUsable <=>
        /\ conf.paths # <<>>
        /\ \A n \in DOMAIN conf.paths : CanRun(conf.paths[n], n) /\ PairIsRight(conf, n)
BY Zenon DEF PathsAreUsable, CanRun, PairIsRight

\* What the checks of a path say of one that is in force.
LEMMA PathIsValid ==
    ASSUME NEW g, NEW v, NEW n, validate(g, v, n)
    PROVE  /\ CanRun(v[n], n)
           /\ IsCamera(v[n]) => IF v[n].rpiCameraSecondary
                                THEN Primaries(v, n) # {} /\ Secondaries(v, n) = {}
                                ELSE Primaries(v, n) = {}
<1>1. ValidAlwaysAvailable(v[n], n) /\ ValidOnDemand(v[n], n) /\ ValidHooks(v[n], n)
      /\ ValidSource(v, n)
  BY Zenon DEF validate
<1>2. v[n].alwaysAvailable => ~HasRegexp(n) /\ ~IsOnDemand(v[n])
  BY <1>1 DEF ValidAlwaysAvailable, IsOnDemand
<1>3. /\ IsStatic(v[n]) /\ HasRegexp(n) => IsOnDemand(v[n])
      /\ ~(IsStatic(v[n]) /\ v[n].runOnDemand)
      /\ HasRegexp(n) => ~v[n].runOnInit
  BY <1>1 DEF ValidOnDemand, ValidHooks, IsStatic, IsOnDemand
<1>4. IsCamera(v[n]) => ValidCamera(v, n)
  BY <1>1 DEF ValidSource, IsCamera
<1>5. IsCamera(v[n]) => IF v[n].rpiCameraSecondary
                        THEN Primaries(v, n) # {} /\ Secondaries(v, n) = {}
                        ELSE Primaries(v, n) = {}
  BY <1>4 DEF ValidCamera
<1> QED
  BY <1>2, <1>3, <1>5 DEF CanRun

\* The streams of a camera: one that is not secondary, and one that may be.
LEMMA CamerasArePairs ==
    ASSUME NEW d, IsDerived(d), NEW n \in DOMAIN d.paths
    PROVE  PairIsRight(d, n)
<1> DEFINE P == d.paths
           V == PathValues(d)
           D == DOMAIN d.paths
<1>1. /\ DOMAIN V = D /\ D \subseteq Names
      /\ \A m \in D : /\ DOMAIN V[m] = PathFields /\ P[m] = Derived(V, m)
                      /\ V[m].rpiCameraSecondary \in BOOLEAN
                      /\ validate(d.global, V, m)
  BY ValuesAre
<1> HIDE DEF P, V, D
<1>2. \A m \in D : /\ P[m].source = V[m].source /\ P[m].rpiCameraCamID = V[m].rpiCameraCamID
                   /\ P[m].rpiCameraSecondary = V[m].rpiCameraSecondary
                   /\ P[m].rpiCameraWidth = V[m].rpiCameraWidth
  <2> SUFFICES ASSUME NEW m \in D
               PROVE  \A f \in {"source", "rpiCameraCamID", "rpiCameraSecondary",
                                "rpiCameraWidth"} : P[m][f] = V[m][f]
    OBVIOUS
  <2>1. \A f \in PathFields \ {"overridePublisher"} : P[m][f] = V[m][f]
    BY <1>1, DerivedIs
  <2> QED
    BY <2>1, FieldsAre
<1>3. \A m, o \in D : /\ SameCamera(P[m], P[o]) <=> SameCamera(V[m], V[o])
                      /\ IsCamera(P[m]) <=> IsCamera(V[m])
  BY <1>2 DEF SameCamera, IsCamera
<1>4. \A m \in D : IsCamera(V[m]) =>
          IF V[m].rpiCameraSecondary THEN Primaries(V, m) # {} /\ Secondaries(V, m) = {}
          ELSE Primaries(V, m) = {}
  BY <1>1, PathIsValid
<1>5. \A m \in D :
          /\ \A o \in D : o \in Primaries(V, m) <=>
                 o # m /\ SameCamera(V[m], V[o]) /\ ~V[o].rpiCameraSecondary
          /\ \A o \in D : o \in Secondaries(V, m) <=>
                 o # m /\ SameCamera(V[m], V[o]) /\ V[o].rpiCameraSecondary
          /\ Primaries(V, m) \subseteq D /\ Secondaries(V, m) \subseteq D
  BY <1>1 DEF Primaries, Secondaries
<1>6. \A m, o, x \in D : /\ SameCamera(V[m], V[o]) => SameCamera(V[o], V[m]) /\ IsCamera(V[m])
                         /\ SameCamera(V[m], V[o]) /\ SameCamera(V[o], V[x]) =>
                                SameCamera(V[m], V[x])
  BY DEF SameCamera
<1>7. \A m, o \in D : m # o /\ SameCamera(V[m], V[o]) =>
          V[m].rpiCameraSecondary # V[o].rpiCameraSecondary
  <2> SUFFICES ASSUME NEW m \in D, NEW o \in D, m # o, SameCamera(V[m], V[o]),
                      V[m].rpiCameraSecondary = V[o].rpiCameraSecondary
               PROVE  FALSE
    OBVIOUS
  <2>1. CASE V[m].rpiCameraSecondary
    BY <2>1, <1>4, <1>5, <1>6
  <2>2. CASE ~V[m].rpiCameraSecondary
    BY <2>2, <1>4, <1>5, <1>6
  <2> QED
    BY <2>1, <2>2
\* What Derived says of a stream, with the names that the other one is unique by.
<1>8. ASSUME NEW m \in D
      PROVE  /\ IF IsCamera(V[m]) /\ V[m].rpiCameraSecondary
                THEN P[m].rpiCameraPrimaryName \in Primaries(V, m)
                ELSE P[m].rpiCameraPrimaryName = None
             /\ IF IsCamera(V[m]) /\ ~V[m].rpiCameraSecondary /\ Secondaries(V, m) # {}
                THEN \E s \in Secondaries(V, m) :
                        P[m].rpiCameraSecondaryWidth = V[s].rpiCameraWidth
                ELSE P[m].rpiCameraSecondaryWidth = 0
  <2>1. DOMAIN V[m] = PathFields /\ P[m] = Derived(V, m)
    BY <1>1
  <2>2. /\ IF IsCamera(V[m]) /\ V[m].rpiCameraSecondary
           THEN Primaries(V, m) # {} =>
                    Derived(V, m).rpiCameraPrimaryName \in Primaries(V, m)
           ELSE Derived(V, m).rpiCameraPrimaryName = None
        /\ IF IsCamera(V[m]) /\ ~V[m].rpiCameraSecondary /\ Secondaries(V, m) # {}
           THEN \E s \in Secondaries(V, m) :
                   Derived(V, m).rpiCameraSecondaryWidth = V[s].rpiCameraWidth
           ELSE Derived(V, m).rpiCameraSecondaryWidth = 0
    BY <2>1, DerivedIs
  <2> QED
    BY <2>1, <2>2, <1>4
<1>9. n \in D
  BY DEF D
<1>10. ASSUME IsCamera(P[n]), P[n].rpiCameraSecondary
       PROVE  /\ P[n].rpiCameraPrimaryName \in D
              /\ SameCamera(P[P[n].rpiCameraPrimaryName], P[n])
              /\ ~P[P[n].rpiCameraPrimaryName].rpiCameraSecondary
              /\ P[P[n].rpiCameraPrimaryName].rpiCameraSecondaryWidth = P[n].rpiCameraWidth
  <2>1. IsCamera(V[n]) /\ V[n].rpiCameraSecondary
    BY <1>2, <1>3, <1>9, <1>10
  <2>2. PICK o \in Primaries(V, n) : P[n].rpiCameraPrimaryName = o
    BY <2>1, <1>8, <1>9
  <2>3. /\ o \in D /\ o # n /\ SameCamera(V[n], V[o]) /\ SameCamera(V[o], V[n])
        /\ IsCamera(V[o]) /\ ~V[o].rpiCameraSecondary
    BY <2>2, <1>5, <1>6, <1>9
  <2>4. n \in Secondaries(V, o)
    BY <2>1, <2>3, <1>5, <1>9
  <2>5. PICK x \in Secondaries(V, o) : P[o].rpiCameraSecondaryWidth = V[x].rpiCameraWidth
    BY <2>3, <2>4, <1>8
  <2>6. x = n
    <3>1. x \in D /\ SameCamera(V[o], V[x]) /\ V[x].rpiCameraSecondary
      BY <2>3, <2>5, <1>5
    <3>2. SameCamera(V[n], V[x])
      BY <3>1, <2>3, <1>6, <1>9
    <3> QED
      BY <3>1, <3>2, <2>1, <1>1, <1>7, <1>9
  <2> QED
    BY <2>2, <2>3, <2>5, <2>6, <1>2, <1>3, <1>9
<1>11. ASSUME P[n].rpiCameraSecondaryWidth # 0
       PROVE  Cardinality({m \in D : P[m].rpiCameraPrimaryName = n}) = 1
  <2>1. IsCamera(V[n]) /\ ~V[n].rpiCameraSecondary /\ Secondaries(V, n) # {}
    BY <1>8, <1>9, <1>11
  <2>2. PICK x \in Secondaries(V, n) : TRUE
    BY <2>1
  <2>3. x \in D /\ x # n /\ SameCamera(V[n], V[x]) /\ V[x].rpiCameraSecondary
        /\ SameCamera(V[x], V[n]) /\ IsCamera(V[x])
    BY <2>2, <1>5, <1>6, <1>9
  <2>4. n # None
    BY <1>1, <1>9, NamesAssumption
  <2>5. P[x].rpiCameraPrimaryName = n
    <3>1. PICK o \in Primaries(V, x) : P[x].rpiCameraPrimaryName = o
      BY <2>3, <1>8
    <3>2. o \in D /\ SameCamera(V[x], V[o]) /\ ~V[o].rpiCameraSecondary
      BY <2>3, <3>1, <1>5
    <3>3. SameCamera(V[n], V[o])
      BY <2>3, <3>2, <1>6, <1>9
    <3> QED
      BY <2>1, <3>1, <3>2, <3>3, <1>1, <1>7, <1>9
  <2>6. ASSUME NEW m \in D, P[m].rpiCameraPrimaryName = n PROVE m = x
    <3>1. IsCamera(V[m]) /\ V[m].rpiCameraSecondary /\ n \in Primaries(V, m)
      BY <2>4, <2>6, <1>8
    <3>2. SameCamera(V[m], V[n]) /\ SameCamera(V[m], V[x])
      BY <2>3, <3>1, <1>5, <1>6, <1>9
    <3> QED
      BY <2>3, <3>1, <3>2, <1>1, <1>7
  <2>7. {m \in D : P[m].rpiCameraPrimaryName = n} = {x}
    BY <2>3, <2>5, <2>6
  <2> QED
    BY <2>7, FS_Singleton
<1>12. ASSUME NEW m \in D \ {n}, SameCamera(P[n], P[m])
       PROVE  P[n].rpiCameraSecondary # P[m].rpiCameraSecondary
  BY <1>2, <1>3, <1>7, <1>9, <1>12
<1> QED
  BY <1>10, <1>11, <1>12 DEF P, D, PairIsRight

LEMMA PathsUsable == ConfInv => PathsAreUsable
<1> SUFFICES ASSUME ConfInv PROVE PathsAreUsable
  OBVIOUS
<1>1. IsDerived(conf)
  BY DEF ConfInv
<1>2. conf.paths # <<>>
  <2>1. DOMAIN conf.paths # {}
    BY <1>1, ValuesAre
  <2>2. DOMAIN <<>> = {}
    OBVIOUS
  <2> QED
    BY <2>1, <2>2
<1>3. ASSUME NEW n \in DOMAIN conf.paths
      PROVE  CanRun(conf.paths[n], n)
  <2> DEFINE v == PathValues(conf)
             p == conf.paths[n]
  <2>1. DOMAIN v[n] = PathFields /\ p = Derived(v, n) /\ validate(conf.global, v, n)
    BY <1>1, ValuesAre
  <2> HIDE DEF v, p
  <2>2. \A f \in PathFields \ {"overridePublisher"} : p[f] = v[n][f]
    BY <2>1, DerivedIs
  <2>3. /\ p.source = v[n].source /\ p.alwaysAvailable = v[n].alwaysAvailable
        /\ p.sourceOnDemand = v[n].sourceOnDemand /\ p.runOnDemand = v[n].runOnDemand
        /\ p.runOnInit = v[n].runOnInit
    BY <2>2, FieldsAre
  <2>4. (IsStatic(p) <=> IsStatic(v[n])) /\ (IsOnDemand(p) <=> IsOnDemand(v[n]))
    BY <2>3 DEF IsStatic, IsOnDemand
  <2>5. CanRun(v[n], n)
    BY <2>1, PathIsValid
  <2> QED
    BY <2>3, <2>4, <2>5 DEF p, CanRun
<1> QED
  BY <1>1, <1>2, <1>3, CamerasArePairs, UsableIs

-----------------------------------------------------------------------------
(***************************************************************************)
(* The entry that serves a name.                                           *)
(***************************************************************************)

\* Every set of natural numbers has a least one.
LEMMA LeastIs ==
    ASSUME NEW S, S \subseteq Nat, S # {}
    PROVE  \E m \in S : \A n \in S : m <= n
<1>1. IsWellFoundedOn(OpToRel(<, Nat), Nat)
  BY NatLessThanWellFounded
<1>2. PICK m \in S : \A n \in S : ~(<<n, m>> \in OpToRel(<, Nat))
  BY <1>1, WFMin
<1>3. \A n \in S : ~(n < m)
  BY <1>2 DEF OpToRel
<1> QED
  BY <1>3

LEMMA PairIs ==
    ASSUME NEW a, NEW b, a # b
    PROVE  IsFiniteSet({a, b}) /\ Cardinality({a, b}) = 2
<1>1. IsFiniteSet({a}) /\ Cardinality({a}) = 1
  BY FS_Singleton
<1>2. {a, b} = {a} \cup {b} /\ b \notin {a}
  OBVIOUS
<1>3. IsFiniteSet({a} \cup {b}) /\ Cardinality({a} \cup {b}) = Cardinality({a}) + 1
  BY <1>1, <1>2, FS_AddElement
<1> QED
  BY <1>1, <1>2, <1>3

\* The entries called all and all_others are ranked after the others.
LEMMA RankIs ==
    ASSUME NEW n \in Names
    PROVE  /\ Rank(n) \in Nat
           /\ n \in {"all", "all_others"} => Rank(n) > Len(NameOrder)
           /\ n \notin {"all", "all_others"} => Rank(n) <= Len(NameOrder)
<1>1. PICK i \in DOMAIN NameOrder : NameOrder[i] = n
  BY DEF Names
<1>2. Position(n) \in DOMAIN NameOrder
  BY <1>1 DEF Position
<1>3. Position(n) \in 1..Len(NameOrder) /\ Len(NameOrder) \in Nat
  BY <1>2, NamesAssumption
<1> QED
  BY <1>3 DEF Rank

LEMMA FirstMatching ==
    ASSUME NEW paths, DOMAIN paths \subseteq Names, NEW q, Matching(paths, q) # {},
           q \notin DOMAIN paths, IsValidPathName(q)
    PROVE  LET n == FindPathConf(paths, q) IN
           /\ n \in Matching(paths, q)
           /\ \A o \in Matching(paths, q) : Rank(n) <= Rank(o)
<1> DEFINE M == Matching(paths, q)
           S == {Rank(o) : o \in M}
<1>1. M \subseteq Names
  BY DEF Matching
<1> HIDE DEF M
<1>2. S \subseteq Nat /\ S # {}
  BY <1>1, RankIs DEF M
<1>3. PICK r \in S : \A x \in S : r <= x
  BY <1>2, LeastIs
<1>4. \E n \in M : \A o \in M : Rank(n) <= Rank(o)
  BY <1>3
<1>5. FindPathConf(paths, q) = CHOOSE n \in M : \A o \in M : Rank(n) <= Rank(o)
  BY DEF FindPathConf, M
<1> QED
  BY <1>4, <1>5 DEF M

LEMMA LookupCorrect == ConfInv => LookupAgrees
<1> SUFFICES ASSUME ConfInv PROVE LookupAgrees
  OBVIOUS
<1> DEFINE P == conf.paths
<1>1. IsDerived(conf)
  BY DEF ConfInv
<1>2. DOMAIN P = DOMAIN conf.own /\ DOMAIN P \subseteq Names
  BY <1>1, ValuesAre
<1>3. Cardinality(DOMAIN P \cap Aliases) <= 1
  BY <1>1, <1>2 DEF IsDerived
<1> HIDE DEF P
<1>4. \A a, b \in DOMAIN P \cap Aliases : a = b
  <2> DEFINE S == DOMAIN P \cap Aliases
  <2>1. IsFiniteSet(Aliases)
    <3>1. Aliases = {"all", "all_others"} \cup {CatchAll}
      BY DEF Aliases
    <3>2. IsFiniteSet({"all", "all_others"}) /\ IsFiniteSet({CatchAll})
      BY PairIs, FS_Singleton
    <3> QED
      BY <3>1, <3>2, FS_Union
  <2>2. IsFiniteSet(S)
    BY <2>1, FS_Subset
  <2> SUFFICES ASSUME NEW a \in S, NEW b \in S, a # b PROVE FALSE
    OBVIOUS
  <2>3. {a, b} \subseteq S /\ Cardinality({a, b}) <= Cardinality(S)
    BY <2>2, FS_Subset
  <2>4. Cardinality({a, b}) = 2
    BY PairIs
  <2>5. Cardinality(S) \in Nat
    BY <2>2, FS_CardinalityType
  <2> QED
    BY <2>3, <2>4, <2>5, <1>3
<1>5. ASSUME NEW q \in Requested
      PROVE  LET n == FindPathConf(P, q) IN
        /\ (n = None) <=> \A m \in DOMAIN P :
                              m # q /\ (q \in Invalid \/ m \notin Matching(P, q))
        /\ n \in {"all", "all_others"} \ {q} =>
               Matching(P, q) = {n} /\ q \notin DOMAIN P
  <2>1. Matching(P, q) \subseteq DOMAIN P /\ None \notin DOMAIN P
    BY <1>2, NamesAssumption DEF Matching
  <2>2. CASE q \in DOMAIN P
    <3>1. FindPathConf(P, q) = q
      BY <2>2 DEF FindPathConf
    <3> QED
      BY <2>1, <2>2, <3>1
  <2>3. CASE q \notin DOMAIN P /\ (~IsValidPathName(q) \/ Matching(P, q) = {})
    <3>1. FindPathConf(P, q) = None
      BY <2>3 DEF FindPathConf
    <3>2. q \in Invalid \/ Matching(P, q) = {}
      BY <2>3 DEF IsValidPathName
    <3>3. None \notin {"all", "all_others"}
      BY NamesAssumption DEF Aliases
    <3> QED
      BY <2>3, <3>1, <3>2, <3>3
  <2>4. CASE q \notin DOMAIN P /\ IsValidPathName(q) /\ Matching(P, q) # {}
    <3> DEFINE n == FindPathConf(P, q)
    <3>1. n \in Matching(P, q) /\ \A o \in Matching(P, q) : Rank(n) <= Rank(o)
      BY <1>2, <2>4, FirstMatching
    <3> HIDE DEF n
    <3>2. n \in DOMAIN P /\ n # None
      BY <2>1, <3>1
    <3>3. q \notin Invalid
      BY <2>4 DEF IsValidPathName
    <3>4. ASSUME n \in {"all", "all_others"}, NEW o \in Matching(P, q) PROVE o = n
      <4>1. Rank(n) > Len(NameOrder) /\ Rank(n) <= Rank(o)
            /\ Rank(n) \in Nat /\ Rank(o) \in Nat
        BY <1>2, <2>1, <3>1, <3>4, RankIs
      <4>2. o \in {"all", "all_others"}
        BY <4>1, <1>2, <2>1, RankIs, NamesAssumption
      <4> QED
        BY <4>2, <2>1, <3>2, <3>4, <1>4 DEF Aliases
    <3>5. n \in {"all", "all_others"} => Matching(P, q) = {n}
      BY <3>1, <3>4
    <3> QED
      BY <2>1, <2>4, <3>1, <3>2, <3>3, <3>5 DEF n
  <2> QED
    BY <2>2, <2>3, <2>4
<1> QED
  BY <1>5 DEF LookupAgrees, P

-----------------------------------------------------------------------------
(***************************************************************************)
(* What is in force is valid again.                                        *)
(***************************************************************************)

\* What is written, of what is in force, is what is in force.
LEMMA WrittenIs ==
    ASSUME NEW d, IsDerived(d)
    PROVE  /\ IsWritten(Written(d))
           /\ Written(d).global = d.global /\ Written(d).defaults = d.defaults
           /\ Written(d).own = d.own
           /\ HasLegacy(Written(d)) <=> HasLegacy(d)
           /\ ConvertedDefaults(Written(d)) = d.defaults
           /\ OptionalPaths(d.own) = d.own /\ PathValues(Written(d)) = PathValues(d)
<1>1. /\ IsWritten(Written(d)) /\ Written(d).global = d.global
      /\ Written(d).defaults = d.defaults /\ Written(d).own = d.own
  BY DEF IsDerived, Written
<1>2. HasLegacy(Written(d)) <=> HasLegacy(d)
  BY <1>1 DEF HasLegacy
<1>3. ConvertedDefaults(Written(d)) = ConvertedDefaults(d)
  BY <1>1 DEF ConvertedDefaults
<1>4. ConvertedDefaults(d) = d.defaults
  BY DEF IsDerived
<1>5. PathValues(Written(d)) = PathValues(d)
  BY <1>1, <1>3 DEF PathValues
<1> QED
  BY <1>1, <1>2, <1>3, <1>4, <1>5, ValuesAre

\* The users made of legacy credentials are not those of a new configuration.
LEMMA LegacyIsNotDefault ==
    ASSUME NEW paths
    PROVE  LegacyUsers(paths) # defaultAuthInternalUsers
<1>1. User("any", "", "playback", None) \in LegacyUsers(paths)
  BY DEF LegacyUsers
<1>2. User("any", "", "playback", None) \notin defaultAuthInternalUsers
  <2>1. User("any", "", "playback", None).action = "playback"
    BY DEF User
  <2>2. \A u \in defaultAuthInternalUsers : u.action \in {"media", "admin"}
    <3>1. User("any", "", "media", None).action = "media"
          /\ User("any", "", "admin", None).action = "admin"
      BY DEF User
    <3> QED
      BY <3>1 DEF defaultAuthInternalUsers
  <2> QED
    BY <2>1, <2>2
<1> QED
  BY <1>1, <1>2

\* The list of WebRTC servers, with the old one again.
LEMMA ListStaysValid ==
    ASSUME NEW s \in Seq(STRING), NEW t \in Seq(STRING),
           \A i \in DOMAIN t : \E j \in DOMAIN s : s[j] = t[i]
    PROVE  /\ (\A i \in DOMAIN s : s[i] # "bad") =>
                  \A i \in DOMAIN (s \o t) : (s \o t)[i] # "bad"
           /\ s # <<>> => s \o t # <<>>
<1>1. \A i \in DOMAIN (s \o t) : \/ i \in DOMAIN s /\ (s \o t)[i] = s[i]
                                 \/ i - Len(s) \in DOMAIN t /\ (s \o t)[i] = t[i - Len(s)]
  OBVIOUS
<1>2. ASSUME \A i \in DOMAIN s : s[i] # "bad", NEW i \in DOMAIN (s \o t)
      PROVE  (s \o t)[i] # "bad"
  BY <1>1, <1>2
<1>3. s # <<>> => s \o t # <<>>
  OBVIOUS
<1> QED
  BY <1>2, <1>3

LEMMA ValidAgain ==
    ASSUME NEW d, IsDerived(d), ~HasLegacy(d)
    PROVE  IsValid(Written(d))
<1> DEFINE g == d.global
           h == Converted(d.global)
           w == Written(d)
<1>1. /\ IsWritten(w) /\ w.global = g /\ w.own = d.own /\ ~HasLegacy(w)
      /\ OptionalPaths(d.own) = d.own /\ PathValues(w) = PathValues(d)
      /\ DOMAIN g = GlobalFields
  BY WrittenIs DEF IsWritten
<1>2. Agree(h, g)
  BY DEF IsDerived, Agree
<1>3. UsersChecked(w) = g.authInternalUsers
  BY <1>1 DEF UsersChecked
<1> HIDE DEF w, h
<1>4. ValidAuth(g, g.authInternalUsers) /\ ValidServers(g, g.authInternalUsers)
  BY DEF IsDerived
<1>5. ValidAuth(h, g.authInternalUsers) /\ ValidRTSP(h, g.authInternalUsers)
      /\ h["on"] = g["on"] /\ h.addresses = g.addresses /\ h.writeQueueSize = g.writeQueueSize
  BY <1>2, <1>4, ChecksAgree DEF ValidServers
<1>6. ValidWebRTC(h)
  <2> DEFINE s == g.webrtcICEServers2
             t == OldList(g)
  <2>1. s \in Seq(STRING) /\ t \in Seq(STRING)
        /\ \A i \in DOMAIN t : \E j \in DOMAIN s : s[j] = t[i]
    BY DEF IsDerived, IsWritten, Written
  <2>2. h.webrtcICEServers2 = s \o t
    <3>1. s \o <<>> = s
      BY <2>1
    <3> QED
      BY <1>1, <3>1, ConvertedList DEF h, OldList
  <2>3. ValidWebRTC(g)
    BY <1>4 DEF ValidServers
  <2> HIDE DEF s, t
  <2>4. "webrtc" \in g["on"] => /\ \A i \in DOMAIN s : s[i] # "bad"
                                /\ "webrtcLocal" \in g.addresses \/ s # <<>>
    BY <2>3 DEF ValidWebRTC, s
  <2>5. "webrtc" \in g["on"] => /\ \A i \in DOMAIN (s \o t) : (s \o t)[i] # "bad"
                                /\ "webrtcLocal" \in g.addresses \/ s \o t # <<>>
    BY <2>1, <2>4, ListStaysValid
  <2> QED
    BY <2>2, <2>5, <1>5 DEF ValidWebRTC
<1>7. ValidServers(h, g.authInternalUsers)
  BY <1>4, <1>5, <1>6 DEF ValidServers
<1>8. \A n \in DOMAIN d.own : validate(h, PathValues(d), n)
  BY <1>2, ChecksAgree DEF IsDerived
<1>9. IsPowerOfTwo(h.writeQueueSize) /\ Cardinality(DOMAIN d.own \cap Aliases) <= 1
  BY <1>5 DEF IsDerived
<1>10. IsValid(w)
  BY <1>1, <1>3, <1>5, <1>7, <1>8, <1>9 DEF IsValid, h
<1> QED
  BY <1>10 DEF w

LEMMA DerivedAgain ==
    ASSUME NEW d, IsDerived(d), ~HasLegacy(d)
    PROVE  Derivation(Written(d)) =
               [d EXCEPT !.global.webrtcICEServers2 = @ \o OldList(d.global)]
<1> DEFINE g == d.global
           w == Written(d)
           h == [Converted(g) EXCEPT !.authInternalUsers = g.authInternalUsers]
           k == [g EXCEPT !.webrtcICEServers2 = @ \o OldList(g)]
<1>1. /\ IsWritten(w) /\ w.global = g /\ w.own = d.own /\ w.defaults = d.defaults
      /\ ~HasLegacy(w) /\ ConvertedDefaults(w) = d.defaults
      /\ OptionalPaths(d.own) = d.own /\ PathValues(w) = PathValues(d)
  BY WrittenIs
<1>2. /\ DOMAIN g = GlobalFields /\ g.webrtcICEServers2 \in Seq(STRING)
      /\ \A f \in GlobalFields \ {"webrtcICEServers2"} : Converted(g)[f] = g[f]
  BY DEF IsDerived, IsWritten, Written
<1>3. Converted(g).webrtcICEServers2 = g.webrtcICEServers2 \o OldList(g)
  <2>1. g.webrtcICEServers2 \o <<>> = g.webrtcICEServers2
    BY <1>2
  <2> QED
    BY <1>2, <2>1, ConvertedList DEF OldList
<1>4. h = k
  <2>1. DOMAIN h = GlobalFields /\ DOMAIN k = GlobalFields
    BY <1>2, ConvertedShape
  <2>2. DOMAIN Converted(g) = GlobalFields
    BY <1>2, ConvertedShape
  <2>3. \A f \in GlobalFields : h[f] = k[f]
    BY <1>2, <1>3, <2>2, FieldsAre
  <2>4. h = [f \in GlobalFields |-> h[f]] /\ k = [f \in GlobalFields |-> k[f]]
    BY <2>1, <2>2, <1>2
  <2> HIDE DEF h, k
  <2> QED
    BY <2>3, <2>4
<1>5. Derivation(w) = [global |-> h, defaults |-> d.defaults, own |-> d.own,
                       paths |-> Paths(d.own, PathValues(d))]
  BY <1>1 DEF Derivation, Users
<1>6. /\ d = [global |-> d.global, defaults |-> d.defaults, own |-> d.own, paths |-> d.paths]
      /\ d.paths = Paths(d.own, PathValues(d))
  BY DEF IsDerived
<1>7. [d EXCEPT !.global = k] = [global |-> k, defaults |-> d.defaults, own |-> d.own,
                                 paths |-> d.paths]
  <2> HIDE DEF k
  <2> QED
    BY <1>6
<1>8. [d EXCEPT !.global.webrtcICEServers2 = @ \o OldList(g)] = [d EXCEPT !.global = k]
  OBVIOUS
<1> QED
  BY <1>4, <1>5, <1>6, <1>7, <1>8

LEMMA StaysCorrect == ConfInv => StaysValid
<1> SUFFICES ASSUME ConfInv PROVE StaysValid
  OBVIOUS
<1>1. IsDerived(conf) /\ IsWritten(Written(conf))
  BY WrittenIs DEF ConfInv
<1>2. Validate(Written(conf)) =
        IF IsValid(Written(conf)) THEN Derivation(Written(conf)) ELSE None
  BY <1>1, ValidateIs
<1>3. CASE HasLegacy(conf)
  <2>1. HasLegacy(Written(conf)) /\ Written(conf).global = conf.global
    BY <1>1, <1>3, WrittenIs
  <2>2. conf.global.authInternalUsers # defaultAuthInternalUsers
    BY <1>1, <1>3, LegacyIsNotDefault DEF IsDerived
  <2>3. ~IsValid(Written(conf))
    BY <2>1, <2>2 DEF IsValid, LegacyAllowed
  <2> QED
    BY <1>2, <1>3, <2>3 DEF StaysValid
<1>4. CASE ~HasLegacy(conf)
  <2>1. Validate(Written(conf)) =
          [conf EXCEPT !.global.webrtcICEServers2 = @ \o OldList(conf.global)]
    BY <1>1, <1>2, <1>4, ValidAgain, DerivedAgain
  <2> QED
    BY <1>4, <2>1 DEF StaysValid, OldList
<1> QED
  BY <1>3, <1>4

-----------------------------------------------------------------------------
(***************************************************************************)
(* What an accepted edit makes of what is in force.                        *)
(***************************************************************************)

\* The value of parameter f of path n, before an old parameter decides it.
Value(d, n, f) == IF f \in DOMAIN d.own[n] THEN d.own[n][f] ELSE d.defaults[f]
OldOverride(d, n) == Value(d, n, "disablePublisherOverride")

LEMMA ValueIs ==
    ASSUME NEW d, IsDerived(d), NEW n \in DOMAIN d.own
    PROVE  /\ n \in DOMAIN d.paths
           /\ \A f \in PathFields \ {"overridePublisher"} : d.paths[n][f] = Value(d, n, f)
           /\ OldOverride(d, n) = None =>
                  d.paths[n].overridePublisher = Value(d, n, "overridePublisher")
           /\ "overridePublisher" \in Decided(d, n) <=> OldOverride(d, n) # None
<1> DEFINE v == PathValues(d)
<1>1. /\ DOMAIN v[n] = PathFields /\ d.paths[n] = Derived(v, n) /\ n \in DOMAIN d.paths
      /\ \A f \in PathFields : v[n][f] = Value(d, n, f)
      /\ n # None
  BY ValuesAre, NamesAssumption DEF Value
<1> HIDE DEF v
<1>2. \A f \in PathFields \ {"overridePublisher"} : d.paths[n][f] = Value(d, n, f)
  BY <1>1, DerivedIs
<1>3. v[n].disablePublisherOverride = None =>
          d.paths[n].overridePublisher = v[n].overridePublisher
  BY <1>1, DerivedIs
<1>4. v[n].disablePublisherOverride = OldOverride(d, n)
      /\ v[n].overridePublisher = Value(d, n, "overridePublisher")
  BY <1>1, FieldsAre DEF OldOverride
<1>5. d.paths[n].disablePublisherOverride = OldOverride(d, n)
  BY <1>2, FieldsAre DEF OldOverride
<1>6. "overridePublisher" \in Decided(d, n) <=> OldOverride(d, n) # None
  BY <1>1, <1>5 DEF Decided, FilledFields
<1> QED
  BY <1>1, <1>2, <1>3, <1>4, <1>6

\* Two configurations, of which the second has an old override if the first has.
LEMMA ValuesInForce ==
    ASSUME NEW c, NEW d, IsDerived(c), IsDerived(d),
           NEW n \in DOMAIN c.own \cap DOMAIN d.own,
           OldOverride(d, n) = None => OldOverride(c, n) = None,
           NEW f \in PathFields \ Decided(d, n)
    PROVE  c.paths[n][f] = Value(c, n, f) /\ d.paths[n][f] = Value(d, n, f)
BY ValueIs

LEMMA SameIs ==
    ASSUME NEW c, NEW d, IsDerived(c), IsDerived(d), NEW F, F \subseteq PathFields,
           "disablePublisherOverride" \in F, \A f \in F : c.defaults[f] = d.defaults[f],
           NEW n, n \in DOMAIN c.own <=> n \in DOMAIN d.own,
           n \in DOMAIN c.own => c.own[n] = d.own[n]
    PROVE  SameValues(c, d, n, F)
<1>1. DOMAIN c.paths = DOMAIN c.own /\ DOMAIN d.paths = DOMAIN d.own
  BY ValuesAre
<1>2. ASSUME n \in DOMAIN c.own, NEW f \in F \ Decided(d, n)
      PROVE  c.paths[n][f] = d.paths[n][f]
  <2>1. \A x \in F : Value(c, n, x) = Value(d, n, x)
    BY <1>2 DEF Value
  <2>2. OldOverride(c, n) = OldOverride(d, n)
    BY <2>1 DEF OldOverride
  <2> QED
    BY <1>2, <2>1, <2>2, ValuesInForce
<1> QED
  BY <1>1, <1>2 DEF SameValues

\* What an edit of what is in force leaves in force, before the cases.
LEMMA DerivationIs ==
    ASSUME NEW w, IsWritten(w), IsValid(w)
    PROVE  LET d == Derivation(w) IN
        /\ IsDerived(d)
        /\ d.own = OptionalPaths(w.own) /\ d.defaults = ConvertedDefaults(w)
        /\ d.global.authInternalUsers = Users(w)
        /\ \A f \in GlobalFields \ {"authInternalUsers"} :
               d.global[f] = Converted(w.global)[f]
        /\ \A f \in NotConverted \ {"authInternalUsers"} : d.global[f] = w.global[f]
        /\ \A f \in PathFields : d.defaults[f] =
               IF f \in RecordParameters /\ d.global[f] # None THEN d.global[f]
               ELSE w.defaults[f]
        /\ HasLegacy(d) <=> HasLegacy(w)
<1> DEFINE d == Derivation(w)
<1>1. IsDerived(d)
  BY DerivationIsDerived
<1>2. /\ d.global = [Converted(w.global) EXCEPT !.authInternalUsers = Users(w)]
      /\ d.own = OptionalPaths(w.own) /\ d.defaults = ConvertedDefaults(w)
  BY DEF Derivation
<1> HIDE DEF d
<1>3. /\ DOMAIN w.global = GlobalFields /\ DOMAIN w.defaults = PathFields
      /\ DOMAIN w.own \subseteq Names
      /\ \A n \in DOMAIN w.own : Given(w.own[n], PathFields)
  BY DEF IsWritten
<1>4. /\ d.global.authInternalUsers = Users(w)
      /\ \A f \in GlobalFields \ {"authInternalUsers"} : d.global[f] = Converted(w.global)[f]
  BY <1>2, <1>3, ConvertedShape, FieldsAre
<1>5. \A f \in NotConverted \ {"authInternalUsers"} : d.global[f] = w.global[f]
  BY <1>3, <1>4, ConvertedKeeps
<1>6. \A f \in PathFields : d.defaults[f] =
          IF f \in RecordParameters /\ w.global[f] # None THEN w.global[f]
          ELSE w.defaults[f]
  BY <1>2, <1>3 DEF ConvertedDefaults
<1>7. \A f \in PathFields : d.defaults[f] =
          IF f \in RecordParameters /\ d.global[f] # None THEN d.global[f]
          ELSE w.defaults[f]
  BY <1>5, <1>6 DEF NotConverted, RecordParameters
<1>8. HasLegacy(d) <=> HasLegacy(w)
  <2>1. \A f \in LegacyParameters : d.defaults[f] = w.defaults[f]
    BY <1>6, FieldsAre DEF LegacyParameters, RecordParameters
  <2>2. \A f : (\E n \in DOMAIN d.own : f \in DOMAIN d.own[n]) <=>
               (\E n \in DOMAIN w.own : f \in DOMAIN w.own[n])
    BY <1>2, <1>3, OptionalPathsIs
  <2> QED
    BY <2>1, <2>2 DEF HasLegacy, anyPathHasDeprecatedCredentials
<1> QED
  BY <1>1, <1>2, <1>4, <1>5, <1>7, <1>8 DEF d

\* An edit of the global parameters.
LEMMA GlobalInForce ==
    ASSUME NEW c, IsDerived(c), NEW patch \in GlobalPatches, NEW e,
           e.kind = "global", e.patch = patch,
           IsValid(PatchGlobal(Written(c), patch))
    PROVE  InForce(e, c, Derivation(PatchGlobal(Written(c), patch)))
<1> DEFINE w == PatchGlobal(Written(c), patch)
           d == Derivation(PatchGlobal(Written(c), patch))
<1>1. /\ IsWritten(Written(c)) /\ Written(c).global = c.global
      /\ Written(c).defaults = c.defaults /\ Written(c).own = c.own
      /\ OptionalPaths(c.own) = c.own
  BY WrittenIs
<1>2. /\ w.global = copyStructFields(c.global, patch)
      /\ w.defaults = c.defaults /\ w.own = c.own
  BY <1>1 DEF PatchGlobal, Written
<1>3. IsWritten(w)
  BY <1>1, GlobalIsWritten
<1>4. Given(patch, GlobalFields) /\ DOMAIN c.global = GlobalFields
      /\ DOMAIN w.global = GlobalFields
  BY <1>1, <1>3, ValuesAssumption DEF GlobalFields, IsWritten
<1>5. \A f \in DOMAIN patch : f \in GlobalFields /\ w.global[f] = patch[f]
  <2>1. \A f \in DOMAIN c.global \cup DOMAIN patch : copyStructFields(c.global, patch)[f] =
            IF f \in DOMAIN patch THEN patch[f] ELSE c.global[f]
    BY DEF copyStructFields
  <2> HIDE DEF w
  <2> QED
    BY <2>1, <1>2, <1>4 DEF Given
<1> HIDE DEF w, d
<1>6. /\ IsDerived(d) /\ d.own = OptionalPaths(w.own)
      /\ d.global.authInternalUsers = Users(w)
      /\ \A f \in GlobalFields \ {"authInternalUsers"} : d.global[f] = Converted(w.global)[f]
      /\ \A f \in NotConverted \ {"authInternalUsers"} : d.global[f] = w.global[f]
      /\ \A f \in PathFields : d.defaults[f] =
               IF f \in RecordParameters /\ d.global[f] # None THEN d.global[f]
               ELSE w.defaults[f]
      /\ HasLegacy(d) <=> HasLegacy(w)
  BY <1>3, DerivationIs DEF d, w
<1>7. \A n \in Names : SameValues(c, d, n, PathFields \ RecordParameters)
  <2>1. \A f \in PathFields \ RecordParameters : c.defaults[f] = d.defaults[f]
    BY <1>2, <1>6
  <2>2. "disablePublisherOverride" \in PathFields \ RecordParameters
    BY FieldsAre DEF RecordParameters
  <2>3. d.own = c.own
    BY <1>1, <1>2, <1>6
  <2> QED
    BY <1>6, <2>1, <2>2, <2>3, SameIs
<1>8. ASSUME NEW f \in DOMAIN patch
      PROVE  \/ d.global[f] = patch[f]
             \/ Overriding(d.global, f) # {}
             \/ f = "on" /\ \E s \in DOMAIN Switch : d.global[s] # None
             \/ f = "webrtcICEServers2" /\ d.global.webrtcICEServers # None
             \/ /\ f \in {"authMethod", "authHTTPAddress"}
                /\ d.global.externalAuthenticationURL # None
             \/ f = "authInternalUsers" /\ HasLegacy(d)
  <2>1. f \in GlobalFields /\ w.global[f] = patch[f]
    BY <1>5
  <2>2. CASE f = "authInternalUsers"
    BY <2>1, <2>2, <1>6 DEF Users
  <2>3. CASE f \in {"authMethod", "authHTTPAddress"}
    <3>1. d.global.externalAuthenticationURL = w.global.externalAuthenticationURL
      BY <1>6 DEF NotConverted
    <3>2. d.global[f] = Converted(w.global)[f]
      BY <1>6, <2>1, <2>3
    <3> QED
      BY <3>1, <3>2, <2>1, <2>3, <1>4, ConvertedAuth
  <2>4. CASE f = "webrtcICEServers2"
    <3>1. d.global.webrtcICEServers = w.global.webrtcICEServers
      BY <1>6 DEF NotConverted
    <3>2. d.global[f] = Converted(w.global)[f]
      BY <1>6, <2>1, <2>4
    <3> QED
      BY <3>1, <3>2, <2>1, <2>4, <1>4, ConvertedList
  <2>5. CASE f = "on"
    <3>1. d.global["on"] = Converted(w.global)["on"]
      BY <1>6, <2>1, <2>5
    <3>2. \A s \in DOMAIN Switch : d.global[s] = w.global[s]
      BY <1>6 DEF NotConverted, Switch
    <3>3. ASSUME \A s \in DOMAIN Switch : d.global[s] = None
          PROVE  d.global["on"] = w.global["on"]
      <4> DEFINE off == {Switch[x] : x \in {x \in DOMAIN Switch : w.global[x] = TRUE}}
                 made == {Switch[x] : x \in {x \in DOMAIN Switch : w.global[x] = FALSE}}
      <4>1. off = {} /\ made = {}
        <5>1. None # TRUE /\ None # FALSE
          BY NamesAssumption
        <5>2. \A x \in DOMAIN Switch : w.global[x] # TRUE /\ w.global[x] # FALSE
          BY <3>2, <3>3, <5>1
        <5> QED
          BY <5>2
      <4>2. Converted(w.global)["on"] = (w.global["on"] \ off) \cup made
        BY <1>4, ConvertedOn
      <4> HIDE DEF off, made
      <4> QED
        BY <3>1, <4>1, <4>2
    <3> QED
      BY <3>3, <2>1, <2>5
  <2>6. CASE f \notin {"authInternalUsers", "authMethod", "authHTTPAddress", "on",
                       "webrtcICEServers2"}
    <3>1. d.global[f] = Converted(w.global)[f]
      BY <1>6, <2>1, <2>6
    <3>2. \A o \in DOMAIN Successor : d.global[o] = w.global[o]
      BY <1>6 DEF NotConverted, Successor
    <3>3. Overriding(d.global, f) = Overriding(w.global, f)
      BY <3>2 DEF Overriding
    <3> QED
      BY <3>1, <3>3, <2>1, <2>6, <1>4, ConvertedOther
  <2> QED
    BY <2>2, <2>3, <2>4, <2>5, <2>6
<1>9. InForce(e, c, d)
  BY <1>7, <1>8 DEF InForce
<1> QED
  BY <1>9 DEF d

\* An edit of the defaults of the paths.
LEMMA DefaultsInForce ==
    ASSUME NEW c, IsDerived(c), NEW patch \in DefaultPatches, NEW e,
           e.kind = "defaults", e.patch = patch,
           IsValid(PatchPathDefaults(Written(c), patch))
    PROVE  InForce(e, c, Derivation(PatchPathDefaults(Written(c), patch)))
<1> DEFINE w == PatchPathDefaults(Written(c), patch)
           d == Derivation(PatchPathDefaults(Written(c), patch))
<1>1. /\ IsWritten(Written(c)) /\ Written(c).global = c.global
      /\ Written(c).defaults = c.defaults /\ Written(c).own = c.own
      /\ OptionalPaths(c.own) = c.own
  BY WrittenIs
<1>2. /\ w.defaults = copyStructFields(c.defaults, patch)
      /\ w.global = c.global /\ w.own = c.own
  BY <1>1 DEF PatchPathDefaults, Written
<1>3. IsWritten(w)
  BY <1>1, DefaultsAreWritten
<1>4. Given(patch, PathFields) /\ DOMAIN c.defaults = PathFields
  BY <1>1, ValuesAssumption DEF PathFields, IsWritten
<1>5. \A f \in PathFields :
         w.defaults[f] = IF f \in DOMAIN patch THEN patch[f] ELSE c.defaults[f]
  <2>1. \A f \in DOMAIN c.defaults \cup DOMAIN patch :
            copyStructFields(c.defaults, patch)[f] =
                IF f \in DOMAIN patch THEN patch[f] ELSE c.defaults[f]
    BY DEF copyStructFields
  <2> HIDE DEF w
  <2> QED
    BY <2>1, <1>2, <1>4 DEF Given
<1> HIDE DEF w, d
<1>6. /\ IsDerived(d) /\ d.own = OptionalPaths(w.own)
      /\ \A f \in NotConverted \ {"authInternalUsers"} : d.global[f] = w.global[f]
      /\ \A f \in PathFields : d.defaults[f] =
               IF f \in RecordParameters /\ d.global[f] # None THEN d.global[f]
               ELSE w.defaults[f]
  BY <1>3, DerivationIs DEF d, w
<1>7. d.own = c.own /\ \A f \in RecordParameters : d.global[f] = c.global[f]
  BY <1>1, <1>2, <1>6 DEF NotConverted, RecordParameters
<1>8. \A f \in PathFields : f \in RecordParameters /\ c.global[f] # None =>
          c.defaults[f] = c.global[f]
  BY <1>4 DEF IsDerived, ConvertedDefaults
<1>9. \A n \in DOMAIN d.own : OldOverride(d, n) = None => OldOverride(c, n) = None
  <2>1. "disablePublisherOverride" \in PathFields \ RecordParameters
    BY FieldsAre DEF RecordParameters
  <2> QED
    BY <2>1, <1>4, <1>5, <1>6, <1>7 DEF OldOverride, Value, Given
<1>10. ASSUME NEW n \in DOMAIN d.paths, NEW f \in PathFields \ Decided(d, n)
       PROVE  d.paths[n][f] = IF f \in DOMAIN patch \ DOMAIN d.own[n]
                                 /\ (f \in RecordParameters => d.global[f] = None)
                              THEN patch[f] ELSE c.paths[n][f]
  <2>1. n \in DOMAIN c.own \cap DOMAIN d.own
    BY <1>6, <1>7, ValuesAre
  <2>2. c.paths[n][f] = Value(c, n, f) /\ d.paths[n][f] = Value(d, n, f)
    BY <2>1, <1>6, <1>9, ValuesInForce
  <2>3. CASE f \in DOMAIN d.own[n]
    BY <2>2, <2>3, <1>7 DEF Value
  <2>4. CASE f \notin DOMAIN d.own[n]
    <3>1. c.paths[n][f] = c.defaults[f] /\ d.paths[n][f] = d.defaults[f]
      BY <2>2, <2>4, <1>7 DEF Value
    <3> QED
      BY <3>1, <2>4, <1>5, <1>6, <1>7, <1>8
  <2> QED
    BY <2>3, <2>4
<1>11. InForce(e, c, d)
  BY <1>10 DEF InForce
<1> QED
  BY <1>11 DEF d

\* An edit of the paths leaves the defaults alone.
LEMMA DefaultsStay ==
    ASSUME NEW c, IsDerived(c), NEW w, IsWritten(w), IsValid(w),
           w.global = c.global, w.defaults = c.defaults
    PROVE  \A f \in PathFields : Derivation(w).defaults[f] = c.defaults[f]
<1> DEFINE d == Derivation(w)
<1>1. \A f \in PathFields : d.defaults[f] =
          IF f \in RecordParameters /\ d.global[f] # None THEN d.global[f]
          ELSE c.defaults[f]
  BY DerivationIs
<1>2. \A f \in NotConverted \ {"authInternalUsers"} : d.global[f] = c.global[f]
  BY DerivationIs
<1> HIDE DEF d
<1>3. \A f \in RecordParameters : d.global[f] = c.global[f]
  BY <1>2 DEF NotConverted, RecordParameters
<1>4. DOMAIN c.defaults = PathFields
  BY DEF IsDerived, IsWritten, Written
<1>5. \A f \in PathFields : f \in RecordParameters /\ c.global[f] # None =>
          c.defaults[f] = c.global[f]
  BY <1>4 DEF IsDerived, ConvertedDefaults
<1> QED
  BY <1>1, <1>3, <1>5 DEF d

\* A path is added, patched or replaced.
LEMMA PathInForce ==
    ASSUME NEW c, IsDerived(c), NEW w, IsWritten(w), IsValid(w),
           w.global = c.global, w.defaults = c.defaults,
           NEW patch, Given(patch, PathFields), NEW n \in DOMAIN w.own,
           NEW e, e.kind \in {"add", "patch", "replace"}, e.name = n, e.patch = patch,
           \A m \in Names \ {n} : /\ m \in DOMAIN c.own <=> m \in DOMAIN w.own
                                  /\ m \in DOMAIN c.own => w.own[m] = c.own[m],
           IF e.kind = "patch"
           THEN n \in DOMAIN c.own /\ w.own[n] = copyStructFields(c.own[n], patch)
           ELSE w.own[n] = patch
    PROVE  InForce(e, c, Derivation(w))
<1> DEFINE d == Derivation(w)
<1>1. /\ DOMAIN w.own \subseteq Names
      /\ \A m \in DOMAIN w.own : Given(w.own[m], PathFields)
  BY DEF IsWritten
<1>2. OptionalPaths(w.own) = w.own
  BY DEF OptionalPaths
<1>3. IsDerived(d) /\ d.own = w.own
  BY <1>2, DerivationIs
<1>4. \A f \in PathFields : d.defaults[f] = c.defaults[f]
  BY DefaultsStay
<1> HIDE DEF d
<1>5. "disablePublisherOverride" \in PathFields
  BY FieldsAre
<1>6. ASSUME NEW m \in Names \ {n} PROVE SameValues(c, d, m, PathFields)
  BY <1>3, <1>4, <1>5, SameIs
<1>7. ASSUME NEW f \in PathFields \ Decided(d, n)
      PROVE  d.paths[n][f] = IF f \in DOMAIN patch THEN patch[f]
                             ELSE IF e.kind = "patch" THEN c.paths[n][f]
                             ELSE d.defaults[f]
  <2>1. CASE e.kind # "patch"
    <3>1. d.own[n] = patch
      BY <1>3, <2>1
    <3>2. d.paths[n][f] = Value(d, n, f)
      <4>1. n \in DOMAIN d.own
        BY <1>3
      <4>2. f # "overridePublisher" \/ OldOverride(d, n) = None
        BY <1>3, <4>1, ValueIs
      <4> QED
        BY <1>3, <4>1, <4>2, ValueIs
    <3> QED
      BY <3>1, <3>2, <2>1 DEF Value
  <2>2. CASE e.kind = "patch"
    <3>1. n \in DOMAIN c.own \cap DOMAIN d.own /\ d.own[n] = copyStructFields(c.own[n], patch)
      BY <1>3, <2>2
    <3>2. /\ DOMAIN copyStructFields(c.own[n], patch) = DOMAIN c.own[n] \cup DOMAIN patch
          /\ \A x \in DOMAIN c.own[n] \cup DOMAIN patch :
                copyStructFields(c.own[n], patch)[x] =
                    IF x \in DOMAIN patch THEN patch[x] ELSE c.own[n][x]
      BY DEF copyStructFields
    <3>3. \A x \in PathFields : Value(d, n, x) =
              IF x \in DOMAIN patch THEN patch[x] ELSE Value(c, n, x)
      BY <3>1, <3>2, <1>4 DEF Value
    <3>4. OldOverride(d, n) = None => OldOverride(c, n) = None
      BY <3>3, <1>5 DEF OldOverride, Given
    <3>5. c.paths[n][f] = Value(c, n, f) /\ d.paths[n][f] = Value(d, n, f)
      BY <3>1, <3>4, <1>3, ValuesInForce
    <3> QED
      BY <3>3, <3>5, <2>2
  <2> QED
    BY <2>1, <2>2
<1>8. /\ \A m \in Names \ {e.name} : SameValues(c, d, m, PathFields)
      /\ \A f \in PathFields \ Decided(d, e.name) :
            d.paths[e.name][f] = IF f \in DOMAIN e.patch THEN e.patch[f]
                                 ELSE IF e.kind = "patch" THEN c.paths[e.name][f]
                                 ELSE d.defaults[f]
  BY <1>6, <1>7
<1>9. InForce(e, c, d)
  BY <1>8 DEF InForce
<1> QED
  BY <1>9 DEF d

\* A path is removed.
LEMMA RemoveInForce ==
    ASSUME NEW c, IsDerived(c), NEW n \in DOMAIN c.own, NEW e,
           e.kind = "remove", e.name = n, IsValid(RemovePath(Written(c), n))
    PROVE  InForce(e, c, Derivation(RemovePath(Written(c), n)))
<1> DEFINE w == RemovePath(Written(c), n)
           d == Derivation(RemovePath(Written(c), n))
<1>1. /\ IsWritten(Written(c)) /\ Written(c).global = c.global
      /\ Written(c).defaults = c.defaults /\ Written(c).own = c.own
  BY WrittenIs
<1>2. /\ IsWritten(w) /\ w.global = c.global /\ w.defaults = c.defaults
      /\ w.own = [m \in DOMAIN c.own \ {n} |-> c.own[m]]
  BY <1>1, RemoveIs
<1> HIDE DEF w, d
<1>3. IsValid(w) /\ d = Derivation(w)
  BY DEF w, d
<1>4. IsDerived(d) /\ d.own = OptionalPaths(w.own)
  BY <1>2, <1>3, DerivationIs
<1>5. \A f \in PathFields : d.defaults[f] = c.defaults[f]
  BY <1>2, <1>3, DefaultsStay
<1>6. DOMAIN w.own = DOMAIN c.own \ {n} /\ \A m \in DOMAIN w.own : w.own[m] = c.own[m]
  BY <1>2
<1>7. \/ DOMAIN w.own # {} /\ d.own = w.own
      \/ DOMAIN w.own = {} /\ DOMAIN d.own = {CatchAll}
  BY <1>4 DEF OptionalPaths
<1>8. n \in DOMAIN d.own => n = CatchAll /\ DOMAIN d.own = {CatchAll}
  BY <1>6, <1>7
<1>9. ASSUME NEW m \in Names \ {n, CatchAll} PROVE SameValues(c, d, m, PathFields)
  <2>1. /\ m \in DOMAIN c.own <=> m \in DOMAIN d.own
        /\ m \in DOMAIN c.own => c.own[m] = d.own[m]
    BY <1>6, <1>7
  <2> QED
    BY <2>1, <1>4, <1>5, FieldsAre, SameIs
<1>10. InForce(e, c, d)
  BY <1>8, <1>9 DEF InForce
<1> QED
  BY <1>10 DEF d

\* EditsTakeEffect, of a step.
Effect == IF last'.accepted THEN edits' > edits => InForce(last', conf, conf')
          ELSE last'.kind # "none" => conf' = conf

\* An edit has an effect if what it writes, when it is accepted, has.
LEMMA EditHasEffect ==
    ASSUME NEW kind, NEW n, NEW patch, NEW edited, Edit(kind, n, patch, edited),
           edited # None => IsWritten(edited),
           edited # None /\ IsValid(edited) =>
               \A e : e.kind = kind /\ e.name = n /\ e.patch = patch =>
                          InForce(e, conf, Derivation(edited))
    PROVE  Effect
BY EditIs DEF Effect

LEMMA EffectStep == ASSUME ConfInv, Next PROVE Effect
<1> DEFINE c == Written(conf)
<1>1. /\ IsDerived(conf) /\ IsWritten(c) /\ c.global = conf.global
      /\ c.defaults = conf.defaults /\ c.own = conf.own
  BY WrittenIs DEF ConfInv
<1> HIDE DEF c
<1>2. ASSUME NEW f \in Files, Reload(f) PROVE Effect
  BY <1>2 DEF Reload, NoEdit, Effect
<1>3. ASSUME EditGlobal PROVE Effect
  <2>1. PICK p \in GlobalPatches : Edit("global", None, p, PatchGlobal(c, p))
    BY <1>3 DEF EditGlobal, c
  <2>2. IsWritten(PatchGlobal(c, p))
    BY <1>1, GlobalIsWritten
  <2>3. IsValid(PatchGlobal(c, p)) =>
          \A e : e.kind = "global" /\ e.name = None /\ e.patch = p =>
                    InForce(e, conf, Derivation(PatchGlobal(c, p)))
    BY <1>1, GlobalInForce DEF c
  <2> QED
    BY <2>1, <2>2, <2>3, EditHasEffect
<1>4. ASSUME EditDefaults PROVE Effect
  <2>1. PICK p \in DefaultPatches : Edit("defaults", None, p, PatchPathDefaults(c, p))
    BY <1>4 DEF EditDefaults, c
  <2>2. IsWritten(PatchPathDefaults(c, p))
    BY <1>1, DefaultsAreWritten
  <2>3. IsValid(PatchPathDefaults(c, p)) =>
          \A e : e.kind = "defaults" /\ e.name = None /\ e.patch = p =>
                    InForce(e, conf, Derivation(PatchPathDefaults(c, p)))
    BY <1>1, DefaultsInForce DEF c
  <2> QED
    BY <2>1, <2>2, <2>3, EditHasEffect
<1>5. ASSUME NEW n \in Names, NEW p \in PathPatches, NEW kind \in {"add", "replace"},
             kind = "add" => n \notin DOMAIN c.own,
             Edit(kind, n, p, ReplacePath(c, n, p))
      PROVE  Effect
  <2> DEFINE w == ReplacePath(c, n, p)
  <2>1. /\ IsWritten(w) /\ w.global = conf.global /\ w.defaults = conf.defaults
        /\ w.own = [m \in DOMAIN conf.own \cup {n} |-> IF m = n THEN p ELSE conf.own[m]]
    BY <1>1, ReplaceIs
  <2>2. Given(p, PathFields)
    BY ValuesAssumption DEF PathFields
  <2> HIDE DEF w
  <2>3. /\ n \in DOMAIN w.own /\ w.own[n] = p
        /\ \A m \in Names \ {n} : /\ m \in DOMAIN conf.own <=> m \in DOMAIN w.own
                                  /\ m \in DOMAIN conf.own => w.own[m] = conf.own[m]
    BY <2>1
  <2>4. IsValid(w) => \A e : e.kind = kind /\ e.name = n /\ e.patch = p =>
                                InForce(e, conf, Derivation(w))
    BY <1>1, <2>1, <2>2, <2>3, PathInForce
  <2> QED
    BY <1>5, <2>1, <2>4, EditHasEffect DEF w
<1>6. ASSUME NEW n \in Names, AddOne(n) PROVE Effect
  <2>1. PICK p \in PathPatches : Edit("add", n, p, AddPath(c, n, p))
    BY <1>6 DEF AddOne, c
  <2>2. CASE n \in DOMAIN c.own
    <3>1. AddPath(c, n, p) = None
      BY <2>2 DEF AddPath
    <3> QED
      BY <2>1, <3>1, EditHasEffect
  <2>3. CASE n \notin DOMAIN c.own
    <3>1. AddPath(c, n, p) = ReplacePath(c, n, p)
      BY <2>3 DEF AddPath
    <3> QED
      BY <2>1, <2>3, <3>1, <1>5
  <2> QED
    BY <2>2, <2>3
<1>7. ASSUME NEW n \in Names, ReplaceOne(n) PROVE Effect
  BY <1>5, <1>7 DEF ReplaceOne, c
<1>8. ASSUME NEW n \in Names, PatchOne(n) PROVE Effect
  <2>1. PICK p \in PathPatches : Edit("patch", n, p, PatchPath(c, n, p))
    BY <1>8 DEF PatchOne, c
  <2> DEFINE w == PatchPath(c, n, p)
  <2>2. CASE n \notin DOMAIN c.own
    <3>1. w = None
      BY <2>2 DEF PatchPath
    <3> QED
      BY <2>1, <3>1, EditHasEffect
  <2>3. CASE n \in DOMAIN c.own
    <3>1. /\ IsWritten(w) /\ w.global = conf.global /\ w.defaults = conf.defaults
          /\ DOMAIN w.own = DOMAIN conf.own
          /\ \A m \in DOMAIN conf.own : w.own[m] =
                IF m = n THEN copyStructFields(conf.own[m], p) ELSE conf.own[m]
      BY <1>1, <2>3, PatchIs
    <3>2. Given(p, PathFields)
      BY ValuesAssumption DEF PathFields
    <3> HIDE DEF w
    <3>3. /\ n \in DOMAIN conf.own /\ n \in DOMAIN w.own
          /\ w.own[n] = copyStructFields(conf.own[n], p)
          /\ \A m \in Names \ {n} : /\ m \in DOMAIN conf.own <=> m \in DOMAIN w.own
                                    /\ m \in DOMAIN conf.own => w.own[m] = conf.own[m]
      BY <1>1, <2>3, <3>1
    <3>4. IsValid(w) => \A e : e.kind = "patch" /\ e.name = n /\ e.patch = p =>
                                  InForce(e, conf, Derivation(w))
      BY <1>1, <3>1, <3>2, <3>3, PathInForce
    <3> QED
      BY <2>1, <3>1, <3>4, EditHasEffect DEF w
  <2> QED
    BY <2>2, <2>3
<1>9. ASSUME NEW n \in Names, RemoveOne(n) PROVE Effect
  <2>1. Edit("remove", n, <<>>, RemovePath(c, n))
    BY <1>9 DEF RemoveOne, c
  <2>2. CASE n \notin DOMAIN c.own
    <3>1. RemovePath(c, n) = None
      BY <2>2 DEF RemovePath
    <3> QED
      BY <2>1, <3>1, EditHasEffect
  <2>3. CASE n \in DOMAIN c.own
    <3>1. IsWritten(RemovePath(c, n))
      BY <1>1, <2>3, RemoveIs
    <3>2. IsValid(RemovePath(c, n)) =>
            \A e : e.kind = "remove" /\ e.name = n /\ e.patch = <<>> =>
                      InForce(e, conf, Derivation(RemovePath(c, n)))
      BY <1>1, <2>3, RemoveInForce DEF c
    <3> QED
      BY <2>1, <3>1, <3>2, EditHasEffect
  <2> QED
    BY <2>2, <2>3
<1> QED
  BY <1>2, <1>3, <1>4, <1>6, <1>7, <1>8, <1>9 DEF Next

\* The invariant says what can be relied on.
LEMMA ConfImplies ==
    ConfInv => TypeOK /\ PathsAreUsable /\ LookupAgrees /\ StaysValid
BY ConfTypes, PathsUsable, LookupCorrect, StaysCorrect

\* After any sequence of loads and edits every path in force can be run, every
\* name is served by the entry that it should be, and what is in force is valid
\* again and stays what it is: for any files, patches and names.
THEOREM ConfCorrect ==
    Spec => [](TypeOK /\ PathsAreUsable /\ LookupAgrees /\ StaysValid)
BY ConfInit, ConfStep, ConfImplies, PTL DEF Spec

-----------------------------------------------------------------------------
(***************************************************************************)
(* External commands.                                                      *)
(***************************************************************************)

\* The hooks and the goroutines of their commands.
OwnersFit ==
  \A h \in Hooks :
    /\ owner[h] = "out" => routine[<<h, "on">>] = "none"
    /\ owner[h] # "closed" => routine[<<h, "after">>] = "none"

\* The goroutine of a command and its process: a command that has been launched
\* is only launched again if it is to be restarted.
RoutineFits(c) ==
  /\ process[c] # "none" => routine[c] \in {"running", "killing"}
  /\ routine[c] = "none" => launches[c] = 0
  /\ routine[c] = "paused" \/ (routine[c] = "launching" /\ launches[c] > 0) => C!Restart(c)
  /\ launches[c] > 1 => C!Restart(c)
  /\ strays[c] > 0 => system = "windows"
  /\ launches[c] \in 0..MaxLaunches /\ strays[c] \in 0..launches[c]

\* The pool waits once no hook is open, and is over once every goroutine is.
PoolFits ==
  /\ waiting # "no" => \A h \in Hooks : owner[h] # "open"
  /\ waiting = "over" => \A c \in C!Commands : routine[c] \in {"none", "done"}

CommandTypes ==
  /\ system \in Systems /\ hookConf \in [Hooks -> HookConfs]
  /\ owner \in [Hooks -> {"out", "open", "closed"}]
  /\ routine \in [C!Commands -> {"none", "launching", "running", "killing", "paused", "done"}]
  /\ process \in [C!Commands -> {"none", "alive", "dead"}]
  /\ launches \in [C!Commands -> Nat] /\ strays \in [C!Commands -> Nat]
  /\ waiting \in {"no", "yes", "over"}

CommandsInv ==
  /\ CommandTypes /\ OwnersFit /\ PoolFits
  /\ \A c \in C!Commands : RoutineFits(c)

\* A command is the first or the second of one hook.
LEMMA CommandIsPair ==
  /\ \A h \in Hooks : <<h, "on">> \in C!Commands /\ <<h, "after">> \in C!Commands
  /\ \A c \in C!Commands : c[1] \in Hooks /\ c[2] \in {"on", "after"} /\ c = <<c[1], c[2]>>
BY DEF C!Commands

\* It holds before any hook is opened.
LEMMA CommandsInit == ASSUME C!Init PROVE CommandsInv
<1>1. CommandTypes
  BY DEF C!Init, CommandTypes
<1>2. OwnersFit /\ PoolFits
  BY CommandIsPair DEF C!Init, OwnersFit, PoolFits
<1>3. ASSUME NEW c \in C!Commands PROVE RoutineFits(c)
  BY ServicesAssumption DEF C!Init, RoutineFits
<1> QED
  BY <1>1, <1>2, <1>3 DEF CommandsInv

\* What a goroutine does to its own command keeps what holds of the others,
\* and of the hooks unless it begins a command.
LEMMA OneCommand ==
  ASSUME CommandsInv, NEW c \in C!Commands, CommandTypes', RoutineFits(c)',
         UNCHANGED <<system, hookConf, owner, waiting>>,
         routine[c] = "none" => routine'[c] = "none",
         routine[c] = "done" => routine'[c] = "done",
         \A d \in C!Commands \ {c} :
            /\ routine'[d] = routine[d] /\ process'[d] = process[d]
            /\ launches'[d] = launches[d] /\ strays'[d] = strays[d]
  PROVE  CommandsInv'
<1>1. ASSUME NEW d \in C!Commands PROVE RoutineFits(d)'
  <2>1. CASE d = c
    BY <2>1
  <2>2. CASE d # c
    <3>1. RoutineFits(d)
      BY DEF CommandsInv
    <3> QED
      BY <2>2, <3>1 DEF RoutineFits, C!Restart
  <2> QED
    BY <2>1, <2>2
<1>2. \A d \in C!Commands : routine[d] = "none" => routine'[d] = "none"
  OBVIOUS
<1>3. \A d \in C!Commands : routine[d] = "done" => routine'[d] = "done"
  OBVIOUS
<1>4. OwnersFit'
  BY <1>2, CommandIsPair DEF CommandsInv, OwnersFit
<1>5. PoolFits'
  BY <1>2, <1>3 DEF CommandsInv, PoolFits
<1> QED
  BY <1>1, <1>4, <1>5 DEF CommandsInv

\* Each step of a command.
LEMMA CommandKeeps ==
  ASSUME CommandsInv, NEW c \in C!Commands, C!CommandStep(c)
  PROVE  CommandsInv'
<1>0. CommandTypes /\ RoutineFits(c)
  BY DEF CommandsInv
<1>1. CASE C!StartFails(c)
  <2>1. CommandTypes'
    BY <1>0, <1>1 DEF C!StartFails, C!Exited, C!SetRoutine, CommandTypes, RoutineFits
  <2>2. RoutineFits(c)'
    BY <1>0, <1>1 DEF C!StartFails, C!Exited, C!SetRoutine, CommandTypes, RoutineFits,
       C!Restart
  <2>3. \A d \in C!Commands \ {c} :
          /\ routine'[d] = routine[d] /\ process'[d] = process[d]
          /\ launches'[d] = launches[d] /\ strays'[d] = strays[d]
    BY <1>0, <1>1 DEF C!StartFails, C!Exited, C!SetRoutine, CommandTypes
  <2>4. /\ UNCHANGED <<system, hookConf, owner, waiting>>
        /\ routine[c] = "none" => routine'[c] = "none"
        /\ routine[c] = "done" => routine'[c] = "done"
    BY <1>0, <1>1 DEF C!StartFails, C!Exited, C!SetRoutine, CommandTypes, RoutineFits
  <2> QED
    BY <2>1, <2>2, <2>3, <2>4, OneCommand
<1>2. CASE C!StartProcess(c)
  <2>1. CommandTypes'
    BY <1>0, <1>2 DEF C!StartProcess, C!Started, C!SetRoutine, CommandTypes, RoutineFits
  <2>2. RoutineFits(c)'
    BY ServicesAssumption, <1>0, <1>2 DEF C!StartProcess, C!Started, C!SetRoutine, CommandTypes, RoutineFits,
       C!Restart
  <2>3. \A d \in C!Commands \ {c} :
          /\ routine'[d] = routine[d] /\ process'[d] = process[d]
          /\ launches'[d] = launches[d] /\ strays'[d] = strays[d]
    BY <1>0, <1>2 DEF C!StartProcess, C!Started, C!SetRoutine, CommandTypes
  <2>4. /\ UNCHANGED <<system, hookConf, owner, waiting>>
        /\ routine[c] = "none" => routine'[c] = "none"
        /\ routine[c] = "done" => routine'[c] = "done"
    BY <1>0, <1>2 DEF C!StartProcess, C!Started, C!SetRoutine, CommandTypes, RoutineFits
  <2> QED
    BY <2>1, <2>2, <2>3, <2>4, OneCommand
<1>3. CASE C!AddProcessFails(c)
  <2>1. CommandTypes'
    BY <1>0, <1>3 DEF C!AddProcessFails, C!Started, C!Exited, C!SetRoutine, CommandTypes,
       RoutineFits
  <2>2. RoutineFits(c)'
    BY ServicesAssumption, <1>0, <1>3 DEF C!AddProcessFails, C!Started, C!Exited, C!SetRoutine, CommandTypes,
       RoutineFits, C!Restart
  <2>3. \A d \in C!Commands \ {c} :
          /\ routine'[d] = routine[d] /\ process'[d] = process[d]
          /\ launches'[d] = launches[d] /\ strays'[d] = strays[d]
    BY <1>0, <1>3 DEF C!AddProcessFails, C!Started, C!Exited, C!SetRoutine, CommandTypes
  <2>4. /\ UNCHANGED <<system, hookConf, owner, waiting>>
        /\ routine[c] = "none" => routine'[c] = "none"
        /\ routine[c] = "done" => routine'[c] = "done"
    BY <1>0, <1>3 DEF C!AddProcessFails, C!Started, C!Exited, C!SetRoutine, CommandTypes,
       RoutineFits
  <2> QED
    BY <2>1, <2>2, <2>3, <2>4, OneCommand
<1>4. CASE C!ProcessEnds(c)
  <2>1. CommandTypes'
    BY <1>0, <1>4 DEF C!ProcessEnds, CommandTypes, RoutineFits
  <2>2. RoutineFits(c)'
    BY <1>0, <1>4 DEF C!ProcessEnds, CommandTypes, RoutineFits, C!Restart
  <2>3. \A d \in C!Commands \ {c} :
          /\ routine'[d] = routine[d] /\ process'[d] = process[d]
          /\ launches'[d] = launches[d] /\ strays'[d] = strays[d]
    BY <1>0, <1>4 DEF C!ProcessEnds, CommandTypes
  <2>4. /\ UNCHANGED <<system, hookConf, owner, waiting>>
        /\ routine[c] = "none" => routine'[c] = "none"
        /\ routine[c] = "done" => routine'[c] = "done"
    BY <1>0, <1>4 DEF C!ProcessEnds, CommandTypes, RoutineFits
  <2> QED
    BY <2>1, <2>2, <2>3, <2>4, OneCommand
<1>5. CASE C!StrayEnds(c)
  <2>1. CommandTypes'
    BY <1>0, <1>5 DEF C!StrayEnds, CommandTypes, RoutineFits
  <2>2. RoutineFits(c)'
    BY <1>0, <1>5 DEF C!StrayEnds, CommandTypes, RoutineFits, C!Restart
  <2>3. \A d \in C!Commands \ {c} :
          /\ routine'[d] = routine[d] /\ process'[d] = process[d]
          /\ launches'[d] = launches[d] /\ strays'[d] = strays[d]
    BY <1>0, <1>5 DEF C!StrayEnds, CommandTypes
  <2>4. /\ UNCHANGED <<system, hookConf, owner, waiting>>
        /\ routine[c] = "none" => routine'[c] = "none"
        /\ routine[c] = "done" => routine'[c] = "done"
    BY <1>0, <1>5 DEF C!StrayEnds, CommandTypes, RoutineFits
  <2> QED
    BY <2>1, <2>2, <2>3, <2>4, OneCommand
<1>6. CASE C!Noticed(c)
  <2>1. CommandTypes'
    BY <1>0, <1>6 DEF C!Noticed, C!Exited, C!SetRoutine, CommandTypes, RoutineFits
  <2>2. RoutineFits(c)'
    BY <1>0, <1>6 DEF C!Noticed, C!Exited, C!SetRoutine, CommandTypes, RoutineFits,
       C!Restart
  <2>3. \A d \in C!Commands \ {c} :
          /\ routine'[d] = routine[d] /\ process'[d] = process[d]
          /\ launches'[d] = launches[d] /\ strays'[d] = strays[d]
    BY <1>0, <1>6 DEF C!Noticed, C!Exited, C!SetRoutine, CommandTypes
  <2>4. /\ UNCHANGED <<system, hookConf, owner, waiting>>
        /\ routine[c] = "none" => routine'[c] = "none"
        /\ routine[c] = "done" => routine'[c] = "done"
    BY <1>0, <1>6 DEF C!Noticed, C!Exited, C!SetRoutine, CommandTypes, RoutineFits
  <2> QED
    BY <2>1, <2>2, <2>3, <2>4, OneCommand
<1>7. CASE C!Terminate(c)
  <2>1. CommandTypes'
    BY <1>0, <1>7 DEF C!Terminate, C!SetRoutine, CommandTypes, RoutineFits
  <2>2. RoutineFits(c)'
    BY <1>0, <1>7 DEF C!Terminate, C!SetRoutine, CommandTypes, RoutineFits, C!Restart
  <2>3. \A d \in C!Commands \ {c} :
          /\ routine'[d] = routine[d] /\ process'[d] = process[d]
          /\ launches'[d] = launches[d] /\ strays'[d] = strays[d]
    BY <1>0, <1>7 DEF C!Terminate, C!SetRoutine, CommandTypes
  <2>4. /\ UNCHANGED <<system, hookConf, owner, waiting>>
        /\ routine[c] = "none" => routine'[c] = "none"
        /\ routine[c] = "done" => routine'[c] = "done"
    BY <1>0, <1>7 DEF C!Terminate, C!SetRoutine, CommandTypes, RoutineFits
  <2> QED
    BY <2>1, <2>2, <2>3, <2>4, OneCommand
<1>8. CASE C!Obey(c)
  <2>1. CommandTypes'
    BY <1>0, <1>8 DEF C!Obey, CommandTypes, RoutineFits
  <2>2. RoutineFits(c)'
    BY <1>0, <1>8 DEF C!Obey, CommandTypes, RoutineFits, C!Restart
  <2>3. \A d \in C!Commands \ {c} :
          /\ routine'[d] = routine[d] /\ process'[d] = process[d]
          /\ launches'[d] = launches[d] /\ strays'[d] = strays[d]
    BY <1>0, <1>8 DEF C!Obey, CommandTypes
  <2>4. /\ UNCHANGED <<system, hookConf, owner, waiting>>
        /\ routine[c] = "none" => routine'[c] = "none"
        /\ routine[c] = "done" => routine'[c] = "done"
    BY <1>0, <1>8 DEF C!Obey, CommandTypes, RoutineFits
  <2> QED
    BY <2>1, <2>2, <2>3, <2>4, OneCommand
<1>9. CASE C!Killed(c)
  <2>1. CommandTypes'
    BY <1>0, <1>9 DEF C!Killed, C!SetRoutine, CommandTypes, RoutineFits
  <2>2. RoutineFits(c)'
    BY <1>0, <1>9 DEF C!Killed, C!SetRoutine, CommandTypes, RoutineFits, C!Restart
  <2>3. \A d \in C!Commands \ {c} :
          /\ routine'[d] = routine[d] /\ process'[d] = process[d]
          /\ launches'[d] = launches[d] /\ strays'[d] = strays[d]
    BY <1>0, <1>9 DEF C!Killed, C!SetRoutine, CommandTypes
  <2>4. /\ UNCHANGED <<system, hookConf, owner, waiting>>
        /\ routine[c] = "none" => routine'[c] = "none"
        /\ routine[c] = "done" => routine'[c] = "done"
    BY <1>0, <1>9 DEF C!Killed, C!SetRoutine, CommandTypes, RoutineFits
  <2> QED
    BY <2>1, <2>2, <2>3, <2>4, OneCommand
<1>10. CASE C!PauseEnds(c)
  <2>1. CommandTypes'
    BY <1>0, <1>10 DEF C!PauseEnds, C!SetRoutine, CommandTypes, RoutineFits
  <2>2. RoutineFits(c)'
    BY <1>0, <1>10 DEF C!PauseEnds, C!SetRoutine, CommandTypes, RoutineFits, C!Restart
  <2>3. \A d \in C!Commands \ {c} :
          /\ routine'[d] = routine[d] /\ process'[d] = process[d]
          /\ launches'[d] = launches[d] /\ strays'[d] = strays[d]
    BY <1>0, <1>10 DEF C!PauseEnds, C!SetRoutine, CommandTypes
  <2>4. /\ UNCHANGED <<system, hookConf, owner, waiting>>
        /\ routine[c] = "none" => routine'[c] = "none"
        /\ routine[c] = "done" => routine'[c] = "done"
    BY <1>0, <1>10 DEF C!PauseEnds, C!SetRoutine, CommandTypes, RoutineFits
  <2> QED
    BY <2>1, <2>2, <2>3, <2>4, OneCommand
<1>11. CASE C!PauseCut(c)
  <2>1. CommandTypes'
    BY <1>0, <1>11 DEF C!PauseCut, C!SetRoutine, CommandTypes, RoutineFits
  <2>2. RoutineFits(c)'
    BY <1>0, <1>11 DEF C!PauseCut, C!SetRoutine, CommandTypes, RoutineFits, C!Restart
  <2>3. \A d \in C!Commands \ {c} :
          /\ routine'[d] = routine[d] /\ process'[d] = process[d]
          /\ launches'[d] = launches[d] /\ strays'[d] = strays[d]
    BY <1>0, <1>11 DEF C!PauseCut, C!SetRoutine, CommandTypes
  <2>4. /\ UNCHANGED <<system, hookConf, owner, waiting>>
        /\ routine[c] = "none" => routine'[c] = "none"
        /\ routine[c] = "done" => routine'[c] = "done"
    BY <1>0, <1>11 DEF C!PauseCut, C!SetRoutine, CommandTypes, RoutineFits
  <2> QED
    BY <2>1, <2>2, <2>3, <2>4, OneCommand
<1> QED
  BY <1>1, <1>2, <1>3, <1>4, <1>5, <1>6, <1>7, <1>8, <1>9, <1>10, <1>11 DEF C!CommandStep

\* Each step of a hook or of the pool.
LEMMA HookKeeps ==
  ASSUME CommandsInv, NEW h \in Hooks, C!Open(h) \/ C!CloseHook(h) PROVE CommandsInv'
<1>0. CommandTypes /\ \A c \in C!Commands : RoutineFits(c)
  BY DEF CommandsInv
<1>1. PICK which \in {"on", "after"}, to \in {"open", "closed"} :
        /\ owner' = [owner EXCEPT ![h] = to]
        /\ \/ routine' = [routine EXCEPT ![<<h, which>>] = "launching"] \/ UNCHANGED routine
        /\ IF to = "open" THEN owner[h] = "out" /\ waiting = "no" /\ which = "on"
           ELSE owner[h] = "open" /\ which = "after"
        /\ UNCHANGED <<system, hookConf, process, strays, launches, waiting>>
  <2>1. CASE C!Open(h)
    BY <2>1 DEF C!Open, C!SetRoutine
  <2>2. CASE C!CloseHook(h)
    BY <2>2 DEF C!CloseHook, C!SetRoutine
  <2> QED
    BY <2>1, <2>2
<1>2. PICK one \in C!Commands : one = <<h, which>>
  BY CommandIsPair
<1>3. CommandTypes'
  BY <1>0, <1>1, <1>2 DEF CommandTypes
<1>4. routine[one] = "none"
  BY <1>1, <1>2 DEF CommandsInv, OwnersFit
<1>5. OwnersFit'
  <2> SUFFICES ASSUME NEW g \in Hooks
               PROVE  /\ owner'[g] = "out" => routine'[<<g, "on">>] = "none"
                      /\ owner'[g] # "closed" => routine'[<<g, "after">>] = "none"
    BY DEF OwnersFit
  <2>1. /\ owner[g] = "out" => routine[<<g, "on">>] = "none"
        /\ owner[g] # "closed" => routine[<<g, "after">>] = "none"
    BY DEF CommandsInv, OwnersFit
  <2>2. \A c \in C!Commands : c # one => routine'[c] = routine[c]
    BY <1>0, <1>1, <1>2 DEF CommandTypes
  <2>3. CASE g = h
    <3>1. owner'[g] = to
      BY <1>0, <1>1, <2>3 DEF CommandTypes
    <3>2. to = "open" => routine'[<<g, "after">>] = routine[<<g, "after">>]
      BY <1>1, <1>2, <2>2, CommandIsPair
    <3> QED
      BY <1>1, <2>1, <2>3, <3>1, <3>2
  <2>4. CASE g # h
    <3>1. owner'[g] = owner[g]
      BY <1>0, <1>1, <2>4 DEF CommandTypes
    <3>2. <<g, "on">> # one /\ <<g, "after">> # one
      BY <1>2, <2>4
    <3>3. /\ routine'[<<g, "on">>] = routine[<<g, "on">>]
          /\ routine'[<<g, "after">>] = routine[<<g, "after">>]
      BY <2>2, <3>2, CommandIsPair
    <3> QED
      BY <2>1, <3>1, <3>3
  <2> QED
    BY <2>3, <2>4
<1>6. PoolFits'
  <2>1. waiting = "no"
    BY <1>0, <1>1 DEF CommandsInv, PoolFits, CommandTypes
  <2> QED
    BY <1>1, <2>1 DEF PoolFits
<1>7. ASSUME NEW c \in C!Commands PROVE RoutineFits(c)'
  <2>1. RoutineFits(c) /\ RoutineFits(one)
    BY <1>0
  <2>2. CASE c # one
    <3>1. routine'[c] = routine[c]
      BY <1>0, <1>1, <1>2, <2>2 DEF CommandTypes
    <3> QED
      BY <1>1, <2>1, <3>1 DEF RoutineFits, C!Restart
  <2>3. CASE c = one
    <3>1. routine'[c] \in {"none", "launching"}
      BY <1>0, <1>1, <1>2, <1>4, <2>3 DEF CommandTypes
    <3> QED
      BY <1>1, <1>4, <2>1, <2>3, <3>1 DEF RoutineFits, C!Restart
  <2> QED
    BY <2>2, <2>3
<1> QED
  BY <1>3, <1>5, <1>6, <1>7 DEF CommandsInv

\* Each step keeps the invariant.
LEMMA CommandsStep ==
  ASSUME CommandsInv, [C!Next]_(C!vars) PROVE CommandsInv'
<1>0. CommandTypes
  BY DEF CommandsInv
<1>1. CASE C!ClosePool
  BY <1>1 DEF C!ClosePool, CommandsInv, CommandTypes, OwnersFit, PoolFits, RoutineFits,
     C!Restart
<1>2. CASE C!PoolClosed
  <2>1. \A c \in C!Commands : routine[c] \in {"none", "done"}
    BY <1>0, <1>2 DEF C!PoolClosed, C!Busy
  <2> QED
    BY <1>2, <2>1 DEF C!PoolClosed, CommandsInv, CommandTypes, OwnersFit, PoolFits,
       RoutineFits, C!Restart
<1>3. CASE UNCHANGED C!vars
  BY <1>3 DEF C!vars, CommandsInv, CommandTypes, OwnersFit, PoolFits, RoutineFits, C!Restart
<1> QED
  BY <1>1, <1>2, <1>3, CommandKeeps, HookKeeps DEF C!Next

\* It says what the commands leave behind.
LEMMA CommandsImply == CommandsInv => C!TypeOK /\ C!NoProcessIsLeft
<1> SUFFICES ASSUME CommandsInv PROVE C!TypeOK /\ C!NoProcessIsLeft
  OBVIOUS
<1>1. C!TypeOK
  BY DEF CommandsInv, CommandTypes, RoutineFits, C!TypeOK
<1>2. ASSUME NEW c \in C!Commands, c[2] = "after", routine[c] # "none"
      PROVE  owner[c[1]] = "closed"
  <2>1. PICK h \in Hooks : c = <<h, "after">>
    BY <1>2, CommandIsPair
  <2>2. OwnersFit /\ c[1] = h /\ routine[<<h, "after">>] # "none"
    BY <1>2, <2>1 DEF CommandsInv
  <2> QED
    BY <2>1, <2>2 DEF OwnersFit
<1>3. ASSUME waiting = "over", NEW c \in C!Commands PROVE process[c] = "none"
  BY <1>3 DEF CommandsInv, PoolFits, RoutineFits
<1> QED
  BY <1>1, <1>2, <1>3 DEF CommandsInv, RoutineFits, C!NoProcessIsLeft

\* Once Core has waited for the commands (Pool.Close) none of their processes is
\* left, but those that Windows could not add to a job; a command has one process
\* at a time, is launched again only if it is to be restarted, and what a hook
\* launches when it is closed follows its opening: for any hooks and commands.
THEOREM CommandsCorrect ==
  C!Spec => [](C!TypeOK /\ C!NoProcessIsLeft)
BY CommandsInit, CommandsStep, CommandsImply, PTL DEF C!Spec

-----------------------------------------------------------------------------
(***************************************************************************)
(* Authentication.                                                         *)
(***************************************************************************)

Answered == {"accepted", "refused", "asked"}
Is(r, phase) == request[r] # None /\ request[r].phase = phase

\* The first tick whose keys may still be used at tick t.
From(t) == IF t < Period THEN 0 ELSE t - Period + 1

IsRequest(q) ==
  q = [phase |-> q.phase, inquiry |-> q.inquiry, asked |-> q.asked, user |-> q.user,
       failed |-> q.failed, token |-> q.token, inForce |-> q.inForce, oldest |-> q.oldest]

Good(q) == q.token # None /\ ~q.token.broken /\ A!Allowed(q.token.perms, q.inquiry)

\* VerdictsAreRight, of one request and by each method.
RightByUsers(q) ==
  \E list \in q.inForce : A!EntitledBy(list, q.inquiry) = (q.phase = "accepted")
RightByKeys(q) ==
  IF q.phase = "accepted"
  THEN \/ A!Allowed(manager.exclude, q.inquiry)
       \/ Good(q) /\ q.token.key \in q.oldest..issued
  ELSE /\ ~A!Allowed(manager.exclude, q.inquiry)
       /\ q.failed \/ ~Good(q) \/ q.oldest..issued # {q.token.key}
IsRight(q) ==
  q.phase \in Answered =>
    /\ manager.method = "internal" => RightByUsers(q)
    /\ manager.method = "jwt" => RightByKeys(q)

\* A request that waits for the keys is not excluded, and the oldest key that
\* may sign its token was there at the last refresh that it saw, or less than a
\* period before it asked; one that waits for the users is judged by those that
\* are in force.
RequestFits(r) ==
  LET q == request[r]
  IN  q # None =>
        /\ IsRequest(q)
        /\ q.phase \in {"internal", "http", "jwt"} \cup Answered
        /\ q.phase \in Answered \/ q.phase = manager.method
        /\ q.asked \in 0..now /\ q.oldest \in 1..issued
        /\ q.phase = "jwt" =>
             /\ ~A!Allowed(manager.exclude, q.inquiry)
             /\ q.oldest <= floor \/ q.oldest <= issuedAt[From(q.asked)]
        /\ q.phase = "internal" => users \in q.inForce
        /\ IsRight(q)

\* The keys of the issuer since the start, and those that were fetched: they are
\* not older than the last refresh nor than the request that fetched them.
KeysFit ==
  /\ now \in 0..MaxTime /\ issuedAt \in [0..MaxTime -> 1..MaxKey]
  /\ issued \in 1..MaxKey /\ floor \in 1..issued /\ keys \in 0..issued
  /\ \A t \in 0..now : issuedAt[t] <= issued
  /\ \A s, t \in 0..now : s <= t => issuedAt[s] <= issuedAt[t]
  /\ refreshed # None => refreshed \in 0..now /\ keys >= floor /\ keys >= issuedAt[refreshed]

HolderFits == holder # None => holder \in Requests /\ Is(holder, "jwt")

AuthInv ==
  /\ manager \in Managers /\ users \in UserLists /\ DOMAIN request = Requests
  /\ KeysFit /\ HolderFits
  /\ \A r \in Requests : RequestFits(r)

\* matchesPermission and authenticateWithUser decide what they should.
LEMMA MatchesIsAllowed ==
  \A perms, inq : A!MatchesPermission(perms, inq) <=> A!Allowed(perms, inq)
BY DEF A!MatchesPermission, A!Allowed

LEMMA GrantedIsEntitled ==
  \A list, inq : (\E u \in list : A!GrantedBy(u, inq)) <=> A!EntitledBy(list, inq)
<1>1. \A u, inq : A!GrantedBy(u, inq) <=>
        /\ u.user \in {"any"} \cup {inq.user} /\ (u.user # "any" => u.pass = inq.pass)
        /\ u.ips # {} => inq.ip \in u.ips
        /\ A!Allowed(u.perms, inq)
  BY MatchesIsAllowed DEF A!GrantedBy
<1> QED
  BY <1>1 DEF A!EntitledBy

\* The invariant holds at the start.
LEMMA AuthInit == ASSUME A!Init PROVE AuthInv
<1>1. KeysFit
  BY ServicesAssumption DEF A!Init, KeysFit
<1> QED
  BY <1>1 DEF A!Init, AuthInv, HolderFits, RequestFits

\* A step that changes one request, and neither the clock nor the settings.
LEMMA OneRequest ==
  ASSUME AuthInv, NEW r \in Requests, NEW q, request' = [request EXCEPT ![r] = q],
         UNCHANGED <<manager, users, A!clockVars, floor>>,
         KeysFit', HolderFits', RequestFits(r)'
  PROVE  AuthInv'
<1>1. ASSUME NEW s \in Requests PROVE RequestFits(s)'
  <2>1. CASE s = r
    BY <2>1
  <2>2. CASE s # r
    <3>1. request'[s] = request[s] /\ RequestFits(s)
      BY <2>2 DEF AuthInv
    <3> QED
      BY <3>1 DEF RequestFits, IsRight, RightByUsers, RightByKeys, IsRequest, A!clockVars
  <2> QED
    BY <2>1, <2>2
<1> QED
  BY <1>1 DEF AuthInv

\* What an answer does to the request.
LEMMA AnswerEffect ==
  ASSUME AuthInv, NEW r \in Requests, request[r] # None,
         NEW phase, NEW who, NEW failed, A!Answer(r, phase, who, failed)
  PROVE  /\ request' = [request EXCEPT ![r] =
              [phase |-> phase, inquiry |-> request[r].inquiry, asked |-> 0, user |-> who,
               failed |-> failed, token |-> request[r].token,
               inForce |-> request[r].inForce, oldest |-> request[r].oldest]]
<1> DEFINE q == request[r]
<1>1. IsRequest(q) /\ DOMAIN request = Requests
  BY DEF AuthInv, RequestFits
<1>2. request' = [request EXCEPT ![r] =
         [q EXCEPT !.phase = phase, !.asked = 0, !.user = who, !.failed = failed]]
  BY <1>1 DEF A!Answer
<1>3. [q EXCEPT !.phase = phase, !.asked = 0, !.user = who, !.failed = failed] =
      [phase |-> phase, inquiry |-> q.inquiry, asked |-> 0, user |-> who,
       failed |-> failed, token |-> q.token, inForce |-> q.inForce, oldest |-> q.oldest]
  <2>1. PICK a, b, c, d, e, f, g, h :
          q = [phase |-> a, inquiry |-> b, asked |-> c, user |-> d, failed |-> e,
               token |-> f, inForce |-> g, oldest |-> h]
    BY <1>1 DEF IsRequest
  <2>2. q.inquiry = b /\ q.token = f /\ q.inForce = g /\ q.oldest = h
    BY <2>1
  <2> DEFINE made(p, k, u, w) ==
        [phase |-> p, inquiry |-> b, asked |-> k, user |-> u, failed |-> w,
         token |-> f, inForce |-> g, oldest |-> h]
  <2>3. [made(a, c, d, e) EXCEPT !.phase = phase] = made(phase, c, d, e)
    OBVIOUS
  <2>4. [made(phase, c, d, e) EXCEPT !.asked = 0] = made(phase, 0, d, e)
    OBVIOUS
  <2>5. [made(phase, 0, d, e) EXCEPT !.user = who] = made(phase, 0, who, e)
    OBVIOUS
  <2>6. [made(phase, 0, who, e) EXCEPT !.failed = failed] = made(phase, 0, who, failed)
    OBVIOUS
  <2>7. q = made(a, c, d, e)
    BY <2>1
  <2> HIDE DEF q, made
  <2>8. [q EXCEPT !.phase = phase, !.asked = 0, !.user = who, !.failed = failed] =
        made(phase, 0, who, failed)
    BY <2>3, <2>4, <2>5, <2>6, <2>7, Zenon
  <2> QED
    BY <2>2, <2>8, Zenon DEF made
<1> QED
  BY <1>2, <1>3

\* An answer that is right keeps the invariant.
LEMMA AnswerKeeps ==
  ASSUME AuthInv, NEW r \in Requests, request[r] # None,
         NEW phase \in Answered, NEW who, NEW failed, A!Answer(r, phase, who, failed),
         UNCHANGED <<manager, users, A!clockVars, floor>>, KeysFit', HolderFits',
         manager.method = "internal" =>
           \E list \in request[r].inForce :
              A!EntitledBy(list, request[r].inquiry) = (phase = "accepted"),
         manager.method = "jwt" =>
           IF phase = "accepted"
           THEN Good(request[r]) /\ request[r].token.key \in request[r].oldest..issued
           ELSE /\ ~A!Allowed(manager.exclude, request[r].inquiry)
                /\ failed \/ ~Good(request[r]) \/ request[r].oldest..issued # {request[r].token.key}
  PROVE  AuthInv'
<1>0. PICK q : q = request[r]
  OBVIOUS
<1>1. PICK new : new = [phase |-> phase, inquiry |-> q.inquiry, asked |-> 0, user |-> who,
                        failed |-> failed, token |-> q.token,
                        inForce |-> q.inForce, oldest |-> q.oldest]
  OBVIOUS
<1>2. request' = [request EXCEPT ![r] = new] /\ request'[r] = new
  BY <1>0, <1>1, AnswerEffect DEF AuthInv
<1>3. q.oldest \in 1..issued /\ now \in Nat /\ now' = now /\ issued' = issued
  BY <1>0 DEF AuthInv, RequestFits, KeysFit, A!clockVars
<1>4. IsRequest(new)
  BY <1>1 DEF IsRequest
<1>5. /\ new.phase = phase /\ new.asked = 0 /\ new.oldest = q.oldest /\ new.failed = failed
      /\ new.inquiry = q.inquiry /\ new.token = q.token /\ new.inForce = q.inForce
  BY <1>1
<1>6. IsRight(new)'
  BY <1>0, <1>3, <1>5 DEF IsRight, RightByUsers, RightByKeys, Good
<1>7. RequestFits(r)'
  <2>1. new.asked \in 0..now' /\ new.oldest \in 1..issued'
    BY <1>3, <1>5
  <2> QED
    BY <1>2, <1>4, <1>5, <1>6, <2>1 DEF RequestFits, Answered
<1> QED
  BY <1>2, <1>7, OneRequest

\* The keys that are young enough for a request, or that have just been fetched,
\* are not older than the oldest that it may be judged by.
LEMMA YoungKeysAreRecent ==
  ASSUME AuthInv, NEW r \in Requests, Is(r, "jwt"), A!Young(r)
  PROVE  keys \in request[r].oldest..issued
<1> DEFINE q == request[r]
<1>1. /\ KeysFit /\ Period \in Nat \ {0} /\ q.asked \in 0..now /\ q.oldest \in 1..issued
      /\ q.oldest <= floor \/ q.oldest <= issuedAt[From(q.asked)]
  BY ServicesAssumption DEF AuthInv, RequestFits, Is
<1>2. refreshed \in 0..now /\ keys >= floor /\ keys >= issuedAt[refreshed]
  BY <1>1 DEF A!Young, KeysFit
<1>3. From(q.asked) \in 0..now /\ From(q.asked) <= refreshed
  BY <1>1, <1>2 DEF From, A!Young, KeysFit
<1>4. issuedAt[From(q.asked)] <= issuedAt[refreshed]
  BY <1>1, <1>2, <1>3 DEF KeysFit
<1>5. issuedAt[From(q.asked)] \in Nat /\ issuedAt[refreshed] \in Nat /\ keys \in 0..issued
      /\ issued \in Nat /\ floor \in Nat
  BY SMTT(30), <1>1, <1>2, <1>3, ServicesAssumption DEF KeysFit
<1> QED
  BY <1>1, <1>2, <1>4, <1>5

\* A token is judged by keys that are recent enough.
LEMMA JudgeKeeps ==
  ASSUME AuthInv, NEW r \in Requests, Is(r, "jwt"),
         NEW known \in request[r].oldest..issued, A!Judge(r, known),
         UNCHANGED <<manager, users, A!clockVars, floor>>, KeysFit', HolderFits'
  PROVE  AuthInv'
<1> DEFINE q == request[r]
<1>1. /\ manager.method = "jwt" /\ ~A!Allowed(manager.exclude, q.inquiry)
      /\ q.oldest \in 1..issued /\ issued \in Nat /\ q # None
  <2>1. RequestFits(r) /\ issued \in Nat /\ request[r] # None /\ request[r].phase = "jwt"
    BY DEF AuthInv, KeysFit, Is
  <2> QED
    BY <2>1 DEF RequestFits, Answered
<1>2. q.token # None /\ A!TokenIsGood(q.token, known, q.inquiry) <=>
        Good(q) /\ q.token.key = known
  BY MatchesIsAllowed DEF A!TokenIsGood, Good
<1>3. CASE Good(q) /\ q.token.key = known
  <2>1. A!Answer(r, "accepted", q.token.subject, FALSE)
    BY <1>2, <1>3 DEF A!Judge, A!Accept
  <2> QED
    BY <1>1, <1>3, <2>1, AnswerKeeps DEF Answered
<1>4. CASE ~(Good(q) /\ q.token.key = known)
  <2>1. PICK phase \in {"refused", "asked"} : A!Answer(r, phase, None, FALSE)
    BY <1>2, <1>4 DEF A!Judge, A!Refuse
  <2>2. ~Good(q) \/ q.oldest..issued # {q.token.key}
    BY <1>4
  <2> QED
    BY <1>1, <2>1, <2>2, AnswerKeeps DEF Answered
<1> QED
  BY <1>3, <1>4

\* A request begins.
LEMMA AuthenticateKeeps ==
  ASSUME AuthInv, NEW r \in Requests, A!Authenticate(r) PROVE AuthInv'
<1>1. PICK inq \in Inquiries[manager.method][r] :
        LET excluded == manager.method # "internal" /\ A!MatchesPermission(manager.exclude, inq)
        IN  request' = [request EXCEPT ![r] =
              [phase |-> IF excluded THEN "accepted" ELSE manager.method,
               inquiry |-> inq, asked |-> now, user |-> None, failed |-> FALSE,
               token |-> IF manager.method = "internal" THEN None
                         ELSE A!GetToken(manager.method = "jwt" /\ manager.inQuery, inq),
               inForce |-> {users},
               oldest |-> LET then == issuedAt[IF now < Period THEN 0 ELSE now - Period + 1]
                          IN  IF then > floor THEN then ELSE floor]]
  BY DEF A!Authenticate
<1> DEFINE excluded == manager.method # "internal" /\ A!Allowed(manager.exclude, inq)
           oldest == IF issuedAt[From(now)] > floor THEN issuedAt[From(now)] ELSE floor
           phase == IF excluded THEN "accepted" ELSE manager.method
           tok == IF manager.method = "internal" THEN None
                    ELSE A!GetToken(manager.method = "jwt" /\ manager.inQuery, inq)
           new == [phase |-> phase, inquiry |-> inq, asked |-> now, user |-> None,
                   failed |-> FALSE, token |-> tok, inForce |-> {users}, oldest |-> oldest]
<1>2. request' = [request EXCEPT ![r] = new]
  BY <1>1, MatchesIsAllowed DEF From
<1>3. request'[r] = new
  BY <1>2 DEF AuthInv
<1>4. /\ UNCHANGED <<manager, users, keys, refreshed, holder, A!clockVars, floor>>
      /\ request[r] = None
  BY DEF A!Authenticate
<1>5. KeysFit'
  BY <1>4 DEF AuthInv, KeysFit, A!clockVars
<1>6. HolderFits'
  BY <1>2, <1>4 DEF AuthInv, HolderFits, Is
<1>7. oldest \in 1..issued /\ now \in 0..now
  <2>1. KeysFit /\ Period \in Nat \ {0}
    BY ServicesAssumption DEF AuthInv
  <2>0. MaxKey \in Nat
    BY ServicesAssumption
  <2>2. From(now) \in 0..now
    BY <2>1 DEF KeysFit, From
  <2>3. issuedAt[From(now)] \in 1..issued
    <3>1. From(now) \in 0..MaxTime /\ issued \in Nat
      BY <2>0, <2>1, <2>2, ServicesAssumption DEF KeysFit
    <3>2. issuedAt[From(now)] \in 1..MaxKey /\ issuedAt[From(now)] <= issued
      BY <2>1, <2>2, <3>1 DEF KeysFit
    <3> QED
      BY <2>0, <3>1, <3>2
  <2> QED
    BY <2>1, <2>3 DEF KeysFit
<1>8. oldest <= floor \/ oldest <= issuedAt[From(now)]
  BY <1>7 DEF AuthInv, KeysFit
<1>9. manager.method \in {"internal", "http", "jwt"}
  BY ServicesAssumption DEF AuthInv
<1>10. PICK q : q = new
  OBVIOUS
<1>11. IsRequest(q)
  BY <1>10 DEF IsRequest
<1>12. /\ q.phase = phase /\ q.asked = now /\ q.oldest = oldest
       /\ q.inquiry = inq /\ q.inForce = {users}
  BY <1>10
<1>13. /\ q.asked \in 0..now' /\ q.oldest \in 1..issued' /\ users' \in q.inForce
       /\ q.oldest <= floor' \/ q.oldest <= issuedAt'[From(q.asked)]
  BY <1>4, <1>7, <1>8, <1>12 DEF A!clockVars
<1>14. CASE excluded
  <2>1. q.phase = "accepted" /\ manager'.method # "internal"
        /\ A!Allowed(manager'.exclude, q.inquiry)
    BY <1>4, <1>12, <1>14
  <2>2. IsRight(q)'
    BY <2>1 DEF IsRight, RightByKeys
  <2>3. RequestFits(r)'
    BY <1>3, <1>10, <1>11, <1>13, <2>1, <2>2 DEF RequestFits, Answered
  <2> QED
    BY <1>2, <1>4, <1>5, <1>6, <2>3, OneRequest
<1>15. CASE ~excluded
  <2>1. /\ q.phase = manager'.method /\ q.phase \in {"internal", "http", "jwt"}
        /\ q.phase # "internal" => ~A!Allowed(manager'.exclude, q.inquiry)
    BY <1>4, <1>9, <1>12, <1>15
  <2>2. IsRight(q)'
    BY <2>1 DEF IsRight, Answered
  <2>3. RequestFits(r)'
    BY <1>3, <1>10, <1>11, <1>13, <2>1, <2>2 DEF RequestFits, Answered
  <2> QED
    BY <1>2, <1>4, <1>5, <1>6, <2>3, OneRequest
<1> QED
  BY <1>14, <1>15

\* Each step of a request.
LEMMA RequestKeeps ==
  ASSUME AuthInv, NEW r \in Requests,
         \/ A!AuthenticateInternal(r) \/ A!AuthenticateHTTP(r) \/ A!JudgeWithKeys(r)
         \/ A!Fetch(r) \/ A!Fetched(r) \/ A!FetchFails(r) \/ A!Return(r)
  PROVE  AuthInv'
<1>0. KeysFit /\ HolderFits /\ RequestFits(r) /\ None \notin Requests /\ DOMAIN request = Requests
  BY ServicesAssumption DEF AuthInv
<1>1. CASE A!AuthenticateInternal(r)
  <2> DEFINE q == request[r]
  <2>1. /\ q # None /\ q.phase = "internal" /\ holder' = None
        /\ UNCHANGED <<manager, users, keys, refreshed, A!clockVars, floor>>
    BY <1>1 DEF A!AuthenticateInternal
  <2>2. manager.method = "internal" /\ users \in q.inForce
    BY <1>0, <2>1 DEF RequestFits, Answered
  <2>3. \E phase \in Answered : \E who :
          /\ A!Answer(r, phase, who, FALSE)
          /\ A!EntitledBy(users, q.inquiry) = (phase = "accepted")
    <3>1. CASE A!EntitledBy(users, q.inquiry)
      <4>1. A!Answer(r, "accepted", q.inquiry.user, FALSE)
        BY <1>1, <3>1, GrantedIsEntitled DEF A!AuthenticateInternal, A!Accept
      <4> QED
        BY <3>1, <4>1 DEF Answered, A!EntitledBy
    <3>2. CASE ~A!EntitledBy(users, q.inquiry)
      <4>1. A!Refuse(r)
        BY <1>1, <3>2, GrantedIsEntitled DEF A!AuthenticateInternal
      <4> QED
        BY <3>2, <4>1 DEF A!Refuse, Answered, A!EntitledBy
    <3> QED
      BY <3>1, <3>2
  <2>4. KeysFit' /\ HolderFits'
    BY <1>0, <2>1 DEF KeysFit, HolderFits, A!clockVars
  <2> QED
    BY <2>1, <2>2, <2>3, <2>4, AnswerKeeps
<1>2. CASE A!AuthenticateHTTP(r)
  <2> DEFINE q == request[r]
  <2>1. /\ q # None /\ q.phase = "http"
        /\ UNCHANGED <<manager, users, keys, refreshed, holder, A!clockVars, floor>>
    BY <1>2 DEF A!AuthenticateHTTP
  <2>2. manager.method = "http"
    BY <1>0, <2>1 DEF RequestFits, Answered
  <2>3. PICK phase \in Answered : \E who, failed : A!Answer(r, phase, who, failed)
    BY <1>2 DEF A!AuthenticateHTTP, A!Accept, A!Refuse, A!Fail, Answered
  <2>4. KeysFit'
    BY <1>0, <2>1 DEF KeysFit, A!clockVars
  <2>5. holder # None => holder \in Requests \ {r} /\ request'[holder] = request[holder]
    BY <1>0, <2>1, <2>3, AnswerEffect DEF HolderFits, Is
  <2>6. HolderFits'
    BY <1>0, <2>1, <2>5 DEF HolderFits, Is
  <2> QED
    BY <2>1, <2>2, <2>3, <2>4, <2>6, AnswerKeeps
<1>3. CASE A!JudgeWithKeys(r)
  <2>1. /\ Is(r, "jwt") /\ holder' = None /\ A!Young(r) /\ A!Judge(r, keys)
        /\ UNCHANGED <<manager, users, keys, refreshed, A!clockVars, floor>>
    BY <1>3 DEF A!JudgeWithKeys, Is
  <2>2. KeysFit' /\ HolderFits'
    BY <1>0, <2>1 DEF KeysFit, HolderFits, A!clockVars
  <2>3. keys \in request[r].oldest..issued
    BY <2>1, YoungKeysAreRecent
  <2> QED
    BY <2>1, <2>2, <2>3, JudgeKeeps
<1>4. CASE A!Fetch(r)
  <2>1. /\ Is(r, "jwt") /\ holder' = r
        /\ UNCHANGED <<manager, users, keys, refreshed, A!clockVars, floor, request>>
    BY <1>4 DEF A!Fetch, Is
  <2>2. KeysFit' /\ HolderFits'
    BY <1>0, <2>1 DEF KeysFit, HolderFits, A!clockVars, Is
  <2>3. \A s \in Requests : RequestFits(s)'
    BY <2>1 DEF AuthInv, RequestFits, IsRight, RightByUsers, RightByKeys, A!clockVars
  <2> QED
    BY <2>1, <2>2, <2>3 DEF AuthInv
<1>5. CASE A!Fetched(r)
  <2>1. /\ holder = r /\ holder' = None /\ keys' = issued /\ refreshed' = request[r].asked
        /\ A!Judge(r, issued) /\ UNCHANGED <<manager, users, A!clockVars, floor>>
    BY <1>5 DEF A!Fetched
  <2>2. Is(r, "jwt") /\ request[r].asked \in 0..now /\ request[r].oldest \in 1..issued
    BY <1>0, <2>1 DEF HolderFits, RequestFits, Is
  <2>3. KeysFit'
    <3>1. /\ keys' = issued /\ refreshed' = request[r].asked
          /\ UNCHANGED <<now, issued, issuedAt, floor>>
      BY <2>1 DEF A!clockVars
    <3> QED
      BY <1>0, <2>2, <3>1 DEF KeysFit
  <2>4. HolderFits'
    BY <2>1 DEF HolderFits
  <2>5. issued \in request[r].oldest..issued
    BY <1>0, <2>2 DEF KeysFit
  <2> QED
    BY <2>1, <2>2, <2>3, <2>4, <2>5, JudgeKeeps
<1>6. CASE A!FetchFails(r)
  <2> DEFINE q == request[r]
  <2>1. /\ holder = r /\ holder' = None /\ A!Fail(r)
        /\ UNCHANGED <<manager, users, keys, refreshed, A!clockVars, floor>>
    BY <1>6 DEF A!FetchFails
  <2>2. /\ q # None /\ manager.method = "jwt" /\ ~A!Allowed(manager.exclude, q.inquiry)
    BY <1>0, <2>1 DEF HolderFits, RequestFits, Is, Answered
  <2>3. PICK phase \in {"refused", "asked"} : A!Answer(r, phase, None, TRUE)
    BY <2>1 DEF A!Fail
  <2>4. KeysFit' /\ HolderFits'
    BY <1>0, <2>1 DEF KeysFit, HolderFits, A!clockVars
  <2> QED
    BY <2>1, <2>2, <2>3, <2>4, AnswerKeeps DEF Answered
<1>7. CASE A!Return(r)
  <2>1. /\ request[r] # None /\ request[r].phase \in Answered
        /\ request' = [request EXCEPT ![r] = None]
        /\ UNCHANGED <<manager, users, keys, refreshed, holder, A!clockVars, floor>>
    BY <1>7 DEF A!Return, Answered
  <2>2. KeysFit' /\ RequestFits(r)'
    BY <1>0, <2>1 DEF KeysFit, A!clockVars, RequestFits
  <2>3. HolderFits'
    BY <1>0, <2>1 DEF HolderFits, Is, Answered
  <2> QED
    BY <2>1, <2>2, <2>3, OneRequest
<1> QED
  BY <1>1, <1>2, <1>3, <1>4, <1>5, <1>6, <1>7

\* New users are in force for the requests that still wait for them.
LEMMA ReloadUsersKeeps ==
  ASSUME AuthInv, NEW new \in UserLists, A!ReloadInternalUsers(new) PROVE AuthInv'
<1>1. /\ manager.method = "internal" /\ holder' = None /\ users' = new
      /\ request' = [r \in Requests |->
           IF request[r] # None /\ request[r].phase = "internal"
           THEN [request[r] EXCEPT !.inForce = @ \cup {new}] ELSE request[r]]
      /\ UNCHANGED <<manager, keys, refreshed, A!clockVars, floor>>
  BY DEF A!ReloadInternalUsers
<1>2. KeysFit' /\ HolderFits'
  BY <1>1 DEF AuthInv, KeysFit, HolderFits, A!clockVars
<1>3. ASSUME NEW r \in Requests PROVE RequestFits(r)'
  <2>0. RequestFits(r)
    BY DEF AuthInv
  <2>1. CASE Is(r, "internal")
    <3> DEFINE q == request[r]
               kept == [phase |-> "internal", inquiry |-> q.inquiry, asked |-> q.asked,
                        user |-> q.user, failed |-> q.failed, token |-> q.token,
                        inForce |-> q.inForce \cup {new}, oldest |-> q.oldest]
    <3>1. IsRequest(q) /\ q.phase = "internal" /\ q.asked \in 0..now /\ q.oldest \in 1..issued
      BY <2>0, <2>1 DEF RequestFits, Is
    <3>2. request'[r] = [q EXCEPT !.inForce = @ \cup {new}]
      BY <1>1, <2>1 DEF Is
    <3>3. request'[r] = kept
      BY <3>1, <3>2 DEF IsRequest
    <3>4. IsRequest(kept) /\ kept.phase = "internal" /\ kept.asked = q.asked
          /\ kept.oldest = q.oldest /\ new \in kept.inForce
      BY DEF IsRequest
    <3> HIDE DEF kept
    <3> QED
      BY <1>1, <3>1, <3>3, <3>4 DEF RequestFits, IsRight, Answered, A!clockVars
  <2>2. CASE ~Is(r, "internal")
    <3>1. request'[r] = request[r]
      BY <1>1, <2>2 DEF Is
    <3> QED
      BY <1>1, <2>0, <2>2, <3>1 DEF RequestFits, IsRight, RightByUsers, RightByKeys, Is,
         A!clockVars
  <2> QED
    BY <2>1, <2>2
<1> QED
  BY <1>1, <1>2, <1>3 DEF AuthInv

\* The keys of a later time serve those who asked before.
LEMMA KeysAdvance ==
  ASSUME AuthInv, A!RefreshJWTJWKS \/ A!Rotate \/ A!Tick PROVE AuthInv'
<1>0. KeysFit /\ Period \in Nat \ {0} /\ MaxTime \in Nat /\ MaxKey \in Nat \ {0}
  BY ServicesAssumption DEF AuthInv
<1>1. /\ manager.method = "jwt" /\ UNCHANGED <<manager, users, keys, holder, request>>
      /\ issued' \in issued..MaxKey /\ floor' \in floor..issued /\ now' \in now..MaxTime
      /\ \A t \in 0..now : issuedAt'[t] = issuedAt[t]
  <2>1. CASE A!RefreshJWTJWKS
    BY <1>0, <2>1 DEF A!RefreshJWTJWKS, KeysFit, A!clockVars
  <2>2. CASE A!Rotate
    BY <1>0, <2>2 DEF A!Rotate, KeysFit
  <2>3. CASE A!Tick
    BY <1>0, <2>3 DEF A!Tick, KeysFit
  <2> QED
    BY <2>1, <2>2, <2>3
<1>2. KeysFit'
  <2>1. CASE A!RefreshJWTJWKS
    BY <1>0, <2>1 DEF A!RefreshJWTJWKS, KeysFit, A!clockVars
  <2>2. CASE A!Rotate
    BY <1>0, <2>2 DEF A!Rotate, KeysFit
  <2>3. CASE A!Tick
    <3>1. /\ now' = now + 1 /\ now' \in 0..MaxTime /\ issuedAt' \in [0..MaxTime -> 1..MaxKey]
          /\ issuedAt'[now'] = issued
          /\ UNCHANGED <<issued, floor, keys, refreshed>>
      BY <1>0, <2>3 DEF A!Tick, KeysFit
    <3>2. \A t \in 0..now' : issuedAt'[t] <= issued
      BY SMTT(30), <1>0, <1>1, <3>1 DEF KeysFit
    <3>3. ASSUME NEW s \in 0..now', NEW t \in 0..now', s <= t
          PROVE  issuedAt'[s] <= issuedAt'[t]
      <4>1. CASE t = now'
        BY <3>1, <3>2, <4>1
      <4>2. CASE t # now'
        <5>1. s \in 0..now /\ t \in 0..now
          BY <1>0, <3>1, <3>3, <4>2 DEF KeysFit
        <5> QED
          BY <1>0, <1>1, <3>3, <5>1 DEF KeysFit
      <4> QED
        BY <4>1, <4>2
    <3> QED
      BY <1>0, <1>1, <3>1, <3>2, <3>3 DEF KeysFit
  <2> QED
    BY <2>1, <2>2, <2>3
<1>3. HolderFits'
  BY <1>1 DEF AuthInv, HolderFits, Is
<1>4. ASSUME NEW r \in Requests, request[r] # None PROVE RequestFits(r)'
  <2> DEFINE q == request[r]
  <2>1. RequestFits(r) /\ request'[r] = q /\ manager' = manager /\ users' = users
    BY <1>1 DEF AuthInv
  <2>2. /\ q.asked \in 0..now /\ q.oldest \in 1..issued
        /\ issued \in Nat /\ issued' \in Nat /\ now \in Nat /\ now' \in Nat
    BY <1>0, <1>1, <1>4, <2>1 DEF RequestFits, KeysFit
  <2>3. q.asked \in 0..now' /\ q.oldest \in 1..issued'
    BY <1>1, <2>2
  <2>4. q.phase = "jwt" => q.oldest <= floor' \/ q.oldest <= issuedAt'[From(q.asked)]
    <3>1. From(q.asked) \in 0..now
      BY <1>0, <2>2 DEF From
    <3>2. floor \in Nat /\ floor' \in Nat
      BY <1>0, <1>1 DEF KeysFit
    <3> QED
      BY <1>1, <1>4, <2>1, <2>2, <3>1, <3>2 DEF RequestFits
  <2>5. RightByKeys(q) => RightByKeys(q)'
    <3>1. q.token.key \in q.oldest..issued => q.token.key \in q.oldest..issued'
      BY <1>1, <2>2
    <3>2. q.oldest..issued # {q.token.key} => q.oldest..issued' # {q.token.key}
      <4>1. issued \in q.oldest..issued /\ q.oldest \in q.oldest..issued
        BY <2>2
      <4>2. SUFFICES ASSUME q.oldest..issued' = {q.token.key}
                     PROVE  q.oldest..issued = {q.token.key}
        OBVIOUS
      <4>3. issued \in q.oldest..issued' /\ q.oldest \in q.oldest..issued'
        BY <1>1, <2>2
      <4>4. issued = q.token.key /\ q.oldest = q.token.key
        BY <4>2, <4>3
      <4> QED
        BY <2>2, <4>4
    <3> QED
      BY <2>1, <3>1, <3>2 DEF RightByKeys, Good
  <2>6. IsRight(q)'
    BY <1>1, <1>4, <2>1, <2>5 DEF RequestFits, IsRight
  <2> HIDE DEF q
  <2> QED
    BY <1>4, <2>1, <2>3, <2>4, <2>6 DEF RequestFits, q, Answered, IsRequest
<1>5. ASSUME NEW r \in Requests, request[r] = None PROVE RequestFits(r)'
  BY <1>1, <1>5 DEF RequestFits
<1> QED
  BY <1>1, <1>2, <1>3, <1>4, <1>5 DEF AuthInv

\* Each step keeps the invariant.
LEMMA AuthStep == ASSUME AuthInv, [A!Next]_(A!vars) PROVE AuthInv'
<1>1. CASE UNCHANGED A!vars
  BY <1>1 DEF A!vars, AuthInv, KeysFit, HolderFits, RequestFits, Is, IsRight, RightByUsers,
     RightByKeys
<1> QED
  BY <1>1, AuthenticateKeeps, RequestKeeps, ReloadUsersKeeps, KeysAdvance DEF A!Next

\* The invariant says which verdicts are right.
LEMMA AuthImply == AuthInv => A!TypeOK /\ A!VerdictsAreRight
<1> SUFFICES ASSUME AuthInv PROVE A!TypeOK /\ A!VerdictsAreRight
  OBVIOUS
<1>1. A!TypeOK
  BY ServicesAssumption DEF AuthInv, KeysFit, HolderFits, RequestFits, Answered, A!TypeOK
<1>2. manager.method \in {"internal", "http", "jwt"}
  BY ServicesAssumption DEF AuthInv
<1>3. ASSUME NEW r \in Requests, request[r] # None PROVE IsRight(request[r])
  BY <1>3 DEF AuthInv, RequestFits
<1> QED
  BY <1>1, <1>2, <1>3 DEF A!VerdictsAreRight, IsRight, RightByUsers, RightByKeys, Good,
     Answered

\* Every verdict is that of a list of users which was in force while the request
\* was considered, or of keys that the issuer published less than a period before
\* it and not before the last refresh that it came after: for any users, tokens
\* and requests, and any period.
THEOREM VerdictsCorrect ==
  A!Spec => [](A!TypeOK /\ A!VerdictsAreRight)
BY AuthInit, AuthStep, AuthImply, PTL DEF A!Spec

-----------------------------------------------------------------------------
(***************************************************************************)
(* The three together.                                                     *)
(***************************************************************************)

LEMMA PartsBegin == MCInit => Init /\ A!Init /\ C!Init
BY DEF MCInit, ConfIdle, AuthIdle, CommandsIdle

LEMMA PartsStep ==
  [MCNext]_allVars => [Next]_vars /\ [A!Next]_(A!vars) /\ [C!Next]_(C!vars)
BY DEF MCNext, allVars, authVars, commandVars, A!vars, C!vars

\* The invariant of each part is one of the three together.
LEMMA PartsHold == MCSpec => [](ConfInv /\ AuthInv /\ CommandsInv)
<1>1. MCInit => ConfInv /\ AuthInv /\ CommandsInv
  BY PartsBegin, ConfInit, AuthInit, CommandsInit
<1>2. ConfInv /\ AuthInv /\ CommandsInv /\ [MCNext]_allVars =>
          (ConfInv /\ AuthInv /\ CommandsInv)'
  BY PartsStep, ConfStep, AuthStep, CommandsStep
<1> QED
  BY <1>1, <1>2, PTL DEF MCSpec

\* Types.
THEOREM ServicesTypeCorrect == MCSpec => []TypesOK
<1>1. ConfInv /\ AuthInv /\ CommandsInv => TypesOK
  BY ConfImplies, AuthImply, CommandsImply DEF TypesOK
<1> QED
  BY <1>1, PartsHold, PTL

\* What a configuration in force can be relied on for (every path can be run,
\* every name has its entry, the next edit starts from something valid), what a
\* verdict was based on, and what the commands leave behind.
THEOREM ServicesCorrect == MCSpec => []ServicesAreRight
<1>1. ConfInv /\ AuthInv /\ CommandsInv => ServicesAreRight
  BY ConfImplies, AuthImply, CommandsImply DEF ServicesAreRight
<1> QED
  BY <1>1, PartsHold, PTL

\* An accepted edit takes effect and touches nothing else, for any body; a
\* refused one changes nothing.
THEOREM EditsCorrect == MCSpec => EditsTakeEffect
<1>1. ConfInv /\ [MCNext]_allVars =>
          [IF last'.accepted THEN edits' > edits => InForce(last', conf, conf')
           ELSE last'.kind # "none" => conf' = conf]_vars
  <2>1. ConfInv /\ [Next]_vars =>
          [IF last'.accepted THEN edits' > edits => InForce(last', conf, conf')
           ELSE last'.kind # "none" => conf' = conf]_vars
    BY EffectStep DEF Effect
  <2> QED
    BY <2>1, PartsStep
<1>2. MCSpec => []ConfInv
  BY PartsHold, PTL
<1> QED
  BY <1>1, <1>2, PTL DEF MCSpec, EditsTakeEffect
=============================================================================

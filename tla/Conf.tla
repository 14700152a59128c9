-------------------------------- MODULE Conf --------------------------------
(***************************************************************************)
(* The configuration of the server (internal/conf) and the edits the       *)
(* control API makes of it (internal/api, api_config_*.go).                *)
(*                                                                         *)
(* A configuration is what somebody wrote (the global parameters, the      *)
(* defaults of the paths and, for each path, the values given for it) and  *)
(* what Validate derives from it: the path configurations in force, the    *)
(* values of parameters that an old name of them overrides, the users made *)
(* of legacy credentials, the pairs of camera streams.  A written value is *)
(* optional: a set of values is a record with the fields that are given.   *)
(*                                                                         *)
(* An edit clones the configuration, changes what was written, validates   *)
(* the result, which derives everything again, and keeps it if there is no *)
(* error (api_config_paths.go, api_config_global.go,                       *)
(* api_config_pathdefaults.go).  What becomes of the components when it is *)
(* kept is the subject of module Core.                                     *)
(***************************************************************************)
EXTENDS Naturals, FiniteSets, Sequences

CONSTANTS
    None,           \* no value
    NameOrder,      \* the names of paths, in the order of Go's strings
    Regexps,        \* those that begin with a tilde and compile
    Matched,        \* for each of Regexps, the requested names it matches
    Invalid,        \* the names, requested or not, that IsValidPathName refuses
    Requested,      \* the names clients ask for
    Files,          \* the contents the configuration file may have
    GlobalPatches, DefaultPatches, PathPatches,     \* the bodies of edits
    MaxEdits        \* bound: edits made through the API

Names == {NameOrder[i] : i \in DOMAIN NameOrder}

\* "~^.*$" is the regular expression that all and all_others stand for.
CatchAll == "~^.*$"
Aliases == {"all", "all_others", CatchAll}

ASSUME NamesAssumption ==
    /\ \A i, j \in DOMAIN NameOrder : NameOrder[i] = NameOrder[j] => i = j
    /\ CatchAll \in Regexps /\ Regexps \subseteq Names
    /\ DOMAIN Matched = Regexps \ {CatchAll}
    /\ Invalid \cap (Regexps \cup Aliases) = {}
    /\ NameOrder \in Seq(STRING) /\ None \notin Names \cup Aliases /\ None \notin BOOLEAN
    /\ MaxEdits \in Nat

-----------------------------------------------------------------------------
(***************************************************************************)
(* Values.  The addresses of the listeners and the switches of the servers *)
(* are sets; a passphrase is "", "short" or "good"; durations are in       *)
(* hours; recordPath is the set of the fields its pattern contains.        *)
(***************************************************************************)

User(name, pass, action, path) ==
    [name |-> name, pass |-> pass, action |-> action, path |-> path]

defaultAuthInternalUsers ==
    {User("any", "", "media", None), User("any", "", "admin", None)}

\* Global parameters of a new configuration.
GlobalDefaults ==
    [writeQueueSize |-> 512,          readBufferCount |-> None,
     authMethod |-> "internal",       externalAuthenticationURL |-> None,
     authHTTPAddress |-> "",          authJWTJWKS |-> "",
     authInternalUsers |-> defaultAuthInternalUsers,
     on |-> {"api", "rtsp", "rtmp", "hls", "webrtc"},
     rtspDisable |-> None,            rtmpDisable |-> None,
     addresses |-> {"api", "metrics", "pprof", "playback", "rtmp", "hls",
                    "webrtc", "rtsp", "rtp", "multicast", "rtsps", "srtp",
                    "multicastSRTP", "webrtcLocal"},
     rtspTransports |-> {"udp", "multicast", "tcp"},  protocols |-> None,
     rtspEncryption |-> "no",         encryption |-> None,
     rtspAuthMethods |-> {"basic"},   authMethods |-> None,
     webrtcICEServers2 |-> <<>>,      webrtcICEServers |-> None,
     recordSegmentDuration |-> None,  recordDeleteAfter |-> None]

\* Values a path has by default.
setDefaults ==
    [source |-> "publisher",          sourceRedirect |-> "",
     sourceOnDemand |-> FALSE,        rtpSDP |-> FALSE,
     overridePublisher |-> TRUE,      disablePublisherOverride |-> None,
     srtPublishPassphrase |-> "",     srtReadPassphrase |-> "",
     fallback |-> None,               alwaysAvailable |-> FALSE,
     alwaysAvailableFile |-> "",      alwaysAvailableTracks |-> FALSE,
     useAbsoluteTimestamp |-> FALSE,  rpiCameraCamID |-> 0,
     rpiCameraSecondary |-> FALSE,    rpiCameraWidth |-> 1920,
     rpiCameraCodec |-> "auto",       rpiCameraSettingsOk |-> TRUE,
     recordPath |-> {"path", "time", "fraction"},
     recordSegmentDuration |-> 1,     recordDeleteAfter |-> 24,
     publishUser |-> None,            readUser |-> None,
     runOnInit |-> FALSE,             runOnDemand |-> FALSE]

\* What decoding a file or a body accepts: values of these fields, and "given"
\* is a pointer to a value of the type that the field has.
Given(values, fields) ==
    /\ DOMAIN values \subseteq fields
    /\ \A f \in DOMAIN values : values[f] # None
    /\ \A f \in DOMAIN values \cap {"webrtcICEServers", "webrtcICEServers2"} :
           values[f] \in Seq(STRING)
    /\ "rpiCameraSecondary" \in DOMAIN values => values.rpiCameraSecondary \in BOOLEAN

ASSUME ValuesAssumption ==
    /\ \A p \in GlobalPatches : Given(p, DOMAIN GlobalDefaults)
    /\ \A p \in DefaultPatches \cup PathPatches : Given(p, DOMAIN setDefaults)
    /\ \A f \in Files :
           /\ Given(f.global, DOMAIN GlobalDefaults) /\ Given(f.defaults, DOMAIN setDefaults)
           /\ DOMAIN f.paths \subseteq Names
           /\ \A n \in DOMAIN f.paths : Given(f.paths[n], DOMAIN setDefaults)

\* Values that Validate fills.
FilledFields == {"rpiCameraPrimaryName", "rpiCameraSecondaryWidth"}

-----------------------------------------------------------------------------
(***************************************************************************)
(* The old names of parameters: an old one that is given replaces the new  *)
(* one, at every validation.                                               *)
(***************************************************************************)

Successor ==
    [readBufferCount |-> "writeQueueSize", protocols |-> "rtspTransports",
     encryption |-> "rtspEncryption",      authMethods |-> "rtspAuthMethods"]

\* Old switches, that turn a server off; the ones of HLS and WebRTC are alike.
Switch == [rtspDisable |-> "rtsp", rtmpDisable |-> "rtmp"]

\* The old parameter, if any is given, that decides parameter f of g.
Overriding(g, f) ==
    {old \in DOMAIN Successor : Successor[old] = f /\ g[old] # None}

\* Faulty variant: an old switch turns the server over, instead of off or on.
Converted_Fault(g) ==
    [f \in DOMAIN g |->
        IF f = "on"
        THEN {s \in {"api", "metrics", "pprof", "playback", "rtsp", "rtmp", "hls", "webrtc"} :
                 (s \in g.on) # (\E d \in DOMAIN Switch : Switch[d] = s /\ g[d] # None)}
        ELSE IF Overriding(g, f) # {} THEN g[CHOOSE old \in Overriding(g, f) : TRUE]
        ELSE g[f]]

\* Global parameters: those with a new name, the switches of the servers,
\* external authentication, and the WebRTC servers, that are appended.
Converted(g) ==
    [f \in DOMAIN g |->
        CASE f \in {"authMethod", "authHTTPAddress"}
                    /\ g.externalAuthenticationURL # None ->
               IF f = "authMethod" THEN "http" ELSE g.externalAuthenticationURL
          [] f = "on" ->
               (g.on \ {Switch[d] : d \in {d \in DOMAIN Switch : g[d] = TRUE}})
                   \cup {Switch[d] : d \in {d \in DOMAIN Switch : g[d] = FALSE}}
          [] f = "webrtcICEServers2" /\ g.webrtcICEServers # None ->
               g.webrtcICEServers2 \o g.webrtcICEServers
          [] Overriding(g, f) # {} -> g[CHOOSE old \in Overriding(g, f) : TRUE]
          [] OTHER -> g[f]]

RecordParameters == {"recordSegmentDuration", "recordDeleteAfter"}

\* The record parameters, that belong to the defaults of the paths now.
ConvertedDefaults(c) ==
    [f \in DOMAIN c.defaults |->
        IF f \in RecordParameters /\ c.global[f] # None
        THEN c.global[f] ELSE c.defaults[f]]

-----------------------------------------------------------------------------
(***************************************************************************)
(* The paths in force.                                                     *)
(***************************************************************************)

HasRegexp(n) == n \in Regexps \cup Aliases

\* The values that source gives replace those of dest.
copyStructFields(dest, source) ==
    [f \in DOMAIN dest \cup DOMAIN source |->
        IF f \in DOMAIN source THEN source[f] ELSE dest[f]]

\* The values of a path: the given ones, over the defaults.
newPath(defaults, partial) == copyStructFields(defaults, partial)

IsCamera(p) == p.source = "rpiCamera"
SameCamera(p, q) == IsCamera(p) /\ IsCamera(q) /\ p.rpiCameraCamID = q.rpiCameraCamID

Primaries(paths, n) ==
    {o \in DOMAIN paths \ {n} : /\ SameCamera(paths[n], paths[o])
                                /\ ~paths[o].rpiCameraSecondary}
Secondaries(paths, n) ==
    {o \in DOMAIN paths \ {n} : /\ SameCamera(paths[n], paths[o])
                                /\ paths[o].rpiCameraSecondary}

\* Faulty variant: nobody looks whether two paths open the same camera.
ValidCamera_Fault(paths, n) ==
    paths[n].rpiCameraSecondary =>
        Primaries(paths, n) # {} /\ Secondaries(paths, n) = {}

\* A primary stream is the only one of its camera; a secondary one has a
\* primary one, that has no other.
ValidCamera(paths, n) ==
    LET p == paths[n] IN
    /\ p.rpiCameraSettingsOk /\ p.rpiCameraWidth # 0
    /\ IF ~p.rpiCameraSecondary
       THEN /\ p.rpiCameraCodec \in {"auto", "hardwareH264", "softwareH264"}
            /\ Primaries(paths, n) = {}
       ELSE /\ p.rpiCameraCodec \in {"auto", "mjpeg"}
            /\ Primaries(paths, n) # {}
            /\ Secondaries(paths, n) = {}

IsValidPathName(n) == n \notin Invalid
checkSRTPassphrase(v) == v # "short"
checkRedirect(v) == v # "bad"
checkAlwaysAvailableFile(v) == v # "bad"

ValidSource(paths, n) ==
    LET p == paths[n] IN
    CASE p.source = "publisher" -> checkSRTPassphrase(p.srtPublishPassphrase)
      [] p.source = "url"       -> TRUE
      [] p.source = "rtp"       -> p.rtpSDP
      [] p.source = "redirect"  -> p.sourceRedirect # "" /\ checkRedirect(p.sourceRedirect)
      [] p.source = "rpiCamera" -> ValidCamera(paths, n)
      [] OTHER                  -> FALSE

ValidOnDemand(p, n) ==
    IF p.sourceOnDemand
    THEN p.source # "publisher"
    ELSE p.source \notin {"publisher", "redirect"} => ~HasRegexp(n)

ValidAlwaysAvailable(p, n) ==
    p.alwaysAvailable =>
        /\ ~HasRegexp(n) /\ ~p.sourceOnDemand /\ ~p.runOnDemand
        /\ IF p.alwaysAvailableFile # ""
           THEN ~p.alwaysAvailableTracks /\ checkAlwaysAvailableFile(p.alwaysAvailableFile)
           ELSE p.alwaysAvailableTracks
        /\ ~p.useAbsoluteTimestamp

ValidRecord(g, p) ==
    /\ {"path", "time"} \subseteq p.recordPath
    /\ "playback" \in g.on => "fraction" \in p.recordPath
    /\ p.recordSegmentDuration <= 24
    /\ p.recordDeleteAfter # 0 => p.recordDeleteAfter >= p.recordSegmentDuration

ValidHooks(p, n) ==
    /\ p.runOnInit => ~HasRegexp(n)
    /\ p.runOnDemand => p.source = "publisher"

\* Path.validate, for the values of all paths.
validate(g, paths, n) ==
    LET p == paths[n] IN
    /\ IsValidPathName(n)
    /\ p.srtPublishPassphrase # "" => p.source = "publisher"
    /\ p.sourceRedirect # "" => p.source = "redirect"
    /\ ValidSource(paths, n)
    /\ ValidOnDemand(p, n)
    /\ checkSRTPassphrase(p.srtReadPassphrase)
    /\ p.fallback # None => checkRedirect(p.fallback)
    /\ ValidAlwaysAvailable(p, n)
    /\ ValidRecord(g, p)
    /\ ValidHooks(p, n)

\* The values it changes: the old name of overridePublisher and the pairs of
\* camera streams, that each stream of a pair knows of.
Derived(paths, n) ==
    LET p == paths[n]
        old == p.disablePublisherOverride
        pair == [rpiCameraPrimaryName |->
                       IF IsCamera(p) /\ p.rpiCameraSecondary
                       THEN CHOOSE o \in Primaries(paths, n) : TRUE ELSE None,
                   rpiCameraSecondaryWidth |->
                       IF IsCamera(p) /\ ~p.rpiCameraSecondary
                              /\ Secondaries(paths, n) # {}
                       THEN paths[CHOOSE o \in Secondaries(paths, n) : TRUE].rpiCameraWidth
                       ELSE 0]
    IN  copyStructFields(IF p.source = "publisher" /\ old # None
                         THEN [p EXCEPT !.overridePublisher = ~old] ELSE p, pair)

-----------------------------------------------------------------------------
(***************************************************************************)
(* Authentication.                                                         *)
(***************************************************************************)

LegacyParameters == {"publishUser", "readUser"}

anyPathHasDeprecatedCredentials(defaults, own) ==
    \E f \in LegacyParameters :
        defaults[f] # None \/ \E n \in DOMAIN own : f \in DOMAIN own[n]

\* They are for a configuration that gives no users.
LegacyAllowed(g) == g.authInternalUsers = defaultAuthInternalUsers

\* The users that replace the default ones when a path has credentials of
\* its own: one to publish and one to read, for each path.
LegacyUsers(paths) ==
    {User("any", "", "playback", None), User("any", "", "admin", None)} \cup
    UNION {LET path == IF n \in Aliases THEN CatchAll ELSE n
               who(u) == IF u = None THEN "any" ELSE u
           IN  {User(who(paths[n].publishUser), "", "publish", path),
                User(who(paths[n].readUser), "", "read", path)}
           : n \in DOMAIN paths}

ValidUsers(users) ==
    \A u \in users : u.name # "" /\ (u.name = "any" => u.pass = "")

IsHashed(u) == u.name = "hashed" \/ u.pass = "hashed"

ValidAuth(g, users) ==
    CASE g.authMethod = "internal" -> ValidUsers(users)
      [] g.authMethod = "http" -> g.authHTTPAddress = "http"
      [] g.authMethod = "jwt"  -> g.authJWTJWKS = "http"

-----------------------------------------------------------------------------
(***************************************************************************)
(* The servers.                                                            *)
(***************************************************************************)

\* The addresses one of the two RTSP servers needs.
RTSPNeeds(g, main, udp, multicast) ==
    {main} \cup (IF "udp" \in g.rtspTransports THEN {udp} ELSE {})
           \cup (IF "multicast" \in g.rtspTransports THEN {multicast} ELSE {})

ValidRTSP(g, users) ==
    "rtsp" \in g.on =>
        /\ g.rtspEncryption \in {"no", "optional"} =>
               RTSPNeeds(g, "rtsp", "rtp", "multicast") \subseteq g.addresses
        /\ g.rtspEncryption \in {"optional", "strict"} =>
               RTSPNeeds(g, "rtsps", "srtp", "multicastSRTP") \subseteq g.addresses
        /\ g.rtspAuthMethods # {}
        /\ "digest" \in g.rtspAuthMethods =>
               g.authMethod = "internal" /\ \A u \in users : ~IsHashed(u)

ValidWebRTC(g) ==
    "webrtc" \in g.on =>
        /\ \A i \in DOMAIN g.webrtcICEServers2 : g.webrtcICEServers2[i] # "bad"
        /\ "webrtcLocal" \in g.addresses \/ g.webrtcICEServers2 # <<>>

ValidServers(g, users) ==
    /\ g.on \ {"rtsp"} \subseteq g.addresses
    /\ ValidRTSP(g, users)
    /\ ValidWebRTC(g)

IsPowerOfTwo(n) == \E k \in 0..16 : n = 2^k

-----------------------------------------------------------------------------
(***************************************************************************)
(* Validate: the configuration derived from c, or None.                    *)
(***************************************************************************)

\* The paths in force, one for each that is written, even without a value.
\* Faulty variant: the ones without a value are left out.
Paths_Fault(own, values) ==
    [n \in {m \in DOMAIN own : own[m] # <<>>} |-> Derived(values, n)]

Paths(own, values) == [n \in DOMAIN own |-> Derived(values, n)]

\* The paths somebody wrote; a server with none serves every name.
OptionalPaths(own) ==
    IF DOMAIN own = {} THEN [n \in {CatchAll} |-> <<>>] ELSE own

Validate(c) ==
    LET g        == Converted(c.global)
        defaults == ConvertedDefaults([c EXCEPT !.global = g])
        own      == OptionalPaths(c.own)
        legacy   == anyPathHasDeprecatedCredentials(c.defaults, c.own)
        values   == [n \in DOMAIN own |-> newPath(defaults, own[n])]
        users    == IF legacy THEN LegacyUsers(values) ELSE g.authInternalUsers
        checked  == IF legacy THEN {} ELSE users   \* none of a path has been added
        valid    ==
            /\ IsPowerOfTwo(g.writeQueueSize)
            /\ legacy => LegacyAllowed(g)
            /\ ValidAuth(g, checked)
            /\ ValidServers(g, checked)
            /\ Cardinality(DOMAIN c.own \cap Aliases) <= 1
            /\ \A n \in DOMAIN own : validate(g, values, n)
    IN  IF ~valid THEN None
        ELSE [global |-> [g EXCEPT !.authInternalUsers = users],
              defaults |-> defaults, own |-> own,
              paths |-> Paths(own, values)]

-----------------------------------------------------------------------------
(***************************************************************************)
(* The entry that serves a name: its own, or the first regular expression  *)
(* that matches it, all and all_others after the others.                   *)
(***************************************************************************)

Position(n) == CHOOSE i \in DOMAIN NameOrder : NameOrder[i] = n

\* Faulty variant: the names alone give the order.
Rank_Fault(n) == Position(n)

Rank(n) == Position(n) + IF n \in {"all", "all_others"} THEN Len(NameOrder) ELSE 0

Matching(paths, q) ==
    {n \in DOMAIN paths : HasRegexp(n) /\ (n \in Aliases \/ q \in Matched[n])}

FindPathConf(paths, q) ==
    IF q \in DOMAIN paths THEN q
    ELSE IF ~IsValidPathName(q) \/ Matching(paths, q) = {} THEN None
    ELSE CHOOSE n \in Matching(paths, q) :
             \A o \in Matching(paths, q) : Rank(n) <= Rank(o)

-----------------------------------------------------------------------------
VARIABLES
    conf,       \* the configuration in force (API.Conf, Core.conf)
    last,       \* the last edit, and whether it was accepted
    edits       \* how many have been made

vars == <<conf, last, edits>>

\* A file replaces the values of a new configuration; the users it gives
\* replace the default ones.
FromFile(f) ==
    [global |-> copyStructFields(GlobalDefaults, f.global),
     defaults |-> copyStructFields(setDefaults, f.defaults),
     own |-> f.paths]

NoEdit == [kind |-> "none", name |-> None, patch |-> <<>>, accepted |-> FALSE]

\* Load: the server does not start with a file that is not valid.
Init ==
    /\ \E f \in Files : /\ Validate(FromFile(f)) # None
                        /\ conf = Validate(FromFile(f))
    /\ last = NoEdit /\ edits = 0

\* The file has changed: with one that is not valid, the server ends.
Reload(f) ==
    /\ edits < MaxEdits
    /\ Validate(FromFile(f)) # None
    /\ conf' = Validate(FromFile(f))
    /\ last' = NoEdit /\ edits' = edits + 1

\* What is written after an edit of it, or None.
PatchGlobal(c, patch) == [c EXCEPT !.global = copyStructFields(c.global, patch)]

PatchPathDefaults(c, patch) == [c EXCEPT !.defaults = copyStructFields(c.defaults, patch)]

ReplacePath(c, n, patch) ==
    [c EXCEPT !.own = [m \in DOMAIN @ \cup {n} |-> IF m = n THEN patch ELSE @[m]]]

AddPath(c, n, patch) ==
    IF n \in DOMAIN c.own THEN None ELSE ReplacePath(c, n, patch)

\* Faulty variant: a patch replaces the values given before.
PatchPath_Fault(c, n, patch) ==
    IF n \notin DOMAIN c.own THEN None ELSE [c EXCEPT !.own[n] = patch]

PatchPath(c, n, patch) ==
    IF n \notin DOMAIN c.own THEN None
    ELSE [c EXCEPT !.own[n] = copyStructFields(@, patch)]

RemovePath(c, n) ==
    IF n \notin DOMAIN c.own THEN None
    ELSE [c EXCEPT !.own = [m \in DOMAIN c.own \ {n} |-> c.own[m]]]

Written(c) == [global |-> c.global, defaults |-> c.defaults, own |-> c.own]

\* A handler of the API: clone, edit, validate, keep.
Edit(kind, n, patch, edited) ==
    /\ edits < MaxEdits /\ edits' = edits + 1
    /\ \E validated \in {IF edited = None THEN None ELSE Validate(edited)} :
        /\ last' = [kind |-> kind, name |-> n, patch |-> patch,
                     accepted |-> validated # None]
        /\ conf' = IF validated = None THEN conf ELSE validated

EditGlobal == \E p \in GlobalPatches :
    Edit("global", None, p, PatchGlobal(Written(conf), p))

EditDefaults == \E p \in DefaultPatches :
    Edit("defaults", None, p, PatchPathDefaults(Written(conf), p))

AddOne(n) == \E p \in PathPatches : Edit("add", n, p, AddPath(Written(conf), n, p))
PatchOne(n) == \E p \in PathPatches : Edit("patch", n, p, PatchPath(Written(conf), n, p))
ReplaceOne(n) == \E p \in PathPatches : Edit("replace", n, p, ReplacePath(Written(conf), n, p))
RemoveOne(n) == Edit("remove", n, <<>>, RemovePath(Written(conf), n))

Next ==
    \/ \E f \in Files : Reload(f)
    \/ EditGlobal \/ EditDefaults
    \/ \E n \in Names : AddOne(n) \/ PatchOne(n) \/ ReplaceOne(n) \/ RemoveOne(n)

Spec == Init /\ [][Next]_vars

-----------------------------------------------------------------------------
(***************************************************************************)
(* Properties.                                                             *)
(***************************************************************************)

\* Types.
TypeOK ==
    /\ DOMAIN conf.global = DOMAIN GlobalDefaults
    /\ DOMAIN conf.defaults = DOMAIN setDefaults
    /\ DOMAIN conf.own \subseteq Names /\ DOMAIN conf.paths = DOMAIN conf.own
    /\ \A n \in DOMAIN conf.own : DOMAIN conf.own[n] \subseteq DOMAIN setDefaults
    /\ \A n \in DOMAIN conf.paths :
           DOMAIN conf.paths[n] = DOMAIN setDefaults \cup FilledFields
    /\ edits \in 0..MaxEdits

IsStatic(p) == p.source \notin {"publisher", "redirect"}
IsOnDemand(p) == (IsStatic(p) /\ p.sourceOnDemand) \/ p.runOnDemand

\* After any sequence of loads and accepted edits, of a path or of the
\* defaults under all of them, every path is one that path.go, the path
\* manager and the camera source can run: what they do not look at again.
\* The streams of a camera know of each other, and nobody else opens it.
PathsAreUsable ==
    /\ conf.paths # <<>>
    /\ \A n \in DOMAIN conf.paths : LET p == conf.paths[n] IN
        /\ p.alwaysAvailable => ~HasRegexp(n) /\ ~IsOnDemand(p)
        /\ IsStatic(p) /\ HasRegexp(n) => IsOnDemand(p)
        /\ ~(IsStatic(p) /\ p.runOnDemand)
        /\ HasRegexp(n) => ~p.runOnInit
        /\ IsCamera(p) /\ p.rpiCameraSecondary =>
               /\ p.rpiCameraPrimaryName \in DOMAIN conf.paths
               /\ LET o == conf.paths[p.rpiCameraPrimaryName]
                  IN  /\ SameCamera(o, p) /\ ~o.rpiCameraSecondary
                      /\ o.rpiCameraSecondaryWidth = p.rpiCameraWidth
        /\ p.rpiCameraSecondaryWidth # 0 =>
               Cardinality({m \in DOMAIN conf.paths :
                               conf.paths[m].rpiCameraPrimaryName = n}) = 1
        /\ \A m \in DOMAIN conf.paths \ {n} :
               SameCamera(p, conf.paths[m]) =>
                   p.rpiCameraSecondary # conf.paths[m].rpiCameraSecondary

HasLegacy(c) == anyPathHasDeprecatedCredentials(c.defaults, c.own)

\* Every edit validates the configuration again: one in force is valid again
\* and stays what it is, so that an edit is never refused, and never changes
\* anything, because of what was there before it.  Two old parameters are not
\* carried over once: with legacy credentials no edit is accepted any more,
\* and the old list of WebRTC servers is appended again by each.
StaysValid ==
    LET again == Validate(Written(conf))
        appended == IF conf.global.webrtcICEServers = None THEN <<>>
                    ELSE conf.global.webrtcICEServers
    IN  IF HasLegacy(conf) THEN again = None
        ELSE again = [conf EXCEPT !.global.webrtcICEServers2 = @ \o appended]

\* The name of a client is served if some entry is for it, and an entry
\* called all or all_others, that is for every name, only serves those that
\* no other entry is for (path.go:158).
LookupAgrees ==
    \A q \in Requested : LET n == FindPathConf(conf.paths, q) IN
        /\ (n = None) <=> \A m \in DOMAIN conf.paths :
                              m # q /\ (q \in Invalid \/ m \notin Matching(conf.paths, q))
        /\ n \in {"all", "all_others"} \ {q} =>
               Matching(conf.paths, q) = {n} /\ q \notin DOMAIN conf.paths

\* Values that an old parameter or a pair of cameras decides.
Decided(c, n) ==
    FilledFields \cup
    IF n # None /\ n \in DOMAIN c.paths /\ c.paths[n].disablePublisherOverride # None
    THEN {"overridePublisher"} ELSE {}

SameValues(c, d, n, fields) ==
    /\ n \in DOMAIN c.paths <=> n \in DOMAIN d.paths
    /\ n \in DOMAIN c.paths => \A f \in fields \ Decided(d, n) :
           c.paths[n][f] = d.paths[n][f]

PathFields == DOMAIN setDefaults

\* What an accepted edit e of c makes of it, d: the values it gives are in
\* force, and those it does not give, and the other paths, stay as they are.
InForce(e, c, d) ==
    CASE e.kind = "global" ->
           /\ \A f \in DOMAIN e.patch :
                  \/ d.global[f] = e.patch[f]
                  \/ Overriding(d.global, f) # {}
                  \/ f = "on" /\ \E s \in DOMAIN Switch : d.global[s] # None
                  \/ f = "webrtcICEServers2" /\ d.global.webrtcICEServers # None
                  \/ /\ f \in {"authMethod", "authHTTPAddress"}
                     /\ d.global.externalAuthenticationURL # None
                  \/ f = "authInternalUsers" /\ HasLegacy(d)
           /\ \A n \in Names : SameValues(c, d, n, PathFields \ RecordParameters)
      [] e.kind = "defaults" ->
           \A n \in DOMAIN d.paths : \A f \in PathFields \ Decided(d, n) :
              d.paths[n][f] =
                  IF f \in DOMAIN e.patch \ DOMAIN d.own[n]
                     /\ (f \in RecordParameters => d.global[f] = None)
                  THEN e.patch[f] ELSE c.paths[n][f]
      [] e.kind = "remove" ->
           /\ e.name \in DOMAIN d.own => e.name = CatchAll /\ DOMAIN d.own = {CatchAll}
           /\ \A n \in Names \ {e.name, CatchAll} : SameValues(c, d, n, PathFields)
      [] OTHER ->
           /\ \A n \in Names \ {e.name} : SameValues(c, d, n, PathFields)
           /\ \A f \in PathFields \ Decided(d, e.name) :
                 d.paths[e.name][f] =
                     IF f \in DOMAIN e.patch THEN e.patch[f]
                     ELSE IF e.kind = "patch" THEN c.paths[e.name][f]
                     ELSE d.defaults[f]

\* An accepted edit takes effect and touches nothing else; a refused one
\* changes nothing.
EditsTakeEffect ==
    [][IF last'.accepted THEN edits' > edits => InForce(last', conf, conf')
       ELSE last'.kind # "none" => conf' = conf]_vars

=============================================================================

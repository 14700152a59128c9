---------------------------- MODULE MCServices -----------------------------
(***************************************************************************)
(* Instances of what the servers and the paths rest on: the configuration  *)
(* (Conf), authentication (Auth) and external commands (Commands).  A      *)
(* behaviour is one of the three.                                          *)
(***************************************************************************)
EXTENDS Conf, TLC

CONSTANTS
  Managers, UserLists, Inquiries, Requests, r1, Period, MaxTime, MaxKey,
  HookConfs, Hooks, Systems, MaxLaunches

VARIABLES
  subject,
  manager, users, keys, refreshed, holder, now, issued, issuedAt, floor, request,
  system, hookConf, owner, routine, process, strays, launches, waiting

\* What the code fixes about the constants: the methods of authentication, a
\* positive period of the keys, and None, that is no request.
ASSUME ServicesAssumption ==
  /\ \A m \in Managers : m.method \in {"internal", "http", "jwt"}
  /\ Period \in Nat \ {0} /\ MaxTime \in Nat /\ MaxKey \in Nat \ {0}
  /\ None \notin Requests /\ MaxLaunches \in Nat

authVars == <<manager, users, keys, refreshed, holder, now, issued, issuedAt, floor, request>>
commandVars == <<system, hookConf, owner, routine, process, strays, launches, waiting>>
allVars == <<vars, subject, authVars, commandVars>>

-----------------------------------------------------------------------------
(* The configuration: two plain names, a regular expression that matches   *)
(* one of them, the two ways to write the catch-all, an invalid name.      *)

names == <<"all_others", "cam", "cam/../x", "other", "~^.*$", "~^cam">>
matched == [n \in {"~^cam"} |-> {"cam"}]
requested == {"cam", "other", "cam/../x", "all_others"}

Own(n, v) == n :> v
camera == [source |-> "rpiCamera"]
second == [source |-> "rpiCamera", rpiCameraSecondary |-> TRUE, rpiCameraWidth |-> 640]

File(g, d, p) == [global |-> g, defaults |-> d, paths |-> p]

\* No path, as the file the program writes; a camera with two streams; a path
\* that is always available with a catch-all; legacy credentials; the old
\* names of several parameters; strict encryption with digest.
files ==
    {File(<<>>, <<>>, <<>>),
     File(<<>>, <<>>, Own("cam", camera) @@ Own("other", second)),
     File([authMethod |-> "internal"], [runOnDemand |-> FALSE],
          Own("cam", [alwaysAvailable |-> TRUE, alwaysAvailableTracks |-> TRUE])
              @@ Own("all_others", <<>>)),
     File(<<>>, <<>>, Own("cam", [publishUser |-> "joe"]) @@ Own("all_others", <<>>)),
     File([encryption |-> "optional", rtmpDisable |-> TRUE, readBufferCount |-> 1024,
           webrtcICEServers |-> <<"stun">>, recordSegmentDuration |-> 2], <<>>,
          Own("~^cam", <<>>) @@ Own("other", [disablePublisherOverride |-> TRUE])),
     File([rtspEncryption |-> "strict", rtspAuthMethods |-> {"basic", "digest"},
           authInternalUsers |-> {User("joe", "hashed", "read", "cam")}], <<>>, <<>>)}

globalPatches ==
    {[on |-> {"api", "rtmp", "playback"}], [rtspEncryption |-> "strict"],
     [authMethod |-> "http"], [authMethod |-> "internal"],
     [externalAuthenticationURL |-> "http"],
     [authInternalUsers |-> defaultAuthInternalUsers],
     [rtspAuthMethods |-> {"digest"}], [writeQueueSize |-> 500],
     [addresses |-> GlobalDefaults.addresses \ {"rtp", "srtp"}]}

defaultPatches ==
    {[source |-> "url", sourceOnDemand |-> TRUE], [recordSegmentDuration |-> 12],
     [runOnDemand |-> TRUE], [recordPath |-> {"path", "time"}],
     [disablePublisherOverride |-> FALSE], [readUser |-> "joe"]}

pathPatches ==
    {<<>>, camera, second,
     [source |-> "url"], [source |-> "url", sourceOnDemand |-> TRUE],
     [source |-> "redirect", sourceRedirect |-> "good"],
     [alwaysAvailable |-> TRUE, alwaysAvailableTracks |-> TRUE],
     [recordDeleteAfter |-> 2], [runOnInit |-> TRUE], [rpiCameraWidth |-> 1280]}

-----------------------------------------------------------------------------
(* Authentication. *)

perm(action, paths) == [action |-> action, paths |-> paths]
all == {"cam", "hall"}
readAll == {perm("read", all), perm("playback", all)}
publishCam == {perm("publish", {"cam"}), perm("api", {})}

user(name, pass, ips, perms) == [user |-> name, pass |-> pass, ips |-> ips, perms |-> perms]
userLists ==
  {{user("any", None, {}, readAll), user("ann", "a", {}, publishCam)},
   {user("any", None, {"local"}, readAll \cup publishCam)},
   {user("ann", "b", {}, readAll), user("bob", "a", {}, publishCam)}}

managers == {[method |-> m, exclude |-> {perm("api", {})}, inQuery |-> TRUE] :
               m \in {"internal", "http", "jwt"}}

inquiry(action, path, protocol, name, pass, token, query) ==
  [action |-> action, path |-> path, protocol |-> protocol, user |-> name,
   pass |-> pass, token |-> token, query |-> query, ip |-> "away"]
token(key, broken, perms) ==
  [key |-> key, broken |-> broken, perms |-> perms, subject |-> "ann"]

asAnn(action, path) == inquiry(action, path, "rtsp", "ann", "a", None, None)
plain ==
  {inquiry("read", "hall", "rtmp", None, None, None, None), asAnn("publish", "cam"),
   asAnn("publish", "hall"), asAnn("api", "")}
signed == {token(k, FALSE, {perm("read", {"cam"})}) : k \in 1..MaxKey}
old == token(1, FALSE, readAll)
reads(protocol, pass, t, query) == inquiry("read", "cam", protocol, None, pass, t, query)
withTokens ==
  {reads("rtsp", None, token(1, TRUE, readAll), None), reads("rtmp", old, None, None),
   reads("hls", None, None, old),
   inquiry("publish", "cam", "rtsp", None, None, old, None),
   inquiry("api", "", "http", None, None, None, None)}
inquiries ==
  [internal |-> [r \in Requests |-> plain], http |-> [r \in Requests |-> {asAnn("publish", "cam")}],
   jwt |-> [r \in Requests |-> IF r = r1 THEN withTokens
                               ELSE {reads("rtsp", None, t, None) : t \in signed}]]

-----------------------------------------------------------------------------
(* Commands. *)

hookConfs == {c \in [on : BOOLEAN, restart : BOOLEAN, after : BOOLEAN] :
                (c.restart => c.on) /\ (c.on \/ c.after)}

A == INSTANCE Auth
C == INSTANCE Commands WITH conf <- hookConf

\* The other two stay where they begin.
ConfIdle == Init /\ conf = Validate(FromFile(File(<<>>, <<>>, <<>>)))
AuthIdle ==
  /\ A!Init
  /\ manager = CHOOSE m \in Managers : m.method = "http"
  /\ users = CHOOSE u \in UserLists : TRUE
CommandsIdle ==
  /\ C!Init
  /\ system = CHOOSE s \in Systems : TRUE
  /\ hookConf = [h \in Hooks |-> CHOOSE c \in HookConfs : TRUE]

MCInit ==
  \/ subject = "conf" /\ Init /\ AuthIdle /\ CommandsIdle
  \/ /\ subject = "auth" /\ A!Init /\ ConfIdle /\ CommandsIdle
     /\ manager.method # "internal" => users = CHOOSE u \in UserLists : TRUE
  \/ subject = "commands" /\ C!Init /\ ConfIdle /\ AuthIdle

MCNext ==
  /\ UNCHANGED subject
  /\ \/ subject = "conf" /\ Next /\ UNCHANGED <<authVars, commandVars>>
     \/ subject = "auth" /\ A!Next /\ UNCHANGED <<vars, commandVars>>
     \/ subject = "commands" /\ C!Next /\ UNCHANGED <<vars, authVars>>

MCSpec == MCInit /\ [][MCNext]_allVars /\ A!Fairness /\ C!Fairness

TypesOK == TypeOK /\ A!TypeOK /\ C!TypeOK

\* What a configuration in force can be relied on for (Conf), what a verdict
\* was based on (Auth), what the commands leave behind (Commands).
ServicesAreRight ==
  PathsAreUsable /\ LookupAgrees /\ StaysValid
    /\ A!VerdictsAreRight /\ C!NoProcessIsLeft

\* Whoever asks is answered; whatever is launched ends.
ServicesEnd == A!RequestsEnd /\ C!CommandsEnd
=============================================================================

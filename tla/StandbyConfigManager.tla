------------------------- MODULE StandbyConfigManager -------------------------
(* The configuration (StandbyConfigManager): what Init makes of the files  *)
(* of the image and of the cloud, and what the debugging commands of the   *)
(* shell do to it.  configMutex_ makes each operation one step.  A value   *)
(* is known by the source it came from.  That files of the two kinds come  *)
(* in the order of the configuration directories is external.              *)
EXTENDS Integers, Sequences, FiniteSetsExt, SequencesExt

CONSTANTS
  Key,           \* names of entries, in the order of the parser
  Content,       \* what a section may hold: for each key absent, good or bad
  Sections,      \* the sections that occur, of SectionOrder
  ResContent,    \* what a resource may be given in a strategy file
  Version,       \* versions that occur: sequences of segments
  Segment,       \* what may stand between the dots of a version
  SegmentValue,  \* the number of a segment that begins with a digit
  Padded,        \* segments that are written with a leading zero
  MaxFiles,      \* bound: files of a kind
  MaxImage,      \* bound: files of the image
  MaxDumps       \* bound: debugging commands

SectionOrder ==
  <<"standby", "detect_list", "maintenance_list", "pkg_type_list", "strategy_list",
    "halfhour_switch_setting", "standby_list_para", "ladder_battery_list", "mx_standby_list">>
CloudSections == <<"standby", "strategy_list", "standby_list_para", "mx_standby_list">>

VERSION_LEN == 4
Absent == 0                    \* a key that no source gave
Cloud == MaxFiles + 1          \* the source that is the cloud
Debug == MaxFiles + 2          \* ... or a command of the shell
NoVersion == << >>             \* the empty string
CloudPart == Sections \cap Range(CloudSections)
NoCloud == [s \in CloudPart |-> [k \in Key |-> "absent"]]
NoVersions == [device |-> << >>, strategy |-> << >>, cloud |-> NoVersion]

ASSUME ConfigAssumption ==
  /\ Key \subseteq Nat /\ Content \subseteq [Key -> {"absent", "good", "bad"}]
  /\ Sections \subseteq Range(SectionOrder) /\ "standby" \in Sections
  /\ ResContent \subseteq {"absent", "notArray", "badEntry", "badTimer", "good"}
  /\ MaxFiles \in Nat /\ MaxImage \in Nat /\ MaxDumps \in Nat

(* Without a leading zero a number is written in one way only.             *)
ASSUME VersionAssumption ==
  /\ SegmentValue \in [DOMAIN SegmentValue -> Nat] /\ DOMAIN SegmentValue \subseteq Segment
  /\ Version \subseteq Seq(Segment)
  /\ \A a, b \in DOMAIN SegmentValue \ Padded : SegmentValue[a] = SegmentValue[b] => a = b

VARIABLES
  stage,       \* how far Init is
  configMap,   \* the maps of the sections: the source of each value
  resConfig,   \* the three maps of a resource: the source of each
  files,       \* history: the device files that were read
  resFiles,    \* history: what the strategy files and the cloud said
  cloudFile,   \* history: the sections of the cloud, if they were read
  versions,    \* the versions while Init compares them
  backup,      \* backStandbySwitchMap_ and backStandbyParaMap_
  debugMode,   \* debugMode_ of the service
  misused,     \* history: debug mode was turned on or off twice
  dumps        \* counts towards MaxDumps

files_ == <<files, resFiles, cloudFile>>
dump == <<backup, debugMode, misused, dumps>>
vars == <<stage, configMap, resConfig, files_, versions, dump>>

NoEntries == [k \in Key |-> Absent]

Init ==
  /\ stage = "files"
  /\ configMap = [s \in Sections |-> NoEntries]
  /\ resConfig = [raw |-> Absent, whole |-> Absent, timer |-> Absent]
  /\ files = << >> /\ resFiles = << >> /\ cloudFile = NoCloud
  /\ versions = NoVersions
  /\ backup = NoEntries /\ debugMode = FALSE /\ misused = FALSE /\ dumps = 0

-----------------------------------------------------------------------------
(* Sections.                                                               *)

(* ParseStandbyConfig fills the same maps for both sections.               *)
MapOf(s) == IF s = "detect_list" THEN "standby" ELSE s

(* emplace: a later source cannot change what an earlier one gave.         *)
FirstWins == {"maintenance_list", "pkg_type_list", "ladder_battery_list"}

Clean(s, content) == s = "mx_standby_list" \/ \A k \in Key : content[k] # "bad"

(* An entry of the wrong type is passed over, but the half hour switches   *)
(* end at the first one.                                                   *)
Taken(s, content) ==
  CASE s = "halfhour_switch_setting" ->
         {k \in Key : content[k] = "good" /\ \A j \in Key : j < k => content[j] # "bad"}
    [] s = "mx_standby_list" -> {k \in Key : content[k] # "absent"}
    [] OTHER -> {k \in Key : content[k] = "good"}

(* Mutant of ParseSection: every map takes the later value.                *)
ParseSectionLast(map, s, content, source) ==
  [map EXCEPT ![MapOf(s)] =
     [k \in Key |-> IF k \in Taken(s, content) THEN source ELSE @[k]]]

ParseSection(map, s, content, source) ==
  [map EXCEPT ![MapOf(s)] =
     [k \in Key |-> IF k \in Taken(s, content) /\ (s \in FirstWins => @[k] = Absent)
                    THEN source ELSE @[k]]]

(* The sections that are there, in order.                                  *)
ParseSections(map, order, file, source) ==
  FoldLeft(LAMBDA m, s : IF s \in Sections THEN ParseSection(m, s, file[s], source) ELSE m,
           map, order)

Disordered(file) ==
  {i \in DOMAIN SectionOrder :
     SectionOrder[i] \in Sections /\ ~Clean(SectionOrder[i], file[SectionOrder[i]])}

(* ParseDeviceStanbyConfig returns at the first section that is not clean, *)
(* with what that section gave.                                            *)
ParseDeviceStanbyConfig(map, file, source) ==
  LET bad == Disordered(file)
      order == IF bad = {} THEN SectionOrder ELSE SubSeq(SectionOrder, 1, Min(bad))
  IN  ParseSections(map, order, file, source)

(* ParseCloudConfig goes on.                                               *)
ParseCloudConfig(map, file) == ParseSections(map, CloudSections, file, Cloud)

(* ParseResCtrlConfig: the raw value (standbyStrategyConfigMap_) is taken  *)
(* as it comes, the parsed one (defaultResourceConfigMap_) as a whole or   *)
(* not at all; the timers (timerResConfigMap_) are cleared before they are *)
(* parsed, and stay half parsed (Absent) when that fails.                  *)
ParseResCtrlConfig(config, content, source) ==
  [raw |-> IF content = "absent" THEN config.raw ELSE source,
   whole |-> IF content \in {"good", "badTimer"} THEN source ELSE config.whole,
   timer |-> CASE content = "good" -> source
               [] content = "badTimer" -> Absent
               [] OTHER -> config.timer]

-----------------------------------------------------------------------------
(* Versions.                                                               *)

(* 1 if a is not older than b, 0 if it is, -1 if they cannot be compared.  *)
(* Segments are compared as text before they are compared as numbers; they *)
(* are looked at up to the first that differs.                             *)
CompareVersion(a, b) ==
  LET differ == {i \in 1..VERSION_LEN : a[i] # b[i]}
      last == IF differ = {} THEN VERSION_LEN ELSE Min(differ)
      comparable == /\ Len(a) = VERSION_LEN /\ Len(b) = VERSION_LEN
                    /\ \A i \in 1..last : {a[i], b[i]} \subseteq DOMAIN SegmentValue
  IN  IF a = NoVersion THEN IF b = NoVersion THEN -1 ELSE 0
      ELSE IF b = NoVersion THEN 1
      ELSE CASE ~ comparable -> -1
             [] comparable /\ differ = {} -> 1
             [] comparable /\ differ # {} ->
                  IF SegmentValue[b[Min(differ)]] < SegmentValue[a[Min(differ)]] THEN 1 ELSE 0

(* GetParamVersion takes any result but 0 for yes.  A file without a       *)
(* version is passed over, as NoVersion is.                                *)
GetParamVersion(list) ==
  FoldLeft(LAMBDA version, next : IF CompareVersion(next, version) # 0 THEN next ELSE version,
           NoVersion, list)

(* Mutant of NeedsToReadCloudConfig: the device files alone are asked.     *)
NeedsToReadCloudConfigDevice(v) == CompareVersion(v.cloud, GetParamVersion(v.device)) > 0

NeedsToReadCloudConfig(v) ==
  LET device == GetParamVersion(v.device)
      strategy == GetParamVersion(v.strategy)
      result == CompareVersion(device, strategy)
      newest == IF result > 0 THEN device ELSE strategy
  IN  result >= 0 /\ CompareVersion(v.cloud, newest) > 0

-----------------------------------------------------------------------------
(* Init of the manager, file by file.                                      *)

(* The bounds on the files of a kind and of both.                          *)
RoomFor(read) == Len(read) < MaxFiles /\ Len(files) + Len(resFiles) < MaxImage

(* GetAndParseStandbyConfig.  A file that cannot be loaded is as no file.  *)
ReadDeviceFile(file, version) ==
  /\ stage = "files" /\ RoomFor(files)
  /\ configMap' = ParseDeviceStanbyConfig(configMap, file, Len(files) + 1)
  /\ files' = Append(files, file)
  /\ versions' = [versions EXCEPT !.device = Append(@, version)]
  /\ UNCHANGED <<stage, resConfig, resFiles, cloudFile, dump>>

(* GetAndParseStrategyConfig: the strategy files, after the device files.  *)
ReadStrategyFile(content, version) ==
  /\ stage \in {"files", "strategies"} /\ RoomFor(resFiles)
  /\ stage' = "strategies"
  /\ resConfig' = ParseResCtrlConfig(resConfig, content, Len(resFiles) + 1)
  /\ resFiles' = Append(resFiles, [content |-> content, source |-> Len(resFiles) + 1])
  /\ versions' = [versions EXCEPT !.strategy = Append(@, version)]
  /\ UNCHANGED <<configMap, files, cloudFile, dump>>

(* GetCloudVersion, and the decision.                                      *)
CompareWithCloud(version) ==
  /\ stage \in {"files", "strategies"}
  /\ versions' = [versions EXCEPT !.cloud = version]
  /\ stage' = IF NeedsToReadCloudConfig(versions') THEN "cloud" ELSE "no cloud"
  /\ UNCHANGED <<configMap, resConfig, files_, dump>>

(* GetCloudConfig.                                                         *)
ReadCloud(file, content) ==
  /\ stage = "cloud"
  /\ stage' = "ready" /\ versions' = NoVersions
  /\ configMap' = ParseCloudConfig(configMap, file)
  /\ resConfig' = ParseResCtrlConfig(resConfig, content, Cloud)
  /\ cloudFile' = file /\ resFiles' = Append(resFiles, [content |-> content, source |-> Cloud])
  /\ UNCHANGED <<files, dump>>

SkipCloud ==
  /\ stage = "no cloud"
  /\ stage' = "ready" /\ versions' = NoVersions
  /\ UNCHANGED <<configMap, resConfig, files_, dump>>

-----------------------------------------------------------------------------
(* The commands of the shell.                                              *)

Dumped == stage = "ready" /\ dumps < MaxDumps /\ dumps' = dumps + 1

(* DumpTurnOnOffSwitch does not ask for the mode that is on.               *)
DumpSetDebugMode(on) ==
  /\ Dumped
  /\ debugMode' = on /\ misused' = (misused \/ debugMode = on)
  /\ backup' = IF on THEN configMap["standby"] ELSE NoEntries
  /\ configMap' = IF on THEN configMap ELSE [configMap EXCEPT !["standby"] = backup]
  /\ UNCHANGED <<stage, resConfig, files_, versions>>

(* DumpSetSwitch and DumpSetParameter: in debug mode, and for a name that  *)
(* is there.                                                               *)
DumpSet(k) ==
  /\ Dumped /\ debugMode
  /\ configMap["standby"][k] # Absent
  /\ configMap' = [configMap EXCEPT !["standby"][k] = Debug]
  /\ UNCHANGED <<stage, resConfig, files_, versions, backup, debugMode, misused>>

Next ==
  \/ \E file \in [Sections -> Content], v \in Version : ReadDeviceFile(file, v)
  \/ \E content \in ResContent, v \in Version : ReadStrategyFile(content, v)
  \/ \E v \in Version : CompareWithCloud(v)
  \/ \E file \in [CloudPart -> Content], content \in ResContent : ReadCloud(file, content)
  \/ SkipCloud
  \/ \E on \in BOOLEAN : DumpSetDebugMode(on)
  \/ \E k \in Key : DumpSet(k)

Spec == Init /\ [][Next]_vars

-----------------------------------------------------------------------------
(* Properties.                                                             *)

(* The files that offer a value: the entry is taken, and no section before *)
(* it in the file is in disorder.                                          *)
FileOffers(file, map, k) ==
  \E i \in DOMAIN SectionOrder :
    /\ SectionOrder[i] \in Sections /\ MapOf(SectionOrder[i]) = map
    /\ k \in Taken(SectionOrder[i], file[SectionOrder[i]])
    /\ \A j \in 1..(i - 1) :
         SectionOrder[j] \in Sections => Clean(SectionOrder[j], file[SectionOrder[j]])

Offers(map, k) ==
  {f \in DOMAIN files : FileOffers(files[f], map, k)}
    \cup {f \in {Cloud} : map \in CloudPart /\ k \in Taken(map, cloudFile[map])}

(* The last source that says one of these of a resource.                   *)
LastSource(contents) ==
  LET said == {i \in DOMAIN resFiles : resFiles[i].content \in contents}
  IN  IF said = {} THEN Absent ELSE resFiles[Max(said)].source

Whole == {"good", "badTimer"}

(* The value of an entry is the one of the last source that offers it, or  *)
(* of the first for the lists; a file in disorder takes nothing from the   *)
(* others.  The parsed form of a resource comes as a whole from the last   *)
(* source that could be parsed, its timers never from another; its raw     *)
(* form comes from the last that mentions it, which may be another.        *)
MergedAsOrdered ==
  /\ \A s \in Sections \ {"detect_list"}, k \in Key :
       LET offers == Offers(s, k)
           merged == IF offers = {} THEN Absent
                     ELSE IF s \in FirstWins THEN Min(offers) ELSE Max(offers)
       IN  configMap[s][k] = merged \/ (s = "standby" /\ (debugMode \/ misused))
  /\ resConfig.raw = LastSource(ResContent \ {"absent"})
  /\ resConfig.whole = LastSource(Whole) /\ resConfig.timer \in {LastSource(Whole), Absent}

(* Versions as they are meant: number by number.                           *)
NotOlder(a, b) ==
  LET differ == {i \in 1..VERSION_LEN : SegmentValue[a[i]] # SegmentValue[b[i]]}
  IN  differ = {} \/ SegmentValue[a[Min(differ)]] > SegmentValue[b[Min(differ)]]

WellFormed(v) ==
  Len(v) = VERSION_LEN /\ \A i \in DOMAIN v : v[i] \in DOMAIN SegmentValue \ Padded

(* The cloud replaces what is in the image only if it is not older than    *)
(* any of the files, and does so if it is newer than all of them.  Where a *)
(* version is missing, malformed or padded nothing is promised.            *)
CloudNotOlder ==
  LET image == Range(versions.device) \cup Range(versions.strategy)
      comparable == image # {} /\ \A v \in image \cup {versions.cloud} : WellFormed(v)
  IN  comparable =>
        /\ stage = "cloud" => \A v \in image : NotOlder(versions.cloud, v)
        /\ stage = "no cloud" => \E v \in image : NotOlder(v, versions.cloud)
=============================================================================

----------------------------- MODULE TrivyScan -----------------------------
(***************************************************************************)
(* What one scan does between the Pending status and its verdict           *)
(* (pkg/trivy/wrapper.go, target.go, errors.go, pkg/scan/controller.go):   *)
(* the target, the SBOM accessory and the fallback to the image, the Trivy *)
(* child, the classification of what failed, and the files and the scratch *)
(* directory it makes on the way; and the temp roots that adapter          *)
(* processes leave to their successors (tempdir.go, reaper.go).            *)
(*                                                                         *)
(* One adapter process runs at a time on a temp filesystem and it scans    *)
(* one target at a time.  Every call to the registry, to the file system   *)
(* or to the child is a step that may fail; removals succeed.              *)
(***************************************************************************)
EXTENDS Naturals, Sequences

CONSTANTS
  MaxScans,   \* scans a behaviour has
  MaxStarts   \* adapter processes a behaviour has

ASSUME ScanAssumption == MaxScans \in Nat /\ MaxStarts \in Nat

VARIABLES
  adapter,    \* "down", "starting" (before the reaper ran), "up" or "stopped"
  start,      \* the number of the adapter process, which names its temp root
  roots,      \* the temp roots on the filesystem
  scratch,    \* the temp roots that hold the scratch directory of a child
  files,      \* report and SBOM files, each with the process that made it
  pc,         \* where the scan is
  lookup,     \* the useSBOMAccessory parameter of scan()
  target,     \* ScanTarget: its kind and whether it is an accessory
  err,        \* the error scan() returns, and what truly caused it
  blamed,     \* history: whose error it is, the "artifact"'s or its "accessory"'s, or
              \* "late" once a second pass was begun without time
  expired,    \* the scan's own deadline has passed
  cancelled,  \* the delivery's context is cancelled: lease lost or shutdown
  verdict,    \* what the controller made of the scan, and from what
  scans       \* scans begun so far

tempVars == <<roots, scratch, files>>
procVars == <<adapter, start>>
scanVars == <<pc, lookup, target, err, blamed>>
ctxVars  == <<expired, cancelled>>
vars == <<procVars, tempVars, scanVars, ctxVars, verdict, scans>>

-----------------------------------------------------------------------------
(* Errors. *)

Categories == {"image_fetch", "manifest", "auth", "unscannable_layer", "trivy_execution",
  "network", "timeout", "report_parse", "cache", "rate_limit", "db_download",
  "db_schema", "unsupported_artifact", "artifact_not_found"}

(* What goes wrong in the world: for a while, or for good, or in a way the  *)
(* adapter sees too little of to tell.                                     *)
Transient == {"network", "throttled", "endpoint", "registry", "mirror", "cache", "slow", "unknown", "deadline"}
Permanent == {"reference", "refused", "missing", "database", "unsupported", "content"}
Obscure   == {"layer", "storage", "binary", "killed", "overrun", "cancel"}
Causes    == Transient \cup Permanent \cup Obscure

(* A ScanError, or with category "plain" an error of another type. *)
Error(category, again, cause) == [category |-> category, retryable |-> again, cause |-> cause]
Errors  == [category : Categories \cup {"none", "plain"}, retryable : BOOLEAN, cause : Causes \cup {"none"}]
NoError == Error("none", FALSE, "none")
Plain(cause) == Error("plain", FALSE, cause)

Retryable(category) ==
  category \notin {"auth", "unscannable_layer", "db_schema", "unsupported_artifact", "artifact_not_found"}
Classified(category, cause) == Error(category, Retryable(category), cause)

(* The first rule of a switch that applies. *)
FirstOf(rules) ==
  rules[CHOOSE i \in DOMAIN rules : rules[i][1] /\ \A j \in 1 .. i - 1 : ~rules[j][1]][2]

(* An error of go-containerregistry: its HTTP status (0 unless it is typed), *)
(* whether it asked for a manifest, and the signs in its text.              *)
RegistryError(cause, status, manifests, signs) ==
  [cause |-> cause, status |-> status, manifests |-> manifests, signs |-> signs]

RegistryErrors ==
  { RegistryError("network", 0, FALSE, {"network"}), RegistryError("network", 0, FALSE, {"timeout"}),
    RegistryError("throttled", 429, TRUE, {}),       RegistryError("registry", 500, TRUE, {}),
    RegistryError("refused", 401, TRUE, {"auth"}),   RegistryError("refused", 403, FALSE, {}),
    RegistryError("refused", 0, FALSE, {"auth"}),    RegistryError("missing", 404, TRUE, {}),
    RegistryError("missing", 401, TRUE, {"auth", "notfound"}),
    RegistryError("endpoint", 404, FALSE, {"notfound"}) }

ContextErrors ==
  {RegistryError("deadline", 0, FALSE, {"timeout"}) : x \in {TRUE} \cap {expired}} \cup
  {RegistryError("cancel", 0, FALSE, {}) : x \in {TRUE} \cap {cancelled}}

NotFoundAnywhere(e) == e.status = 404 \/ "notfound" \in e.signs   \* mutant: any 404
NotFound(e) == IF e.status = 404 THEN e.manifests ELSE "notfound" \in e.signs
Refused(e)  == IF e.status = 0 THEN "auth" \in e.signs ELSE e.status \in {401, 403}

ClassifyRemoteError(e) == FirstOf(
  << <<e.status = 429,         "rate_limit">>,
     <<NotFound(e),            "artifact_not_found">>,
     <<Refused(e),             "auth">>,
     <<"network" \in e.signs,  "network">>,
     <<"timeout" \in e.signs,  "timeout">>,
     <<TRUE,                   "image_fetch">> >>)

(* What a failing child wrote: the routine log, and the fatal report unless *)
(* it was killed before it wrote one.                                       *)
FatalDiagnosticsWhole(o) == o.routine \cup o.fatal   \* mutant: classify the whole buffer
FatalDiagnostics(o) == IF o.reported THEN o.fatal ELSE o.routine

ClassifyTrivyError(o) ==
  LET signs == FatalDiagnostics(o)
      db    == "db" \in signs
      auth  == "auth" \in signs
  IN FirstOf(
  << <<"rate" \in signs,               "rate_limit">>,
     <<"schema" \in signs,             "db_schema">>,
     <<"cache" \in signs,              "cache">>,
     <<db /\ ~auth,                    "db_download">>,
     <<"unsupported" \in signs,        "unsupported_artifact">>,
     <<~db /\ "notfound" \in signs,    "artifact_not_found">>,
     <<auth,                           "auth">>,
     <<"network" \in signs,            "network">>,
     <<"timeout" \in signs,            "timeout">>,
     <<"archive" \in signs,            "unscannable_layer">>,
     <<TRUE,                           "trivy_execution">> >>)

(* Trivy's fatal reports: what failed, and the signs its message carries.   *)
FatalReports ==
  { <<"throttled", {"rate"}>>,              <<"throttled", {"rate", "db"}>>,
    <<"database", {"schema"}>>,             <<"database", {"schema", "db"}>>,
    <<"cache", {"cache"}>>,                 <<"cache", {"cache", "db", "timeout"}>>,
    <<"mirror", {"db"}>>,                   <<"mirror", {"db", "notfound"}>>,
    <<"mirror", {"db", "network"}>>,        <<"refused", {"auth"}>>,
    <<"refused", {"auth", "db"}>>,          <<"refused", {"auth", "db", "notfound"}>>,
    <<"missing", {"notfound"}>>,            <<"missing", {"notfound", "auth"}>>,
    <<"unsupported", {"unsupported"}>>,     <<"network", {"network"}>>,
    <<"slow", {"timeout"}>>,                <<"slow", {"timeout", "archive"}>>,
    <<"content", {"archive"}>>,             <<"unknown", {}>> }

(* Troubles that Trivy logs and then overcomes, at its next mirror. *)
RoutineLogs == SUBSET {"db", "auth"}

-----------------------------------------------------------------------------
NoTarget == [kind |-> "none", accessory |-> FALSE]
Image    == [kind |-> "image", accessory |-> FALSE]
Sbom(accessory) == [kind |-> "sbom", accessory |-> accessory]

NoVerdict == [outcome |-> "none", err |-> NoError]

Points == {"idle", "image", "manifest", "sbom", "accessory", "layers", "report file",
           "child temp", "command", "child", "parse", "clean", "return", "verdict"}

TypeOK ==
  /\ adapter \in {"down", "starting", "up", "stopped"}
  /\ start \in 0 .. MaxStarts
  /\ roots \subseteq 1 .. MaxStarts
  /\ scratch \subseteq roots
  /\ files \subseteq (1 .. MaxStarts) \X {"report", "sbom"}
  /\ pc \in Points
  /\ lookup \in BOOLEAN
  /\ target \in {NoTarget, Image, Sbom(TRUE), Sbom(FALSE)}
  /\ err \in Errors
  /\ blamed \in {"nobody", "artifact", "accessory", "late"}
  /\ expired \in BOOLEAN /\ cancelled \in BOOLEAN
  /\ verdict \in [outcome : {"none", "report", "failed", "retry", "pending"},
                  err : Errors]
  /\ scans \in 0 .. MaxScans

Init ==
  /\ adapter = "down" /\ start = 0
  /\ roots = {} /\ scratch = {} /\ files = {}
  /\ pc = "idle" /\ lookup = FALSE /\ target = NoTarget /\ err = NoError /\ blamed = "nobody"
  /\ expired = FALSE /\ cancelled = FALSE
  /\ verdict = NoVerdict
  /\ scans = 0

ContextDone == expired \/ cancelled

Step(from, to) == pc = from /\ pc' = to

(* scan() returns the error, through its deferred removals. *)
Blamed(from) ==
  IF blamed = "late" THEN "late"
  ELSE IF from = "accessory" \/ target.accessory THEN "accessory" ELSE "artifact"

Fails(from, to, e) == Step(from, to) /\ err' = e /\ blamed' = Blamed(from)

-----------------------------------------------------------------------------
(* The adapter process. *)

(* NewTempRoot: the name is random, so it is no name of an earlier root. *)
StartAdapter ==
  /\ adapter \in {"down", "stopped"} /\ start < MaxStarts
  /\ adapter' = "starting" /\ start' = start + 1
  /\ roots' = roots \cup {start + 1}
  /\ UNCHANGED <<scratch, files, scanVars, ctxVars, verdict, scans>>

(* reapSiblings: every root but its own. *)
ReapSiblings ==
  /\ roots' = roots \cap {start}
  /\ scratch' = scratch \cap {start}

Reap ==
  /\ adapter = "starting"
  /\ ReapSiblings
  /\ adapter' = "up"
  /\ UNCHANGED <<start, files, scanVars, ctxVars, verdict, scans>>

(* SIGTERM: worker.Stop cancels the scan and waits for it, and the root is  *)
(* removed after that.                                                     *)
Shutdown ==
  /\ adapter = "up" /\ pc # "idle"
  /\ cancelled' = TRUE
  /\ UNCHANGED <<procVars, tempVars, scanVars, expired, verdict, scans>>

StoppedTooSoon == adapter = "up"   \* mutant: the deferred calls in another order
Stopped == adapter = "up" /\ pc = "idle"
Exit ==
  /\ Stopped
  /\ adapter' = "stopped"
  /\ roots' = roots \ {start} /\ scratch' = scratch \ {start}
  /\ UNCHANGED <<start, files, scanVars, ctxVars, verdict, scans>>

(* SIGKILL takes the children with it and leaves the temp files. *)
Crash ==
  /\ adapter \in {"starting", "up"}
  /\ adapter' = "down"
  /\ pc' = "idle" /\ lookup' = FALSE /\ target' = NoTarget /\ err' = NoError
  /\ UNCHANGED <<blamed, start, tempVars, ctxVars, verdict, scans>>

(* Somebody cleans the temp filesystem between two scans. *)
TempSwept ==
  /\ adapter = "up" /\ pc = "idle" /\ roots # {}
  /\ roots' = {} /\ scratch' = {}
  /\ UNCHANGED <<procVars, files, scanVars, ctxVars, verdict, scans>>

(* The deadline of wrapper.Scan; the heartbeat cancels on a lost lease.     *)
Expire ==
  /\ pc \notin {"idle", "verdict"} /\ ~expired
  /\ expired' = TRUE
  /\ UNCHANGED <<procVars, tempVars, scanVars, cancelled, verdict, scans>>

-----------------------------------------------------------------------------
(* wrapper.Scan and newTarget. *)

Begin ==
  /\ adapter = "up" /\ pc = "idle" /\ scans < MaxScans
  /\ pc' = "image"
  /\ lookup' \in BOOLEAN              \* useSBOMAccessory(opt)
  /\ target' = NoTarget /\ err' = NoError /\ blamed' = "nobody"
  /\ expired' = FALSE /\ cancelled' = FALSE
  /\ verdict' = NoVerdict
  /\ scans' = scans + 1
  /\ UNCHANGED <<procVars, tempVars>>

(* The reference is parsed and the image fetched. *)
FetchImage ==
  /\ \/ Fails("image", "return", Error("image_fetch", FALSE, "reference"))
     \/ \E e \in ContextErrors \cup RegistryErrors :
          Fails("image", "return", Classified(ClassifyRemoteError(e), e.cause))
     \/ ~ContextDone /\ Step("image", "manifest") /\ UNCHANGED <<err, blamed>>
  /\ UNCHANGED <<procVars, tempVars, lookup, target, ctxVars, verdict, scans>>

ManifestCategory(e) ==
  LET category == ClassifyRemoteError(e)
  IN IF category = "image_fetch" THEN "manifest" ELSE category

(* The manifest says what to scan: an SBOM that Harbor stored, or an image. *)
ReadManifest ==
  /\ \/ \E e \in ContextErrors \cup RegistryErrors :
          Fails("manifest", "return", Classified(ManifestCategory(e), e.cause))
     \/ /\ UNCHANGED <<err, blamed>>
        /\ \/ Step("manifest", "sbom")
           \/ Step("manifest", IF lookup THEN "accessory" ELSE "layers")
  /\ UNCHANGED <<procVars, tempVars, lookup, target, ctxVars, verdict, scans>>

(* downloadSBOM: its errors are not ScanErrors, and its file is removed     *)
(* when the copy fails.                                                    *)
FetchLayer == {Plain("layer"), Plain("content"), Plain("storage")}

DownloadSbom ==
  /\ \/ /\ \E e \in FetchLayer : Fails("sbom", "return", e)
        /\ UNCHANGED <<files, target>>
     \/ /\ ~ContextDone /\ Step("sbom", "report file") /\ UNCHANGED <<err, blamed>>
        /\ target' = Sbom(FALSE)
        /\ files' = files \cup {<<start, "sbom">>}
  /\ UNCHANGED <<procVars, roots, scratch, lookup, ctxVars, verdict, scans>>

(* findSBOMAccessory and its download: whatever fails, it is the image that *)
(* is scanned.                                                             *)
AccessoryFound ==
  /\ ~ContextDone /\ Step("accessory", "report file")
  /\ target' = Sbom(TRUE)
  /\ files' = files \cup {<<start, "sbom">>}
  /\ UNCHANGED <<err, blamed>>

FindAccessoryOrFail ==   \* mutant: an accessory that cannot be downloaded fails the scan
  /\ \/ Step("accessory", "layers") /\ UNCHANGED <<files, target, err, blamed>>
     \/ Fails("accessory", "return", Plain("layer")) /\ UNCHANGED <<files, target>>
     \/ AccessoryFound
  /\ UNCHANGED <<procVars, roots, scratch, lookup, ctxVars, verdict, scans>>
FindAccessory ==
  /\ \/ Step("accessory", "layers") /\ UNCHANGED <<files, target, err, blamed>>
     \/ AccessoryFound
  /\ UNCHANGED <<procVars, roots, scratch, lookup, ctxVars, verdict, scans>>

ValidateLayers ==
  /\ \/ Fails("layers", "return", Classified("unscannable_layer", "content")) /\ UNCHANGED target
     \/ Step("layers", "report file") /\ target' = Image /\ UNCHANGED <<err, blamed>>
  /\ UNCHANGED <<procVars, tempVars, lookup, ctxVars, verdict, scans>>

-----------------------------------------------------------------------------
(* wrapper.scan, once it has a target. *)

MakeReportFile ==
  /\ \/ Fails("report file", "clean", Plain("storage")) /\ UNCHANGED files
     \/ /\ Step("report file", "child temp") /\ UNCHANGED <<err, blamed>>
        /\ files' = files \cup {<<start, "report">>}
  /\ UNCHANGED <<procVars, roots, scratch, lookup, target, ctxVars, verdict, scans>>

(* childTempDir makes the root again if it is gone. *)
RootNotMade == roots   \* mutant: no MkdirAll
RootMade == roots \cup {start}

MakeChildTemp ==
  /\ \/ /\ Fails("child temp", "clean", Plain("storage")) /\ UNCHANGED scratch
        /\ roots' \in {roots, RootMade}
     \/ /\ Step("child temp", "command") /\ UNCHANGED <<err, blamed>>
        /\ roots' = RootMade /\ scratch' = scratch \cup {start}
  /\ UNCHANGED <<procVars, files, lookup, target, ctxVars, verdict, scans>>

PrepareCommand ==
  /\ \/ Fails("command", "clean", Plain("binary"))
     \/ Step("command", "child") /\ UNCHANGED <<err, blamed>>
  /\ UNCHANGED <<procVars, tempVars, lookup, target, ctxVars, verdict, scans>>

(* Who killed the child: the deadline, the cancellation, or the kernel. *)
Killers == IF expired THEN {"overrun"} ELSE IF cancelled THEN {"cancel"} ELSE {"killed"}

ChildErrors ==
  {[cause |-> r[1], fatal |-> r[2], routine |-> l, reported |-> TRUE] : r \in FatalReports, l \in RoutineLogs} \cup
  {[cause |-> k, fatal |-> {}, routine |-> l, reported |-> FALSE] : k \in Killers, l \in RoutineLogs}

RunChild ==
  /\ \/ \E o \in ChildErrors : Fails("child", "clean", Classified(ClassifyTrivyError(o), o.cause))
     \/ ~ContextDone /\ Step("child", "parse") /\ UNCHANGED <<err, blamed>>
  /\ UNCHANGED <<procVars, tempVars, lookup, target, ctxVars, verdict, scans>>

ParseReport ==
  /\ \/ Fails("parse", "clean", Error("report_parse", FALSE, "content"))
     \/ Step("parse", "clean") /\ UNCHANGED <<err, blamed>>
  /\ UNCHANGED <<procVars, tempVars, lookup, target, ctxVars, verdict, scans>>

(* The deferred removals; target.Clean removes the file of an SBOM. *)
CleanedAccessoryOnly == {"report"} \cup (IF target.accessory THEN {"sbom"} ELSE {})   \* mutant
Cleaned == {"report"} \cup (IF target.kind = "sbom" THEN {"sbom"} ELSE {})

CleanUp ==
  /\ Step("clean", "return")
  /\ files' = files \ ({start} \X Cleaned)
  /\ scratch' = scratch \ {start}
  /\ UNCHANGED <<procVars, roots, lookup, target, err, blamed, ctxVars, verdict, scans>>

(* An accessory that failed in time gives way to the image. *)
MayFallBack == err # NoError /\ target.accessory /\ ~ContextDone

SecondLookupKept == lookup   \* mutant: the image scan looks for an accessory too
SecondLookup == FALSE

FallBack ==
  /\ Step("return", "image")
  /\ MayFallBack
  /\ lookup' = SecondLookup /\ target' = NoTarget /\ err' = NoError
  /\ blamed' = IF ContextDone THEN "late" ELSE "nobody"
  /\ UNCHANGED <<procVars, tempVars, ctxVars, verdict, scans>>

Return ==
  /\ Step("return", "verdict")
  /\ ~MayFallBack
  /\ UNCHANGED <<procVars, tempVars, lookup, target, err, blamed, ctxVars, verdict, scans>>

(* controller.Scan: a cancelled delivery and a retryable error leave it     *)
(* pending, any other error is the verdict Failed.                         *)
Outcome ==
  IF err = NoError THEN "report" ELSE IF cancelled THEN "pending"
  ELSE IF err.retryable THEN "retry" ELSE "failed"

Conclude ==
  /\ Step("verdict", "idle")
  /\ verdict' = [outcome |-> Outcome, err |-> err]
  /\ target' = NoTarget /\ err' = NoError /\ lookup' = FALSE
  /\ UNCHANGED <<blamed, procVars, tempVars, ctxVars, scans>>

-----------------------------------------------------------------------------
ScanStep ==
  \/ FetchImage \/ ReadManifest \/ DownloadSbom \/ FindAccessory \/ ValidateLayers
  \/ MakeReportFile \/ MakeChildTemp \/ PrepareCommand \/ RunChild \/ ParseReport
  \/ CleanUp \/ FallBack \/ Return \/ Conclude

Next ==
  \/ StartAdapter \/ Reap \/ Shutdown \/ Exit \/ Crash \/ TempSwept
  \/ Begin \/ Expire \/ ScanStep

Spec == Init /\ [][Next]_vars

(* A call in a scan returns: the deadline bounds the registry and the child, *)
(* the child is killed when it passes, and the rest is local.              *)
FairSpec == Spec /\ WF_vars(ScanStep)

-----------------------------------------------------------------------------
(* Properties. *)

(* A running adapter that is not in a scan, or is about to scan the image   *)
(* after the accessory, holds no file and no scratch directory of its own,  *)
(* whichever step of the scan failed: the deferred removals of scan() cover *)
(* every return after the resource was made, target.Clean among them.       *)
NothingLeftBehind ==
  adapter = "up" /\ pc \in {"idle", "image", "verdict"} =>
    start \notin scratch /\ \A f \in files : f[1] # start

(* The temp filesystem holds at most the root of the process that runs on   *)
(* it, and none after a clean exit: reapSiblings removes what killed        *)
(* processes left, and tempRoot.Close runs after worker.Stop, so no scan    *)
(* makes the root again.                                                    *)
OnlyOwnRoot ==
  /\ adapter = "up" => roots \subseteq {start}
  /\ adapter = "stopped" => roots = {}

(* An accessory never decides a job: whatever step fails on the way to it   *)
(* or in its scan, the lookup, the download, the child or the parsing of    *)
(* its report, the verdict is that of the image, unless the deadline left   *)
(* none (newTarget, wrapper.Scan); and no second pass is begun without      *)
(* time, which could only fail.                                             *)
AccessoryNeverDecides ==
  /\ verdict.outcome \in {"failed", "retry"} => blamed = "artifact" \/ expired
  /\ blamed # "late"

(* A failure that passes is never the verdict of a job: no sign in the text *)
(* of an error outranks it into a final category (classifyTrivyError,       *)
(* classifyRemoteError, retryable).                                         *)
TransientIsRetried == verdict.outcome = "failed" => verdict.err.cause \notin Transient

(* A failure that stays does not cost the attempts of a retry: routine      *)
(* trouble in the log does not hide it (fatalDiagnostics).                  *)
PermanentIsFinal == verdict.outcome = "retry" => verdict.err.cause \notin Permanent

(* Every scan ends, the one that falls back to the image too.               *)
ScansReturn == pc # "idle" ~> pc = "idle"

(* What the documentation says and the code does not do. *)

(* docs/OPERATIONS.md:50: storage_full and storage_io, "ENOSPC / EIO from   *)
(* the adapter's own file operations", are retried.                         *)
StorageFailuresAreRetried == verdict.outcome = "failed" => verdict.err.cause # "storage"

(* docs/SCALING.md:296-299: network, registry and manifest fetch errors are *)
(* retried; the layer of an SBOM is fetched from the registry.              *)
FetchErrorsAreRetried == verdict.outcome = "failed" => verdict.err.cause # "layer"

(* docs/OPERATIONS.md:88: the adapter reports its deadline as category      *)
(* timeout.                                                                 *)
DeadlineIsTimeout == verdict.err.cause = "overrun" => verdict.err.category = "timeout"

(* The three together: what the documentation says of failures that are not *)
(* the artifact's.                                                          *)
ErrorsAreAsDocumented ==
  StorageFailuresAreRetried /\ FetchErrorsAreRetried /\ DeadlineIsTimeout
=============================================================================

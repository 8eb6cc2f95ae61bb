-------------------------- MODULE TrivyScanProofs --------------------------
(***************************************************************************)
(* Proofs about TrivyScan: what a scan leaves on the temp filesystem,      *)
(* when an accessory gives way to the image, and what the classification   *)
(* makes of every error that a registry or a child answers with.           *)
(***************************************************************************)
EXTENDS TrivyScan, TLAPS

(* The points of a scan at which it has a target, and so may hold files. *)
Equipped == {"report file", "child temp", "command", "child", "parse", "clean"}

(* What is on the temp filesystem, and whose it is: only of processes that were
   started, and of the running one only while its scan is equipped. *)
TempInv ==
  /\ pc # "idle" => adapter = "up"
  /\ adapter \in {"starting", "up"} => start # 0
  /\ \A r \in roots : r <= start
  /\ \A f \in files : f[1] <= start
  /\ adapter \in {"starting", "up"} /\ pc \notin Equipped =>
       start \notin scratch /\ \A f \in files : f[1] # start
  /\ adapter = "up" /\ <<start, "sbom">> \in files => target.kind = "sbom"
  /\ OnlyOwnRoot

(* An error on the way to the verdict is the artifact's own, or that of the accessory
   that is still the target; and Return lets the latter pass only without time. *)
AccessoryInv ==
  /\ pc # "idle" => verdict.outcome = "none"
  /\ err # NoError =>
       pc \in {"clean", "return", "verdict"} /\ (blamed = "artifact" \/ target.accessory)
  /\ pc = "verdict" /\ target.accessory /\ err # NoError => ContextDone
  /\ AccessoryNeverDecides

(* A classification that is right about its cause, wherever the cause is one of
   those that the adapter can tell. *)
Judged(e) ==
  /\ e.retryable => e.cause \notin Permanent
  /\ ~e.retryable => e.cause \notin Transient

(* What scan() returns is judged right, and the verdict follows from it. *)
ErrorInv ==
  /\ Judged(err) /\ Judged(verdict.err)
  /\ verdict.outcome = "failed" => ~verdict.err.retryable
  /\ verdict.outcome = "retry" => verdict.err.retryable

ScanInv == TypeOK /\ TempInv /\ AccessoryInv /\ ErrorInv

-----------------------------------------------------------------------------
(* The rule that applies and has no earlier one that does. *)
LEMMA FirstRule ==
  ASSUME NEW rules, NEW i \in DOMAIN rules, DOMAIN rules \subseteq Nat,
         rules[i][1], \A j \in 1 .. i - 1 : ~rules[j][1], 0 \notin DOMAIN rules
  PROVE  FirstOf(rules) = rules[i][2]
<1> DEFINE First(n) == rules[n][1] /\ \A j \in 1 .. n - 1 : ~rules[j][1]
           c == CHOOSE n \in DOMAIN rules : First(n)
<1>1. c \in DOMAIN rules /\ First(c)
  BY First(i)
<1>2. ~(c < i) /\ ~(i < c)
  BY <1>1
<1>3. c = i
  BY <1>1, <1>2
<1> QED
  BY <1>3 DEF FirstOf

(* classifyRemoteError as the switch it is. *)
LEMMA RemoteRules ==
  ASSUME NEW e
  PROVE  ClassifyRemoteError(e) =
           IF e.status = 429 THEN "rate_limit"
           ELSE IF NotFound(e) THEN "artifact_not_found"
           ELSE IF Refused(e) THEN "auth"
           ELSE IF "network" \in e.signs THEN "network"
           ELSE IF "timeout" \in e.signs THEN "timeout"
           ELSE "image_fetch"
<1> DEFINE rules ==
  << <<e.status = 429,        "rate_limit">>,
     <<NotFound(e),           "artifact_not_found">>,
     <<Refused(e),            "auth">>,
     <<"network" \in e.signs, "network">>,
     <<"timeout" \in e.signs, "timeout">>,
     <<TRUE,                  "image_fetch">> >>
<1>1. ClassifyRemoteError(e) = FirstOf(rules) /\ DOMAIN rules = 1 .. 6
  BY DEF ClassifyRemoteError
<1>2. /\ (rules[1][1] <=> e.status = 429) /\ rules[1][2] = "rate_limit"
      /\ (rules[2][1] <=> NotFound(e)) /\ rules[2][2] = "artifact_not_found"
      /\ (rules[3][1] <=> Refused(e)) /\ rules[3][2] = "auth"
      /\ (rules[4][1] <=> "network" \in e.signs) /\ rules[4][2] = "network"
      /\ (rules[5][1] <=> "timeout" \in e.signs) /\ rules[5][2] = "timeout"
      /\ rules[6][1] /\ rules[6][2] = "image_fetch"
  OBVIOUS
<1> HIDE DEF rules
<1>3. \A i \in 1 .. 6 : rules[i][1] /\ (\A j \in 1 .. i - 1 : ~rules[j][1]) => ClassifyRemoteError(e) = rules[i][2]
  BY <1>1, FirstRule
<1> QED
  BY <1>2, <1>3

(* classifyTrivyError as the switch it is. *)
LEMMA TrivyRules ==
  ASSUME NEW o
  PROVE  LET signs == FatalDiagnostics(o)
             db    == "db" \in signs
             auth  == "auth" \in signs
         IN
         ClassifyTrivyError(o) =
           IF "rate" \in signs THEN "rate_limit"
           ELSE IF "schema" \in signs THEN "db_schema"
           ELSE IF "cache" \in signs THEN "cache"
           ELSE IF db /\ ~auth THEN "db_download"
           ELSE IF "unsupported" \in signs THEN "unsupported_artifact"
           ELSE IF ~db /\ "notfound" \in signs THEN "artifact_not_found"
           ELSE IF auth THEN "auth"
           ELSE IF "network" \in signs THEN "network"
           ELSE IF "timeout" \in signs THEN "timeout"
           ELSE IF "archive" \in signs THEN "unscannable_layer"
           ELSE "trivy_execution"
<1> DEFINE signs == FatalDiagnostics(o)
           db    == "db" \in signs
           auth  == "auth" \in signs
           rules ==
  << <<"rate" \in signs,            "rate_limit">>,
     <<"schema" \in signs,          "db_schema">>,
     <<"cache" \in signs,           "cache">>,
     <<db /\ ~auth,                 "db_download">>,
     <<"unsupported" \in signs,     "unsupported_artifact">>,
     <<~db /\ "notfound" \in signs, "artifact_not_found">>,
     <<auth,                        "auth">>,
     <<"network" \in signs,         "network">>,
     <<"timeout" \in signs,         "timeout">>,
     <<"archive" \in signs,         "unscannable_layer">>,
     <<TRUE,                        "trivy_execution">> >>
<1>1. ClassifyTrivyError(o) = FirstOf(rules) /\ DOMAIN rules = 1 .. 11
  BY DEF ClassifyTrivyError
<1>2. /\ (rules[1][1] <=> "rate" \in signs) /\ rules[1][2] = "rate_limit"
      /\ (rules[2][1] <=> "schema" \in signs) /\ rules[2][2] = "db_schema"
      /\ (rules[3][1] <=> "cache" \in signs) /\ rules[3][2] = "cache"
      /\ (rules[4][1] <=> db /\ ~auth) /\ rules[4][2] = "db_download"
      /\ (rules[5][1] <=> "unsupported" \in signs) /\ rules[5][2] = "unsupported_artifact"
      /\ (rules[6][1] <=> ~db /\ "notfound" \in signs) /\ rules[6][2] = "artifact_not_found"
      /\ (rules[7][1] <=> auth) /\ rules[7][2] = "auth"
      /\ (rules[8][1] <=> "network" \in signs) /\ rules[8][2] = "network"
      /\ (rules[9][1] <=> "timeout" \in signs) /\ rules[9][2] = "timeout"
      /\ (rules[10][1] <=> "archive" \in signs) /\ rules[10][2] = "unscannable_layer"
      /\ rules[11][1] /\ rules[11][2] = "trivy_execution"
  OBVIOUS
<1> HIDE DEF rules
<1>3. \A i \in 1 .. 11 : rules[i][1] /\ (\A j \in 1 .. i - 1 : ~rules[j][1]) => ClassifyTrivyError(o) = rules[i][2]
  BY <1>1, FirstRule
<1> QED
  BY <1>2, <1>3

LEMMA CategoriesGiven ==
  /\ \A e : ClassifyRemoteError(e) \in Categories
  /\ \A o : ClassifyTrivyError(o) \in Categories
<1>1. ASSUME NEW e PROVE ClassifyRemoteError(e) \in Categories
  BY RemoteRules DEF Categories
<1>2. ASSUME NEW o PROVE ClassifyTrivyError(o) \in Categories
  BY TrivyRules DEF Categories
<1> QED
  BY <1>1, <1>2

LEMMA ClassifiedIsError ==
  ASSUME NEW category \in Categories, NEW cause \in Causes
  PROVE  Classified(category, cause) \in Errors
  BY DEF Classified, Error, Errors, Retryable

(* A registry error is judged right, whatever its status and its text say: a
   manifest that is not there is no other 404, and a typed status outranks the
   words of the message. *)
LEMMA RemoteErrorsAreJudged ==
  ASSUME NEW e \in ContextErrors \cup RegistryErrors
  PROVE  /\ e.cause \in Causes
         /\ Judged(Classified(ClassifyRemoteError(e), e.cause))
         /\ Judged(Classified(ManifestCategory(e), e.cause))
<1> USE DEF RegistryError, Causes, Transient, Permanent, Obscure
<1>1. CASE e.cause \in Obscure
  BY <1>1 DEF Judged, Classified, Error
<1>2. ASSUME e.cause \in Transient, Retryable(ClassifyRemoteError(e))
      PROVE  /\ Judged(Classified(ClassifyRemoteError(e), e.cause))
             /\ Judged(Classified(ManifestCategory(e), e.cause))
  BY <1>2 DEF Judged, Classified, Error, ManifestCategory, Retryable
<1>3. ASSUME e.cause \in Permanent, ~Retryable(ClassifyRemoteError(e))
      PROVE  /\ Judged(Classified(ClassifyRemoteError(e), e.cause))
             /\ Judged(Classified(ManifestCategory(e), e.cause))
  BY <1>3 DEF Judged, Classified, Error, ManifestCategory, Retryable
<1>4. CASE e \in ContextErrors
  <2>1. e.cause \in {"deadline", "cancel"}
    BY <1>4 DEF ContextErrors
  <2>2. CASE e.cause = "deadline"
    <3>1. e.status = 0 /\ e.signs = {"timeout"}
      BY <1>4, <2>2 DEF ContextErrors
    <3>2. ClassifyRemoteError(e) = "timeout"
      BY <3>1, RemoteRules DEF NotFound, Refused
    <3> QED
      BY <2>2, <3>2, <1>2 DEF Retryable
  <2> QED
    BY <1>1, <2>1, <2>2
<1>5. CASE e \in RegistryErrors
  <2>1. e.cause \in Transient \cup Permanent
    BY <1>5 DEF RegistryErrors
  <2>2. CASE e.cause \in Transient
    <3>1. Retryable(ClassifyRemoteError(e))
      BY <1>5, <2>2, RemoteRules DEF RegistryErrors, NotFound, Refused, Retryable
    <3> QED
      BY <2>2, <3>1, <1>2
  <2>3. CASE e.cause \in Permanent
    <3>1. ~Retryable(ClassifyRemoteError(e))
      BY <1>5, <2>3, RemoteRules DEF RegistryErrors, NotFound, Refused, Retryable
    <3> QED
      BY <2>3, <3>1, <1>3
  <2> QED
    BY <2>1, <2>2, <2>3
<1> QED
  BY <1>4, <1>5

(* A child's failure is judged right by what it reported as fatal, whatever else
   is in its log and whichever signs its message mixes. *)
LEMMA TrivyErrorsAreJudged ==
  ASSUME NEW o \in ChildErrors
  PROVE  /\ o.cause \in Causes
         /\ Judged(Classified(ClassifyTrivyError(o), o.cause))
<1> USE DEF Causes, Transient, Permanent, Obscure
<1>1. CASE o.cause \in Obscure
  BY <1>1 DEF Judged, Classified, Error
<1>2. CASE \E r \in FatalReports : o.cause = r[1] /\ FatalDiagnostics(o) = r[2]
  <2>1. PICK r \in FatalReports : o.cause = r[1] /\ FatalDiagnostics(o) = r[2]
    BY <1>2
  <2>2. o.cause \in Transient \cup Permanent
    BY <2>1 DEF FatalReports
  <2>3. CASE o.cause \in Transient
    <3>1. Retryable(ClassifyTrivyError(o))
      BY <2>1, <2>3, TrivyRules DEF FatalReports, Retryable
    <3> QED
      BY <2>3, <3>1 DEF Judged, Classified, Error
  <2>4. CASE o.cause \in Permanent
    <3>1. ~Retryable(ClassifyTrivyError(o))
      BY <2>1, <2>4, TrivyRules DEF FatalReports, Retryable
    <3> QED
      BY <2>4, <3>1 DEF Judged, Classified, Error
  <2> QED
    BY <2>2, <2>3, <2>4
<1>3. CASE \E k \in Killers : o.cause = k
  BY <1>1, <1>3 DEF Killers
<1> QED
  BY <1>2, <1>3 DEF ChildErrors, FatalDiagnostics

(* Every return of scan() and every verdict is judged right. *)
LEMMA ErrorStep ==
  ASSUME ScanInv, [Next]_vars
  PROVE  ErrorInv'
<1>a. Judged(err) /\ Judged(verdict.err)
  BY DEF ScanInv, ErrorInv
<1>b. Judged(NoError) /\ ~NoError.retryable /\ NoVerdict.outcome = "none" /\ NoVerdict.err = NoError
  BY DEF Judged, NoError, NoVerdict, Error, Transient, Permanent
<1>c. /\ Judged(Plain("layer")) /\ Judged(Plain("content")) /\ Judged(Plain("storage"))
      /\ Judged(Plain("binary")) /\ Judged(Classified("unscannable_layer", "content"))
      /\ Judged(Error("image_fetch", FALSE, "reference")) /\ Judged(Error("report_parse", FALSE, "content"))
  BY DEF Judged, Plain, Classified, Retryable, Error, Transient, Permanent
<1>d. ASSUME Judged(err'), UNCHANGED verdict PROVE ErrorInv'
  BY <1>d DEF ScanInv, ErrorInv, Judged
<1> USE <1>a, <1>b, <1>c DEF Step, Fails, procVars, tempVars, scanVars, ctxVars
<1>1. CASE StartAdapter
  BY <1>1, <1>d DEF StartAdapter
<1>2. CASE Reap
  BY <1>2, <1>d DEF Reap
<1>3. CASE Shutdown
  BY <1>3, <1>d DEF Shutdown
<1>4. CASE Exit
  BY <1>4, <1>d DEF Exit
<1>5. CASE Crash
  BY <1>5, <1>d DEF Crash
<1>6. CASE TempSwept
  BY <1>6, <1>d DEF TempSwept
<1>7. CASE Begin
  BY <1>7 DEF Begin, ErrorInv
<1>8. CASE Expire
  BY <1>8, <1>d DEF Expire
<1>9. CASE FetchImage
  BY <1>9, <1>d, RemoteErrorsAreJudged DEF FetchImage
<1>10. CASE ReadManifest
  BY <1>10, <1>d, RemoteErrorsAreJudged DEF ReadManifest
<1>11. CASE DownloadSbom
  BY <1>11, <1>d DEF DownloadSbom, FetchLayer
<1>12. CASE FindAccessory
  BY <1>12, <1>d DEF FindAccessory, AccessoryFound
<1>13. CASE ValidateLayers
  BY <1>13, <1>d DEF ValidateLayers
<1>14. CASE MakeReportFile
  BY <1>14, <1>d DEF MakeReportFile
<1>15. CASE MakeChildTemp
  BY <1>15, <1>d DEF MakeChildTemp
<1>16. CASE PrepareCommand
  BY <1>16, <1>d DEF PrepareCommand
<1>17. CASE RunChild
  BY <1>17, <1>d, TrivyErrorsAreJudged DEF RunChild
<1>18. CASE ParseReport
  BY <1>18, <1>d DEF ParseReport
<1>19. CASE CleanUp
  BY <1>19, <1>d DEF CleanUp
<1>20. CASE FallBack
  BY <1>20, <1>d DEF FallBack
<1>21. CASE Return
  BY <1>21, <1>d DEF Return
<1>22. CASE Conclude
  BY <1>22 DEF Conclude, ErrorInv, Outcome
<1>23. CASE UNCHANGED vars
  BY <1>23, <1>d DEF vars
<1> QED
  BY <1>1, <1>2, <1>3, <1>4, <1>5, <1>6, <1>7, <1>8, <1>9, <1>10, <1>11, <1>12, <1>13, <1>14, <1>15, <1>16, <1>17, <1>18, <1>19, <1>20, <1>21, <1>22, <1>23
  DEF Next, ScanStep

(* A step that fails ends the pass, and only Return ends a scan with an accessory's
   error. *)
LEMMA AccessoryStep ==
  ASSUME ScanInv, [Next]_vars
  PROVE  AccessoryInv'
<1>a. AccessoryInv
  BY DEF ScanInv
<1> USE <1>a DEF AccessoryInv, AccessoryNeverDecides, ContextDone, Step, Fails, Blamed
<1>1. CASE StartAdapter
  BY <1>1 DEF StartAdapter, scanVars, ctxVars
<1>2. CASE Reap
  BY <1>2 DEF Reap, scanVars, ctxVars
<1>3. CASE Shutdown
  BY <1>3 DEF Shutdown, scanVars, ctxVars
<1>4. CASE Exit
  BY <1>4 DEF Exit, scanVars, ctxVars
<1>5. CASE Crash
  BY <1>5 DEF Crash, scanVars, ctxVars
<1>6. CASE TempSwept
  BY <1>6 DEF TempSwept, scanVars, ctxVars
<1>7. CASE Begin
  BY <1>7 DEF Begin, NoVerdict
<1>8. CASE Expire
  BY <1>8 DEF Expire, scanVars, ctxVars
<1>9. CASE FetchImage
  BY <1>9 DEF FetchImage, scanVars, ctxVars
<1>10. CASE ReadManifest
  BY <1>10 DEF ReadManifest, scanVars, ctxVars
<1>11. CASE DownloadSbom
  BY <1>11 DEF DownloadSbom, scanVars, ctxVars
<1>12. CASE FindAccessory
  BY <1>12 DEF FindAccessory, AccessoryFound, scanVars, ctxVars
<1>13. CASE ValidateLayers
  BY <1>13 DEF ValidateLayers, scanVars, ctxVars
<1>14. CASE MakeReportFile
  BY <1>14 DEF MakeReportFile, scanVars, ctxVars
<1>15. CASE MakeChildTemp
  BY <1>15 DEF MakeChildTemp, scanVars, ctxVars
<1>16. CASE PrepareCommand
  BY <1>16 DEF PrepareCommand, scanVars, ctxVars
<1>17. CASE RunChild
  BY <1>17 DEF RunChild, scanVars, ctxVars
<1>18. CASE ParseReport
  BY <1>18 DEF ParseReport, scanVars, ctxVars
<1>19. CASE CleanUp
  BY <1>19 DEF CleanUp, scanVars, ctxVars
<1>20. CASE FallBack
  BY <1>20 DEF FallBack, MayFallBack, scanVars, ctxVars
<1>21. CASE Return
  BY <1>21 DEF Return, MayFallBack, ctxVars
<1>22. CASE Conclude
  BY <1>22 DEF Conclude, Outcome, ctxVars
<1>23. CASE UNCHANGED vars
  BY <1>23 DEF vars, scanVars, ctxVars
<1> QED
  BY <1>1, <1>2, <1>3, <1>4, <1>5, <1>6, <1>7, <1>8, <1>9, <1>10, <1>11, <1>12, <1>13, <1>14, <1>15, <1>16, <1>17, <1>18, <1>19, <1>20, <1>21, <1>22, <1>23
  DEF Next, ScanStep

(* The two parts of TypeOK: the scan, and the process with its files. *)
ScanTypeOK ==
  /\ pc \in Points
  /\ lookup \in BOOLEAN
  /\ target \in {NoTarget, Image, Sbom(TRUE), Sbom(FALSE)}
  /\ err \in Errors
  /\ blamed \in {"nobody", "artifact", "accessory", "late"}
  /\ verdict \in [outcome : {"none", "report", "failed", "retry", "pending"}, err : Errors]

HostTypeOK ==
  /\ adapter \in {"down", "starting", "up", "stopped"}
  /\ start \in 0 .. MaxStarts
  /\ roots \subseteq 1 .. MaxStarts
  /\ scratch \subseteq roots
  /\ files \subseteq (1 .. MaxStarts) \X {"report", "sbom"}
  /\ expired \in BOOLEAN /\ cancelled \in BOOLEAN
  /\ scans \in 0 .. MaxScans

(* The scan's state stays typed. *)
LEMMA ScanTypesStep ==
  ASSUME ScanInv, [Next]_vars
  PROVE  ScanTypeOK'
<1>a. TypeOK
  BY DEF ScanInv
<1>b. /\ NoError \in Errors /\ \A cause \in Causes : Plain(cause) \in Errors
      /\ Error("image_fetch", FALSE, "reference") \in Errors
      /\ Error("report_parse", FALSE, "content") \in Errors
      /\ Classified("unscannable_layer", "content") \in Errors
  BY ClassifiedIsError DEF NoError, Plain, Error, Errors, Causes, Permanent, Categories
<1>c. /\ "layer" \in Causes /\ "content" \in Causes /\ "storage" \in Causes /\ "binary" \in Causes
  BY DEF Causes, Permanent, Obscure
<1>d. \A e \in ContextErrors \cup RegistryErrors :
        /\ Classified(ClassifyRemoteError(e), e.cause) \in Errors
        /\ Classified(ManifestCategory(e), e.cause) \in Errors
  BY RemoteErrorsAreJudged, CategoriesGiven, ClassifiedIsError DEF ManifestCategory, Categories
<1>e. \A o \in ChildErrors : Classified(ClassifyTrivyError(o), o.cause) \in Errors
  BY TrivyErrorsAreJudged, CategoriesGiven, ClassifiedIsError
<1> USE <1>a, <1>b, <1>c DEF ScanTypeOK, TypeOK, Points, Step, Fails, Blamed, scanVars
<1>1. CASE StartAdapter
  BY <1>1 DEF StartAdapter
<1>2. CASE Reap
  BY <1>2 DEF Reap
<1>3. CASE Shutdown
  BY <1>3 DEF Shutdown
<1>4. CASE Exit
  BY <1>4 DEF Exit
<1>5. CASE Crash
  BY <1>5 DEF Crash
<1>6. CASE TempSwept
  BY <1>6 DEF TempSwept
<1>7. CASE Begin
  <2>1. NoVerdict \in [outcome : {"none", "report", "failed", "retry", "pending"}, err : Errors]
    BY DEF NoVerdict
  <2> QED
    BY <1>7, <2>1 DEF Begin
<1>8. CASE Expire
  BY <1>8 DEF Expire
<1>9. CASE FetchImage
  BY <1>9, <1>d DEF FetchImage
<1>10. CASE ReadManifest
  BY <1>10, <1>d DEF ReadManifest
<1>11. CASE DownloadSbom
  BY <1>11 DEF DownloadSbom, FetchLayer
<1>12. CASE FindAccessory
  BY <1>12 DEF FindAccessory, AccessoryFound
<1>13. CASE ValidateLayers
  BY <1>13 DEF ValidateLayers
<1>14. CASE MakeReportFile
  BY <1>14 DEF MakeReportFile
<1>15. CASE MakeChildTemp
  BY <1>15 DEF MakeChildTemp
<1>16. CASE PrepareCommand
  BY <1>16 DEF PrepareCommand
<1>17. CASE RunChild
  BY <1>17, <1>e DEF RunChild
<1>18. CASE ParseReport
  BY <1>18 DEF ParseReport
<1>19. CASE CleanUp
  BY <1>19 DEF CleanUp
<1>20. CASE FallBack
  BY <1>20 DEF FallBack, SecondLookup
<1>21. CASE Return
  BY <1>21 DEF Return
<1>22. CASE Conclude
  <2>2. Outcome \in {"report", "failed", "retry", "pending"}
    BY DEF Outcome
  <2>3. verdict' \in [outcome : {"none", "report", "failed", "retry", "pending"}, err : Errors]
    BY <1>22, <2>2 DEF Conclude
  <2> QED
    BY <1>22, <2>3 DEF Conclude
<1>23. CASE UNCHANGED vars
  BY <1>23 DEF vars
<1> QED
  BY <1>1, <1>2, <1>3, <1>4, <1>5, <1>6, <1>7, <1>8, <1>9, <1>10, <1>11, <1>12, <1>13, <1>14, <1>15, <1>16, <1>17, <1>18, <1>19, <1>20, <1>21, <1>22, <1>23
  DEF Next, ScanStep

(* The process and its files stay typed. *)
LEMMA HostTypesStep ==
  ASSUME ScanInv, [Next]_vars
  PROVE  HostTypeOK'
<1>a. HostTypeOK /\ start \in Nat
  BY ScanAssumption DEF ScanInv, TypeOK, HostTypeOK
<1>b. adapter \in {"starting", "up"} => start \in 1 .. MaxStarts
  BY <1>a, ScanAssumption DEF ScanInv, TempInv, HostTypeOK
<1>c. pc # "idle" => adapter = "up"
  BY DEF ScanInv, TempInv
<1>d. pc # "idle" => \A f \in {"report", "sbom"} : <<start, f>> \in (1 .. MaxStarts) \X {"report", "sbom"}
  BY <1>b, <1>c
<1> USE <1>a, <1>b, <1>c, <1>d, ScanAssumption DEF HostTypeOK, Step, Fails, procVars, tempVars, ctxVars
<1>1. CASE StartAdapter
  BY <1>1 DEF StartAdapter
<1>2. CASE Reap
  BY <1>2 DEF Reap, ReapSiblings
<1>3. CASE Shutdown
  BY <1>3 DEF Shutdown
<1>4. CASE Exit
  BY <1>4 DEF Exit
<1>5. CASE Crash
  BY <1>5 DEF Crash
<1>6. CASE TempSwept
  BY <1>6 DEF TempSwept
<1>7. CASE Begin
  <2>1. scans' \in 0 .. MaxScans
    BY <1>7 DEF Begin
  <2>2. expired' \in BOOLEAN /\ cancelled' \in BOOLEAN
    BY <1>7 DEF Begin
  <2> QED
    BY <1>7, <2>1, <2>2 DEF Begin
<1>8. CASE Expire
  BY <1>8 DEF Expire
<1>9. CASE FetchImage
  BY <1>9 DEF FetchImage
<1>10. CASE ReadManifest
  BY <1>10 DEF ReadManifest
<1>11. CASE DownloadSbom
  <2>1. files' \subseteq (1 .. MaxStarts) \X {"report", "sbom"}
    BY <1>11 DEF DownloadSbom
  <2> QED
    BY <1>11, <2>1 DEF DownloadSbom
<1>12. CASE FindAccessory
  <2>1. files' \subseteq (1 .. MaxStarts) \X {"report", "sbom"}
    BY <1>12 DEF FindAccessory, AccessoryFound
  <2> QED
    BY <1>12, <2>1 DEF FindAccessory, AccessoryFound
<1>13. CASE ValidateLayers
  BY <1>13 DEF ValidateLayers
<1>14. CASE MakeReportFile
  <2>1. files' \subseteq (1 .. MaxStarts) \X {"report", "sbom"}
    BY <1>14 DEF MakeReportFile
  <2> QED
    BY <1>14, <2>1 DEF MakeReportFile
<1>15. CASE MakeChildTemp
  BY <1>15 DEF MakeChildTemp, RootMade
<1>16. CASE PrepareCommand
  BY <1>16 DEF PrepareCommand
<1>17. CASE RunChild
  BY <1>17 DEF RunChild
<1>18. CASE ParseReport
  BY <1>18 DEF ParseReport
<1>19. CASE CleanUp
  BY <1>19 DEF CleanUp
<1>20. CASE FallBack
  BY <1>20 DEF FallBack
<1>21. CASE Return
  BY <1>21 DEF Return
<1>22. CASE Conclude
  BY <1>22 DEF Conclude
<1>23. CASE UNCHANGED vars
  BY <1>23 DEF vars
<1> QED
  BY <1>1, <1>2, <1>3, <1>4, <1>5, <1>6, <1>7, <1>8, <1>9, <1>10, <1>11, <1>12, <1>13, <1>14, <1>15, <1>16, <1>17, <1>18, <1>19, <1>20, <1>21, <1>22, <1>23
  DEF Next, ScanStep

(* A root that the starting or the running process makes. *)
LEMMA MakesRoot ==
  ASSUME start \in Nat, roots \subseteq Nat, \A r \in roots : r <= start,
         NEW n \in Nat, start <= n, roots' \subseteq roots \cup {n}, start' = n
  PROVE  \A r \in roots' : r <= start'
<1>1. \A r \in roots \cup {n} : r <= n
  OBVIOUS
<1> QED
  BY <1>1

(* A file that the running process makes. *)
LEMMA MakesFile ==
  ASSUME start \in Nat, \A f \in files : f[1] <= start,
         NEW kind, files' = files \cup {<<start, kind>>}, start' = start
  PROVE  \A f \in files' : f[1] <= start'
<1>1. <<start, kind>>[1] = start
  OBVIOUS
<1>2. start <= start
  OBVIOUS
<1> QED
  BY <1>1, <1>2

(* Each step of a scan and of its process keeps the account of the files. *)
LEMMA TempStep ==
  ASSUME ScanInv, [Next]_vars
  PROVE  TempInv'
<1>a. TempInv /\ OnlyOwnRoot /\ start \in Nat /\ scratch \subseteq roots
      /\ files \subseteq (1 .. MaxStarts) \X {"report", "sbom"} /\ roots \subseteq Nat
  BY ScanAssumption DEF ScanInv, TypeOK, TempInv
<1>b. /\ \A f \in files : f[1] \in Nat /\ f[1] <= start
      /\ \A r \in roots : r \in Nat /\ r <= start
  BY <1>a DEF TempInv
<1>c. StartAdapter \/ MakeChildTemp => \A r \in roots' : r <= start'
  <2>1. roots \subseteq Nat /\ start \in Nat /\ (\A r \in roots : r <= start)
    BY <1>a, <1>b
  <2>2. StartAdapter => start' = start + 1 /\ roots' \subseteq roots \cup {start + 1}
    BY DEF StartAdapter
  <2>3. MakeChildTemp => start' = start /\ roots' \subseteq roots \cup {start}
    BY DEF MakeChildTemp, RootMade, procVars
  <2>4. start + 1 \in Nat /\ start <= start + 1 /\ start <= start
    BY <2>1
  <2> QED
    BY <2>1, <2>2, <2>3, <2>4, MakesRoot
<1>d. Sbom(TRUE).kind = "sbom" /\ Sbom(FALSE).kind = "sbom"
  BY Zenon DEF Sbom
<1> USE <1>a, <1>b DEF TempInv, OnlyOwnRoot, Equipped, Step, Fails, procVars, tempVars
<1>1. CASE StartAdapter
  <2>1. start' = start + 1 /\ pc = "idle" /\ UNCHANGED <<pc, files, scratch>>
    BY <1>1 DEF StartAdapter, scanVars
  <2>2. (\A f \in files : f[1] # start + 1 /\ f[1] <= start + 1) /\ start + 1 \notin scratch
    BY <2>1
  <2> QED
    BY <1>1, <1>c, <2>1, <2>2 DEF StartAdapter
<1>2. CASE Reap
  BY <1>2 DEF Reap, ReapSiblings, scanVars
<1>3. CASE Shutdown
  BY <1>3 DEF Shutdown, scanVars
<1>4. CASE Exit
  BY <1>4 DEF Exit, Stopped, scanVars
<1>5. CASE Crash
  BY <1>5 DEF Crash, scanVars
<1>6. CASE TempSwept
  BY <1>6 DEF TempSwept, scanVars
<1>7. CASE Begin
  BY <1>7 DEF Begin, scanVars
<1>8. CASE Expire
  BY <1>8 DEF Expire, scanVars
<1>9. CASE FetchImage
  BY <1>9 DEF FetchImage, scanVars
<1>10. CASE ReadManifest
  BY <1>10 DEF ReadManifest, scanVars
<1>11. CASE DownloadSbom
  <2>1. UNCHANGED files \/ files' = files \cup {<<start, "sbom">>}
    BY <1>11 DEF DownloadSbom
  <2>2. UNCHANGED <<adapter, start, roots, scratch>>
    BY <1>11 DEF DownloadSbom
  <2>3. \A f \in files' : f[1] <= start'
    BY <1>a, <1>b, <2>1, <2>2, MakesFile
  <2>4. UNCHANGED <<files, target>> \/ target'.kind = "sbom"
    BY <1>11, <1>d DEF DownloadSbom
  <2> QED
    BY <1>11, <2>2, <2>3, <2>4 DEF DownloadSbom
<1>12. CASE FindAccessory
  <2>1. UNCHANGED files \/ files' = files \cup {<<start, "sbom">>}
    BY <1>12 DEF FindAccessory, AccessoryFound
  <2>2. UNCHANGED <<adapter, start, roots, scratch>>
    BY <1>12 DEF FindAccessory, AccessoryFound
  <2>3. \A f \in files' : f[1] <= start'
    BY <1>a, <1>b, <2>1, <2>2, MakesFile
  <2>4. UNCHANGED <<files, target>> \/ target'.kind = "sbom"
    BY <1>12, <1>d DEF FindAccessory, AccessoryFound
  <2> QED
    BY <1>12, <2>2, <2>3, <2>4 DEF FindAccessory, AccessoryFound
<1>13. CASE ValidateLayers
  BY <1>13 DEF ValidateLayers, scanVars
<1>14. CASE MakeReportFile
  <2>1. UNCHANGED files \/ files' = files \cup {<<start, "report">>}
    BY <1>14 DEF MakeReportFile
  <2>2. UNCHANGED <<adapter, start, roots, scratch>>
    BY <1>14 DEF MakeReportFile
  <2>3. \A f \in files' : f[1] <= start'
    BY <1>a, <1>b, <2>1, <2>2, MakesFile
  <2> QED
    BY <1>14, <2>2, <2>3 DEF MakeReportFile
<1>15. CASE MakeChildTemp
  <2>1. adapter = "up" /\ UNCHANGED <<adapter, start>> /\ roots' \subseteq roots \cup {start}
    BY <1>15 DEF MakeChildTemp, RootMade
  <2>2. OnlyOwnRoot'
    BY <2>1
  <2> QED
    BY <1>15, <1>c, <2>1, <2>2 DEF MakeChildTemp
<1>16. CASE PrepareCommand
  BY <1>16 DEF PrepareCommand, scanVars
<1>17. CASE RunChild
  BY <1>17 DEF RunChild, scanVars
<1>18. CASE ParseReport
  BY <1>18 DEF ParseReport, scanVars
<1>19. CASE CleanUp
  BY <1>19 DEF CleanUp, Cleaned
<1>20. CASE FallBack
  BY <1>20 DEF FallBack, scanVars
<1>21. CASE Return
  BY <1>21 DEF Return, scanVars
<1>22. CASE Conclude
  BY <1>22 DEF Conclude, scanVars
<1>23. CASE UNCHANGED vars
  BY <1>23 DEF vars, scanVars
<1> QED
  BY <1>1, <1>2, <1>3, <1>4, <1>5, <1>6, <1>7, <1>8, <1>9, <1>10, <1>11, <1>12, <1>13, <1>14, <1>15, <1>16, <1>17, <1>18, <1>19, <1>20, <1>21, <1>22, <1>23
  DEF Next, ScanStep

-----------------------------------------------------------------------------
LEMMA ScanInitial == Init => ScanInv
<1> SUFFICES ASSUME Init PROVE ScanInv
  OBVIOUS
<1>1. /\ NoError \in Errors /\ Judged(NoError) /\ NoTarget.accessory = FALSE
      /\ NoVerdict.err = NoError /\ NoVerdict.outcome = "none"
  <2>1. NoError \in Errors /\ Judged(NoError)
    BY DEF NoError, Error, Errors, Judged, Transient, Permanent
  <2>2. NoTarget.accessory = FALSE
    BY Zenon DEF NoTarget
  <2>3. NoVerdict.err = NoError /\ NoVerdict.outcome = "none"
    BY DEF NoVerdict
  <2> QED
    BY <2>1, <2>2, <2>3
<1>2. NoVerdict \in [outcome : {"none", "report", "failed", "retry", "pending"},
                     err : Errors]
  BY <1>1 DEF NoVerdict
<1>3. ScanTypeOK
  BY <1>1, <1>2 DEF Init, ScanTypeOK, Points
<1>4. HostTypeOK
  <2>1. start \in 0 .. MaxStarts /\ scans \in 0 .. MaxScans
    BY ScanAssumption DEF Init
  <2>2. expired \in BOOLEAN /\ cancelled \in BOOLEAN
    BY DEF Init
  <2> QED
    BY <2>1, <2>2 DEF Init, HostTypeOK
<1>5. TempInv
  BY DEF Init, TempInv, OnlyOwnRoot
<1>6. AccessoryInv /\ ErrorInv
  BY <1>1 DEF Init, AccessoryInv, AccessoryNeverDecides, ErrorInv
<1> QED
  BY <1>3, <1>4, <1>5, <1>6 DEF ScanInv, TypeOK, ScanTypeOK, HostTypeOK

(* ScanInv holds throughout. *)
THEOREM ScanInvariant == Spec => []ScanInv
<1>1. Init => ScanInv
  BY ScanInitial
<1>2. ScanInv /\ [Next]_vars => ScanInv'
  <2> SUFFICES ASSUME ScanInv, [Next]_vars PROVE ScanInv'
    OBVIOUS
  <2>1. ScanTypeOK' /\ HostTypeOK'
    BY ScanTypesStep, HostTypesStep
  <2>2. TypeOK'
    BY <2>1 DEF TypeOK, ScanTypeOK, HostTypeOK
  <2>3. TempInv' /\ AccessoryInv' /\ ErrorInv'
    BY TempStep, AccessoryStep, ErrorStep
  <2> QED
    BY <2>2, <2>3 DEF ScanInv
<1> QED
  BY <1>1, <1>2, PTL DEF Spec

(* Type correctness. *)
THEOREM TypeCorrect == Spec => []TypeOK
<1>1. ScanInv => TypeOK
  BY DEF ScanInv
<1> QED
  BY <1>1, ScanInvariant, PTL

(* Whichever call of a scan fails, its files and its scratch directory are gone
   before the scan returns and before the image is scanned instead. *)
THEOREM ScansCleanUp == Spec => []NothingLeftBehind
<1>1. ScanInv => NothingLeftBehind
  BY DEF ScanInv, TempInv, NothingLeftBehind, Equipped
<1> QED
  BY <1>1, ScanInvariant, PTL

(* Killed processes leave their roots to the next one, which removes them before
   it serves; one that exits takes its root along. *)
THEOREM RootsAreReaped == Spec => []OnlyOwnRoot
<1>1. ScanInv => OnlyOwnRoot
  BY DEF ScanInv, TempInv
<1> QED
  BY <1>1, ScanInvariant, PTL

(* AccessoryNeverDecides: whatever fails on the way to an accessory or in its scan, a
   job fails, or is retried, for the image's own sake, or because time is over; and
   no second pass begins without time. *)
THEOREM ImageDecides == Spec => []AccessoryNeverDecides
<1>1. ScanInv => AccessoryNeverDecides
  BY DEF ScanInv, AccessoryInv
<1> QED
  BY <1>1, ScanInvariant, PTL

(* No error that passes fails a job: every registry error and every fatal report
   with a transient cause gets a retryable category. *)
THEOREM PassingTroubleIsRetried == Spec => []TransientIsRetried
<1>1. ScanInv => TransientIsRetried
  BY DEF ScanInv, ErrorInv, Judged, TransientIsRetried
<1> QED
  BY <1>1, ScanInvariant, PTL

(* No error that stays is retried: routine trouble in the log of a child does not
   hide its fatal report. *)
THEOREM LastingTroubleIsFinal == Spec => []PermanentIsFinal
<1>1. ScanInv => PermanentIsFinal
  BY DEF ScanInv, ErrorInv, Judged, PermanentIsFinal
<1> QED
  BY <1>1, ScanInvariant, PTL
=============================================================================

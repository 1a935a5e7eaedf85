---------------------------- MODULE OwnedProject -----------------------------
(***************************************************************************)
(* The life of one run of a script around its body: it refuses a machine   *)
(* it must not touch, brings up a Compose project of its own, runs the     *)
(* body, removes what it created and verifies that, and only then a        *)
(* baseline publishes its raw exports, the manifest last.                  *)
(***************************************************************************)
EXTENDS AcceptanceHarness, FiniteSets

VARIABLES
    phase,          \* where the run is
    machine,        \* what it finds: what is missing, and what is left over
    present,        \* containers, volumes, networks, image of the project
    logsRaised,     \* reading the logs failed, before the removal
    exports,        \* k6's files: as measured, as digested, as read again
    published       \* the files of the destination

projectVars == <<phase, machine, present, logsRaised, exports, published>>

Kinds == {"containers", "volumes", "networks", "image"}

\* What the script asks of the machine before it touches anything.
Needs(s) ==
    CASE s = "observability" -> {"local engine"}
      [] s \in {"acceptance", "diagnostics"} -> {"local engine", "jar"}
      [] s \in {"performance", "flashSale"} -> {"local engine", "jar", "clean tree", "binary"}

Publishes == {"performance", "flashSale"}
Measured == "measured"
Nothing == "nothing"

ProjectInit ==
    /\ script \in Scripts /\ verdict = "running" /\ mishaps = 0
    /\ phase = "checking"
    /\ machine \in [lacks : {{}} \cup {{n} : n \in Needs(script)},
                    leftOver : {{}} \cup {{k} : k \in Kinds}]
    /\ present = machine.leftOver
    /\ logsRaised = FALSE
    /\ exports = [file |-> Measured, digest |-> Nothing, content |-> Nothing]
    /\ published = [raw |-> Nothing, manifest |-> FALSE]

Moves(from, to) == phase = from /\ phase' = to
BodyStays == UNCHANGED <<script, verdict>>

Fit ==
    /\ machine.lacks \cap Needs(script) = {}
    /\ machine.leftOver \cap {"containers", "volumes"} = {}

\* A machine that does not fit is left alone.
Refuse ==
    /\ ~Fit /\ Moves("checking", "refused")
    /\ Raised /\ Calm
    /\ UNCHANGED <<script, machine, present, logsRaised, exports, published>>

Begin ==
    /\ Fit /\ Moves("checking", "starting")
    /\ Calm /\ BodyStays /\ UNCHANGED <<machine, present, logsRaised, exports, published>>

StartUp ==
    /\ Moves("starting", "body") /\ present' = Kinds
    /\ Calm /\ BodyStays /\ UNCHANGED <<machine, logsRaised, exports, published>>

\* Compose failed or timed out and left what it had created so far.
StartFails ==
    /\ Moves("starting", "logs") /\ Mishap
    /\ \E some \in SUBSET Kinds : present' = present \cup some
    /\ Raised /\ UNCHANGED <<script, machine, logsRaised, exports, published>>

\* The body raises for a reason of its own: a failing call, Ctrl-C.
Interrupt ==
    /\ phase = "body" /\ verdict = "running" /\ Mishap
    /\ Raised /\ UNCHANGED <<script, projectVars>>

EndBody ==
    /\ Moves("body", "logs") /\ verdict # "running"
    /\ Calm /\ BodyStays /\ UNCHANGED <<machine, present, logsRaised, exports, published>>

\* cleanup(): the removal is tried even if the logs cannot be read.
ReadLogs ==
    /\ Moves("logs", "down")
    /\ \/ Calm /\ UNCHANGED logsRaised
       \/ Mishap /\ logsRaised' = TRUE
    /\ BodyStays /\ UNCHANGED <<machine, present, exports, published>>

Down ==
    /\ \/ Moves("down", "verify") /\ present' = {} /\ Calm
       \/ \* it reports success and leaves something, or it fails
          /\ Mishap /\ present' \in SUBSET present
          /\ Moves("down", "verify") \/ Moves("down", "failed")
    /\ BodyStays /\ UNCHANGED <<machine, logsRaised, exports, published>>

\* The exceptions of the body, the logs and the removal end the script.
Verify ==
    /\ phase = "verify"
    /\ phase' = IF present # {} \/ logsRaised \/ verdict # "passed" THEN "failed"
                ELSE IF script \in Publishes THEN "digest" ELSE "succeeded"
    /\ Calm /\ BodyStays /\ UNCHANGED <<machine, present, logsRaised, exports, published>>

\* The report gets the digests of the files; publish() reads the files once.
Digest ==
    /\ Moves("digest", "read")
    /\ exports' = [exports EXCEPT !.digest = exports.file]
    /\ Calm /\ BodyStays /\ UNCHANGED <<machine, present, logsRaised, published>>

ReadExports ==
    /\ Moves("read", "gate")
    /\ exports' = [exports EXCEPT !.content = exports.file]
    /\ Calm /\ BodyStays /\ UNCHANGED <<machine, present, logsRaised, published>>

\* Only the flash-sale baseline compares the content with what it measured.
Gate ==
    /\ phase = "gate"
    /\ phase' = IF /\ exports.content = exports.digest
                   /\ script = "flashSale" => exports.content = Measured
                THEN "writing" ELSE "failed"
    /\ Calm /\ BodyStays /\ UNCHANGED <<machine, present, logsRaised, exports, published>>

\* Mutant: the files are copied to the destination after the gate.
WriteFilesAgain ==
    /\ Moves("writing", "manifest")
    /\ published' = [published EXCEPT !.raw = exports.file]
    /\ Calm /\ BodyStays /\ UNCHANGED <<machine, present, logsRaised, exports>>

\* What the gate has seen is written, whatever the files are by now.
WriteRaws ==
    /\ Moves("writing", "manifest")
    /\ published' = [published EXCEPT !.raw = exports.content]
    /\ Calm /\ BodyStays /\ UNCHANGED <<machine, present, logsRaised, exports>>

WriteManifest ==
    /\ Moves("manifest", "succeeded")
    /\ published' = [published EXCEPT !.manifest = TRUE]
    /\ Calm /\ BodyStays /\ UNCHANGED <<machine, present, logsRaised, exports>>

\* The destination exists, or the disk is full.
WriteFails ==
    /\ Moves("writing", "failed") \/ Moves("manifest", "failed")
    /\ Mishap
    /\ BodyStays /\ UNCHANGED <<machine, present, logsRaised, exports, published>>

Ends == {"refused", "failed", "succeeded", "killed"}

Killed ==
    /\ phase \notin Ends /\ Mishap
    /\ phase' = "killed"
    /\ BodyStays /\ UNCHANGED <<machine, present, logsRaised, exports, published>>

\* Somebody changes an exported file after the body used it.
ExportChanges ==
    /\ phase \notin {"checking", "starting", "body"} \cup Ends /\ script \in Publishes /\ Mishap
    /\ exports' = [exports EXCEPT !.file = "changed"]
    /\ BodyStays /\ UNCHANGED <<phase, machine, present, logsRaised, published>>

ProjectStep ==
    \/ Refuse \/ Begin \/ StartUp \/ EndBody \/ ReadLogs \/ Down \/ Verify
    \/ Digest \/ ReadExports \/ Gate \/ WriteRaws \/ WriteManifest

ProjectMishap == StartFails \/ Interrupt \/ WriteFails \/ Killed \/ ExportChanges
-----------------------------------------------------------------------------
\* However a run ends it says the truth about the machine and the evidence: a
\* machine that does not fit stays as it was found, a success leaves nothing behind, and a
\* manifest stands only over the content whose digest was taken, of a run that
\* passed and was cleaned up; for flash sales that is what was measured.
EndsAreHonest ==
    /\ ~Fit => present = machine.leftOver
    /\ phase = "succeeded" => verdict = "passed" /\ present = {}
    /\ published.manifest =>
        /\ verdict = "passed" /\ present = {}
        /\ published.raw = exports.digest
        /\ script = "flashSale" => published.raw = Measured
=============================================================================

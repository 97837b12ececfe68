--------------------------- MODULE QHashSelfTest ---------------------------
(***************************************************************************)
(* The start-up self-test: SelfTest() and SHA256AutoDetect() of            *)
(* src/src/crypto/neuralleadqhash_interface.cpp.                           *)
(*                                                                         *)
(* The environment is what the process finds on disk and what its build    *)
(* computes: whether the directory "neuralleadqhash" exists, the state of  *)
(* each fixture file, and whether DirectComputeHash reproduces the literal *)
(* test vector.  One action is one call of SHA256AutoDetect, the whole     *)
(* SelfTest included.  Assertions are assumed enabled, as in the Bitcoin  *)
(* Core code base this derives from, so assert(SelfTest()) always runs.    *)
(***************************************************************************)
EXTENDS Naturals, FiniteSets, FiniteSetsExt

CONSTANT NFixtures   \* number of entries of the fhashes map

\* The fixture files, numbered in the std::map's iteration order.
Fixtures == 1..NFixtures

\* What a fixture path is on disk.
\*  "absent":     no such path, or a directory or socket (file_exists false)
\*  "unopenable": a file that the ifstream cannot open
\*  "wrong":      a readable file whose SHA-512 differs from the table
\*  "good":       a readable file with the expected SHA-512
FileStates == {"absent", "unopenable", "wrong", "good"}

VARIABLES
  dirExists,   \* dir_exists("neuralleadqhash")
  files,       \* Fixtures -> FileStates
  literalOK,   \* DirectComputeHash of the literal gives 566c...2dbc
  literalRan,  \* the literal check was executed
  outcome      \* "pending", "name", "assert", "exception"

vars == <<dirExists, files, literalOK, literalRan, outcome>>

Init ==
  /\ dirExists \in BOOLEAN
  /\ files \in [Fixtures -> FileStates]
  /\ literalOK \in BOOLEAN
  /\ literalRan = FALSE
  /\ outcome = "pending"

(***************************************************************************)
(* The fixture loop, in map order.  An absent file or a wrong digest       *)
(* returns false.  For an unopenable file tellg() gives -1 and             *)
(* std::vector<unsigned char>(-1) throws before the read is tried.         *)
(***************************************************************************)
\* Verdict of the fixture loop when the files in bad are the ones that stop
\* it: the first of them in map order decides.
FirstStop(bad) ==
  IF bad = {} THEN "pass"
  ELSE IF files[Min(bad)] = "unopenable" THEN "exception" ELSE "false"

FixtureVerdict == FirstStop({f \in Fixtures : files[f] /= "good"})

\* Mutant of SelfTestResult: a missing fixture file is skipped (continue).
SelfTestSkipsAbsent ==
  LET v == FirstStop({f \in Fixtures : files[f] \in {"wrong", "unopenable"}})
  IN  IF ~dirExists THEN "false"
      ELSE IF v /= "pass" THEN v
      ELSE IF literalOK THEN "true" ELSE "false"

(***************************************************************************)
(* SelfTest(): the directory check, the fixture loop, then the literal     *)
(* vector; "true", "false", or "exception" when it throws.                 *)
(***************************************************************************)
SelfTestResult ==
  IF ~dirExists THEN "false"
  ELSE IF FixtureVerdict /= "pass" THEN FixtureVerdict
  ELSE IF literalOK THEN "true" ELSE "false"

\* The literal check is reached only when SelfTest gets past the fixtures.
ReachesLiteral == dirExists /\ FixtureVerdict = "pass"

(***************************************************************************)
(* SHA256AutoDetect(): assert(SelfTest()); return "NeuralLeadHash".        *)
(***************************************************************************)
AutoDetect ==
  /\ outcome = "pending"
  /\ literalRan' = ReachesLiteral
  /\ outcome' = CASE SelfTestResult = "true"      -> "name"
                  [] SelfTestResult = "false"     -> "assert"
                  [] SelfTestResult = "exception" -> "exception"
  /\ UNCHANGED <<dirExists, files, literalOK>>

Next == AutoDetect

Spec == Init /\ [][Next]_vars

-----------------------------------------------------------------------------
TypeOK ==
  /\ dirExists \in BOOLEAN
  /\ files \in [Fixtures -> FileStates]
  /\ literalOK \in BOOLEAN
  /\ literalRan \in BOOLEAN
  /\ outcome \in {"pending", "name", "assert", "exception"}

(***************************************************************************)
(* Spec 4.8 / 7: SHA256AutoDetect returns the implementation name only if  *)
(* the build reproduces the literal vector and, when the fixture directory *)
(* is there, every fixture file is present with its expected digest.       *)
(***************************************************************************)
NameOnlyIfVerified ==
  outcome = "name" =>
    /\ literalRan /\ literalOK
    /\ dirExists => \A f \in Fixtures : files[f] = "good"

(***************************************************************************)
(* Spec 4.8 / 7 / 9: a missing fixture directory is the one tolerated      *)
(* failure, a skip of the optional checks: a build that reproduces the     *)
(* literal vector then starts and returns its name.                        *)
(***************************************************************************)
MissingFixturesTolerated ==
  (outcome /= "pending" /\ ~dirExists /\ literalOK) => outcome = "name"
=============================================================================

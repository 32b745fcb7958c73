---------------------------- MODULE DriverRequest ----------------------------
(***************************************************************************)
(* What the drivers of one entry of ami_regions are asked for: the         *)
(* resources.AmiProperties that their publisher puts into every call, and  *)
(* the limits of the loops in which they wait for AWS.                     *)
(***************************************************************************)
EXTENDS Naturals, Sequences

CONSTANTS
  Accounts,      \* AWS account numbers
  SharedLists,   \* the values of shared_with_accounts that are considered
  MaxPolls,      \* rounds of a loop that polls AWS (60, 100 and 120 in the code)
  Malformed      \* may AWS answer with an empty list, or without an id or a task?

ASSUME SharedAssumption ==
  "all" \notin Accounts /\ SharedLists \subseteq Seq(Accounts)

ASSUME PollsAssumption == MaxPolls \in Nat \ {0}

ASSUME MalformedAssumption == Malformed \in BOOLEAN

VARIABLE config   \* visibility, encryption and the accounts to share with

Configs == [visibility : {"public", "private"}, encrypted : BOOLEAN, shared : SharedLists]

Shared == {config.shared[i] : i \in DOMAIN config.shared}

Public == config.visibility = "public"

(* Who may use what belongs to the stemcell; "all" is everybody. *)
Entitled == Shared \cup (IF Public THEN {"all"} ELSE {})

Grantees == Accounts \cup {"all"}
=============================================================================

---------------------------- MODULE SessionNames ----------------------------
(***************************************************************************)
(* Names of tmux sessions and what is checked about their parts:           *)
(* crates/aivcs-session/src/session.rs, the identifiers of remote.rs, and  *)
(* RemoteSessionTarget::new of crates/core/src/execution_location.rs.      *)
(*                                                                         *)
(* A name is a member of a set; what the code looks at in its characters   *)
(* is which class it falls in and what it is lowercased and sanitised to.  *)
(***************************************************************************)
CONSTANTS
    Name,
    EmptyName,
    TraversalName,   \* names with ".." or "/"
    UnsafeName,      \* names with a character outside [A-Za-z0-9._-]
    SanitizeOf       \* lowercased, every other character replaced by "_"

ASSUME NameAssumption ==
    /\ EmptyName \in Name
    /\ TraversalName \subseteq Name /\ UnsafeName \subseteq Name
    /\ SanitizeOf \in [Name -> Name]
    /\ \A n \in Name : /\ SanitizeOf[SanitizeOf[n]] = SanitizeOf[n]
                       /\ SanitizeOf[n] \notin UnsafeName
                       /\ SanitizeOf[n] = EmptyName <=> n = EmptyName

Role == {"Agent", "Runner", "Human"}
RoleText == Role \cup {"invalid"}    \* what a caller passes as a role

validate_repo_name(n) == n # EmptyName /\ n \notin TraversalName
validate_work_id(n) == n # EmptyName
validate_ssh_identifier(n) == n # EmptyName /\ n \notin UnsafeName

(* SessionConfig::new and RemoteTarget::new succeed.                       *)
ValidConfig(repo, work) == validate_repo_name(repo) /\ validate_work_id(work)
ValidTarget(host, user) ==
    validate_ssh_identifier(host) /\ validate_ssh_identifier(user)

(* RemoteSessionTarget::new succeeds.  Its fields are public: a location   *)
(* read from a message was not checked by it.                              *)
ValidLocation(host, user, repo) ==
    ValidTarget(host, user) /\ validate_repo_name(repo)

(* "aivcs__{repo}__{work_id}__{role}"; an empty part is an error that      *)
(* ValidConfig has excluded.                                               *)
session_name(repo, work, role) == <<SanitizeOf[repo], SanitizeOf[work], role>>

=============================================================================

---------------------------- MODULE CustodyRules ----------------------------
(***************************************************************************)
(* The rules of the chain of custody that FORGE-X keeps twice: once in     *)
(* Python (app/custody/services.py, app/access.py), which decides what the *)
(* transfer form offers, and once in SQL (sp_transfer_evidence), which     *)
(* decides what is recorded.  Both copies are translated, each from its    *)
(* own lines, so that their agreement is a statement and not a premise.    *)
(***************************************************************************)

Statuses == {"In Transit", "In Storage", "Checked Out", "Under Examination",
             "Released", "Archived"}

TransferActions == {"Received", "Transferred", "Checked Out", "Examined",
                    "Returned", "Stored", "Released", "Archived"}

Actions == TransferActions \cup {"Collected", "Exported"}

---------------------------------------------------------------------------
(* The Python copy. *)

ALLOWED_FROM ==
  [status \in Statuses |->
     CASE status = "In Transit"        -> {"Received", "Transferred", "Stored"}
       [] status = "In Storage"        -> {"Transferred", "Checked Out", "Stored",
                                           "Released", "Archived"}
       [] status = "Checked Out"       -> {"Received", "Transferred", "Examined",
                                           "Returned", "Stored"}
       [] status = "Under Examination" -> {"Transferred", "Examined", "Returned"}
       [] status = "Released"          -> {"Archived"}
       [] OTHER                        -> {}]

INVESTIGATOR_CUSTODY_ACTIONS == {"Checked Out", "Examined", "Returned"}

NEEDS_STORAGE_LOCATION == {"Received", "Stored", "Returned"}

resulting_status(action, current) ==
  CASE action \in NEEDS_STORAGE_LOCATION -> "In Storage"
    [] action = "Checked Out"            -> "Checked Out"
    [] action = "Examined"               -> "Under Examination"
    [] action = "Released"               -> "Released"
    [] action = "Archived"               -> "Archived"
    [] OTHER                             -> current

---------------------------------------------------------------------------
(* The SQL copy: v_allowed and v_new_status of sp_transfer_evidence. *)

\* Mutant: the copies drift, an item in transit cannot be stored.
v_allowed_Drifted(action, status) ==
  CASE action = "Received"    -> status \in {"In Transit", "Checked Out"}
    [] action = "Transferred" -> status \in {"In Transit", "In Storage", "Checked Out",
                                             "Under Examination"}
    [] action = "Checked Out" -> status = "In Storage"
    [] action = "Examined"    -> status \in {"Checked Out", "Under Examination"}
    [] action = "Returned"    -> status \in {"Checked Out", "Under Examination"}
    [] action = "Stored"      -> status \in {"In Storage", "Checked Out"}
    [] action = "Released"    -> status = "In Storage"
    [] action = "Archived"    -> status \in {"In Storage", "Released"}
    [] OTHER                  -> FALSE

v_allowed(action, status) ==
  CASE action = "Received"    -> status \in {"In Transit", "Checked Out"}
    [] action = "Transferred" -> status \in {"In Transit", "In Storage", "Checked Out",
                                             "Under Examination"}
    [] action = "Checked Out" -> status = "In Storage"
    [] action = "Examined"    -> status \in {"Checked Out", "Under Examination"}
    [] action = "Returned"    -> status \in {"Checked Out", "Under Examination"}
    [] action = "Stored"      -> status \in {"In Transit", "In Storage", "Checked Out"}
    [] action = "Released"    -> status = "In Storage"
    [] action = "Archived"    -> status \in {"In Storage", "Released"}
    [] OTHER                  -> FALSE

v_new_status(action, status) ==
  CASE action \in {"Received", "Stored", "Returned"} -> "In Storage"
    [] action = "Checked Out"                        -> "Checked Out"
    [] action = "Examined"                           -> "Under Examination"
    [] action = "Released"                           -> "Released"
    [] action = "Archived"                           -> "Archived"
    [] OTHER                                         -> status

=============================================================================

------------------------------- MODULE Errors -------------------------------
(***************************************************************************)
(* The HTTP status each exception of backend/app/core/errors.py becomes.   *)
(***************************************************************************)

Refusal == [NotFoundError         |-> 404,
            AuthorizationError    |-> 401,
            PermissionDeniedError |-> 403,
            ConflictError         |-> 409]

\* A request that succeeds, with 200, 201 or 204.
Accepted == 200

\* An exception that is none of the application's own.
Unhandled == 500
=============================================================================

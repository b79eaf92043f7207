------------------------------- MODULE ApiErrors -------------------------------
(***************************************************************************)
(* How a request that fails becomes the words on the screen: the errors of *)
(* common/errors.ts, the terminal handler of middleware/error-handler.ts   *)
(* and the API client of the browser (lib/api.ts).  A message is named     *)
(* after the error it was written for.                                     *)
(***************************************************************************)
EXTENDS Naturals

\* AppError: the errors whose messages are written for users.
statusCode == [ValidationError |-> 400, NotFoundError |-> 404, ConflictError |-> 409,
               FileTooLargeError |-> 413, UnsupportedFileTypeError |-> 415]

\* The errors of multer and zod, by the AppError they are wrapped in.
wrapped == [ZodError |-> "ValidationError", MulterError |-> "ValidationError",
            LIMIT_FILE_SIZE |-> "FileTooLargeError"]

AppError == DOMAIN statusCode
ErrorBody(status, message) == [statusCode |-> status, message |-> message]

\* Bug: what nobody recognises is taken for an upload that could not be read.
normalise_BlamesUser(err) ==
    IF err \in AppError THEN ErrorBody(statusCode[err], err)
    ELSE IF err \in DOMAIN wrapped THEN ErrorBody(statusCode[wrapped[err]], err)
    ELSE ErrorBody(400, "MulterError")

\* Anything that is not recognised is a 500 whose cause stays in the logs.
normalise(err) ==
    IF err \in AppError THEN ErrorBody(statusCode[err], err)
    ELSE IF err \in DOMAIN wrapped THEN ErrorBody(statusCode[wrapped[err]], err)
    ELSE ErrorBody(500, "internal")

\* The message of a 5xx is not quoted.
toApiError(response) ==
    IF response.statusCode >= 500 THEN "generic" ELSE response.message

================================================================================

----------------------------- MODULE HttpErrors -----------------------------
(***************************************************************************)
(* HttpErrors: how the global validation pipe turns class-validator's tree *)
(* of errors into one exception, and how the global filter answers a       *)
(* request whose handling threw.  A list of errors is a sequence of nodes; *)
(* parent is the node one is a child of, 0 for the list itself.            *)
(***************************************************************************)
EXTENDS Naturals, Sequences

CONSTANTS
    Properties,  \* property names of request bodies
    MaxNodes     \* bound: errors in one request

\* What class-validator reports: siblings are different properties, and an error that
\* has no children has constraints.  Nodes are listed breadth first.
ValidationErrors == UNION {
    {errors \in [1 .. n -> [property : Properties, constraints : BOOLEAN, parent : 0 .. n - 1]] :
        \A i \in 1 .. n :
            /\ errors[i].parent < i
            /\ errors[i].constraints \/ \E k \in 1 .. n : errors[k].parent = i
            /\ \A k \in 1 .. i - 1 :
                  /\ errors[k].parent <= errors[i].parent
                  /\ errors[k].parent = errors[i].parent => errors[k].property # errors[i].property} :
    n \in 1 .. MaxNodes}

\* Mutant of propertyPath: the prefix is the parent's name, not its path.
propertyPathOfParent(errors) ==
    [i \in DOMAIN errors |->
        IF errors[i].parent = 0 THEN <<errors[i].property>>
        ELSE <<errors[errors[i].parent].property, errors[i].property>>]
\* The dotted path under which processValidationError reaches each node.
propertyPath(errors) ==
    LET path[i \in DOMAIN errors] ==
            IF errors[i].parent = 0 THEN <<errors[i].property>>
            ELSE Append(path[errors[i].parent], errors[i].property)
    IN  path

\* The keys that processValidationError sets to 'invalid'.
processValidationErrors(errors) ==
    {propertyPath(errors)[i] : i \in {k \in DOMAIN errors : errors[k].constraints}}

Exception(name, code, details) == [name |-> name, error_code |-> code, details |-> details]

\* Nest calls it with at least one error, and main.ts 37 leaves detailed output on.
getExceptionObj(errors) ==
    Exception("ApiError", "INVALID_ARGUMENT_ERROR", processValidationErrors(errors))

errorCodeMap == [
    BAD_REQUEST_ERROR |-> 400, INVALID_ARGUMENT_ERROR |-> 400, ORDER_BAD_REQUEST_ERROR |-> 400,
    INTERNAL_SERVER_ERROR |-> 500, UNAUTHORIZED |-> 401, SEND_BIRD_API_ERROR |-> 400,
    SEND_BIRD_UNKNOWN_ERROR |-> 500, ORDER_STATUS_FORBIDDEN_ERROR |-> 403,
    TRADING_API_ERROR |-> 503, FORBIDDEN |-> 403]

\* What a handler may throw: an ApiError, Nest's NotFoundException, another
\* HttpException, or an Error such as the one sendMessage passes on.
SdkError == Exception("Error", "none", {})
Exceptions ==
    {Exception("ApiError", code, {}) : code \in DOMAIN errorCodeMap} \cup
    {Exception("NotFoundException", "none", {}), Exception("HttpException", "none", {}), SdkError}

\* Mutant of catch: what is neither is taken for the client's fault.
catchAsBadRequest(exception) ==
    IF exception.name = "ApiError"
    THEN [status |-> errorCodeMap[exception.error_code],
          errorCode |-> exception.error_code, details |-> exception.details]
    ELSE [status |-> IF exception.name = "NotFoundException" THEN 404 ELSE 400,
          errorCode |-> "BAD_REQUEST_ERROR", details |-> {}]
\* HttpExceptionFilter.catch: the status and body of the only answer.
catch(exception) ==
    CASE exception.name = "ApiError" ->
            [status |-> errorCodeMap[exception.error_code],
             errorCode |-> exception.error_code, details |-> exception.details]
      [] exception.name = "NotFoundException" ->
            [status |-> 404, errorCode |-> "NOT_FOUND_ERROR", details |-> {}]
      [] OTHER ->
            [status |-> 500, errorCode |-> "INTERNAL_SERVER_ERROR", details |-> {}]
=============================================================================

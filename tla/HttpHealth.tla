----------------------------- MODULE HttpHealth -----------------------------
(***************************************************************************)
(* What one HTTP reply of the application is worth to the wrapper: the     *)
(* string the two fetch functions of HttpUtil.cpp return, the parse of it, *)
(* and the verdict ServiceProcess::healthTest draws.  Pure operators: the  *)
(* socket dialogue that produces the reply is module HealthProbe.          *)
(*                                                                         *)
(* A text is abstracted to what the verdict can tell apart: whether it is  *)
(* shorter than the 12 characters healthTest asks for, the status code of  *)
(* its "HTTP/1.1 " line if it has one, and the kind of its body.           *)
(***************************************************************************)
EXTENDS Naturals

NoCode == 0      \* the text has no line starting with "HTTP/1.1 "
Codes  == {NoCode, 200, 503}

\* "tiny": fewer than two characters; "garbage": JSON::Parse returns NULL;
\* "scalar": JSON that is not an object; "noKey": an object without the
\* configured key; "notString": the key's value is not a string.
Bodies == {"tiny", "garbage", "scalar", "noKey", "notString",
           "expected", "unexpected"}

Texts == [short : BOOLEAN, code : Codes, body : Bodies]

Empty == [short |-> TRUE, code |-> NoCode, body |-> "tiny"]

Verdicts == {"pass", "fail", "crash"}

-----------------------------------------------------------------------------
\* Both functions declare `response` twice: the text receiveAll returns goes
\* into the inner one, which dies with its block, and the outer one, still
\* empty, is what the function returns, whatever has been received.
FetchHTTPGetResponse(received)  == Empty
FetchHTTPPostResponse(received) == Empty

Fetch(method, received) ==
  IF method = "POST" THEN FetchHTTPPostResponse(received)
                     ELSE FetchHTTPGetResponse(received)

\* The responses parseResponse may return: nothing initialises responseCode,
\* so without a status line it may be read as any number.
ParseResponse(text) ==
  [responseCode : IF text.code = NoCode THEN Codes ELSE {text.code},
   responseString : {text.body}]

\* getChildAsString dereferences what JSON::Parse and Child return: NULL for
\* text that is not JSON and for a missing key, another member of the value's
\* union for a scalar or for a value that is not a string.
BodyVerdicts(body) ==
  CASE body = "expected"             -> {"pass"}
    [] body = "unexpected"           -> {"fail"}
    [] body \in {"garbage", "noKey"} -> {"crash"}
    [] OTHER                         -> {"crash", "fail"}

ResponseVerdicts(response, contentType) ==
  IF response.responseCode # 200 \/ response.responseString = "tiny"
  THEN {"fail"}
  ELSE IF contentType # "json" THEN {"pass"}
                               ELSE BodyVerdicts(response.responseString)

\* The verdicts healthTest may reach on the string fetch returned.
HealthTest(text, contentType) ==
  IF text.short
  THEN {"fail"}
  ELSE UNION {ResponseVerdicts(r, contentType) : r \in ParseResponse(text)}

=============================================================================

---------------------------- MODULE MCHeaderReader ----------------------------
(* Instances of the header reader for TLC.                                 *)
EXTENDS HeaderReader

\* A header with one field, or with none.
Status == [p \in 1..(StatusSize + CodeSize) |-> IF p <= StatusSize THEN "status" ELSE "digit"]
Header(fields) == Status \o <<"\r", "\n">> \o fields \o <<"\r", "\n">>
Location == <<"location", "\r", "\n">>
Other == <<"x", "\r", "\n">>

MCResponse(code, fields, body) ==
    [header |-> Header(fields), code |-> code, length |-> Len(body), body |-> body]

\* The answer to HEAD has the length of a body that does not follow.
Length == [MCResponse(200, <<"content-length", "\r", "\n">>, <<>>) EXCEPT !.length = 5]

\* A redirection is found, is behind what is searched for it, or is in a header that is too
\* long; the body may look like the end of a header.
MCResponses ==
    {MCResponse(200, <<>>, <<>>), Length,
     MCResponse(200, Other, <<"\r", "\n", "\r", "\n", "b">>),
     MCResponse(206, <<>>, <<"a", "b">>),
     MCResponse(302, Location, <<"a">>), MCResponse(302, Other \o Location, <<>>),
     MCResponse(302, Other \o Other \o Location, <<>>),
     MCResponse(404, <<>>, <<"a", "b">>)}

MCRequests ==
    [allocated_size : {NoBuffer, 2, 6}, max_write_size : {3, 20}, header_only : {FALSE}]
    \cup [allocated_size : {NoBuffer}, max_write_size : {3, 20}, header_only : {TRUE}]
=============================================================================

--------------------------- MODULE MCHttpRequests ---------------------------
EXTENDS HttpRequests

MCText ==
  {"", "{}", "HTTP/1.1", "GET", "POST", "PUT", "Host:", "gateway",
   "/api/v1/commands", "/api/v1/commands/", "/api/v1/device/", "/api/v1/devices",
   "/api/dashboard/alerts", "device_id", "command", "params",
   "d1", "d2", "d3", "d4", "c1", "c2", "p1"}
Letter == 12

Host == <<Word("Host:"), Word("gateway"), CR, LF>>
Request(method, path, headers, body) ==
  [method |-> method, path |-> path, headers |-> headers, body |-> body]

Field(key, value) == <<Str(key), Str(value)>>
Post(headers, body) == Request("POST", Word("/api/v1/commands"), headers, body)

Posts ==
  {Post(Host, Field("device_id", "d1") \o Field("command", "c1") \o Field("params", "p1")),
   Post(<< >>, Field("command", "c2") \o Field("device_id", "d2")),
   Post(Host, Field("device_id", "d3"))}

Gets ==
  {Request("GET", Word("/api/v1/devices"), Host, << >>),
   Request("GET", Word("/api/dashboard/alerts"), << >>, << >>),
   Request("GET", IdPath("/api/v1/device/", <<7>>), << >>, << >>),
   Request("PUT", Word("/api/v1/commands"), << >>, Field("device_id", "d4"))}

\* With MaxLong 99: ids that are numbers, with a sign or a tail too, and ids
\* that std::stoll throws at: none, a letter, a number too large.
Ids == {<<4>>, <<4, 2>>, <<4, Minus, 7, Letter>>, <<4, Letter, 2>>, <<4, 1, 0, 0>>}
CommandGets ==
  {Request("GET", IdPath("/api/v1/commands/", id), << >>, << >>) : id \in Ids \cup {<< >>}}

\* One, two or three requests; the third is a POST.
MCConversations ==
  LET one == Posts \cup Gets \cup CommandGets
      complete == {r \in Posts : ~Missing(Posted(r.body))}
  IN  {<<r>> : r \in one} \cup {<<r, q>> : r \in one, q \in one}
        \cup {<<r, q, p>> : r \in complete, q \in complete, p \in complete}
=============================================================================

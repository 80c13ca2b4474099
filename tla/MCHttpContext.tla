----------------------------- MODULE MCHttpContext -----------------------------
(* The instance of HttpContext that TLC explores: a page by its short name, a page
   that others may not read, a page that is missing, the login form and a form for
   another page, three in a row, cut and merged into reads in every way. *)
EXTENDS HttpContext

MCRequests ==
  {[method |-> "GET", path |-> "/"], [method |-> "GET", path |-> "/private.html"],
   [method |-> "GET", path |-> "/none"], [method |-> "POST", path |-> "/login"],
   [method |-> "POST", path |-> "/picture"]}

MCFileStat ==
  [p \in {"", "/index.html", "/login.html", "/picture.html", "/welcome.html", "/error.html",
          "/private.html"} |->
     CASE p = "" -> "dir" [] p = "/private.html" -> "private" [] OTHER -> "ok"]
===============================================================================

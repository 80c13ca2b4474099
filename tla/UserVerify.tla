------------------------------- MODULE UserVerify ------------------------------
(***************************************************************************)
(* HttpRequest::UserVerify (src/http/httprequest.cc), the one client of    *)
(* SqlConnPool, run by the threads of several connections at once.         *)
(*                                                                         *)
(* It names no SqlConnRAII object: the temporary built at line 226 returns *)
(* the handle at the end of that statement, UserVerify uses the handle     *)
(* afterwards, and returns it a second time at line 291.  The table user   *)
(* is the set of rows inserted; names and passwords are opaque.            *)
(***************************************************************************)
EXTENDS SqlConnPool

CONSTANTS Names, Passwords,
          NoText  \* the empty string, as a name or as a password

VARIABLES req,     \* per user: the posted form
          vpc,     \* per user: where UserVerify is
          sql,     \* per user: the local variable sql
          flag,    \* per user: the local variable flag
          rows,    \* the table user
          result,  \* per user: what UserVerify returned, or "none"
          aborted  \* an assertion failed

verifyVars == <<req, vpc, sql, flag, rows, result, aborted>>
allVars == <<vars, req, vpc, sql, flag, rows, result, aborted>>

Requests == [isLogin : BOOLEAN, name : Names \cup {NoText},
             pwd : Passwords \cup {NoText}]
Row(u) == [name |-> req[u].name, pwd |-> req[u].pwd]
NameTaken(u) == \E r \in rows : r.name = req[u].name

VerifyInit ==
  /\ Init
  /\ req \in [Users -> Requests]
  /\ vpc = [u \in Users |-> "start"]
  /\ sql = [u \in Users |-> NULL]
  /\ flag = [u \in Users |-> FALSE]
  /\ rows = {}
  /\ result = [u \in Users |-> "none"]
  /\ aborted = FALSE

Return(u, r) ==
  /\ vpc' = [vpc EXCEPT ![u] = "done"]
  /\ result' = [result EXCEPT ![u] = IF r THEN "yes" ELSE "no"]

(* if (name == "" || pwd == "") return false; *)
VerifyBegin(u) ==
  /\ vpc[u] = "start"
  /\ IF NoText \in {req[u].name, req[u].pwd}
       THEN Return(u, FALSE)
       ELSE vpc' = [vpc EXCEPT ![u] = "get"] /\ UNCHANGED result
  /\ UNCHANGED <<vars, req, sql, flag, rows, aborted>>

(* SqlConnRAII(&sql, ...): the constructor calls GetConn. *)
VerifyGet(u) ==
  /\ vpc[u] = "get"
  /\ \/ (GetConnBegin(u) \/ SemWait(u)) /\ UNCHANGED sql
     \/ Pop(u) /\ sql' = [sql EXCEPT ![u] = Head(conn_que_)]
  /\ aborted' = (upc'[u] = "idle")  \* a null handle from the queue: assert(sql)
  /\ UNCHANGED <<req, vpc, flag, rows, result>>

(* GetConn found the queue empty: assert(sql) fails. *)
VerifyGetEmpty(u) ==
  /\ vpc[u] = "get"
  /\ GetConnEmpty(u)
  /\ aborted' = TRUE
  /\ UNCHANGED <<req, vpc, sql, flag, rows, result>>

(* The temporary's destructor returns the handle before the next statement. *)
VerifyTempFree(u) ==
  /\ vpc[u] = "get"
  /\ FreePush(u)
  /\ UNCHANGED verifyVars

VerifyTempPost(u) ==
  /\ vpc[u] = "get"
  /\ FreePost(u)
  /\ vpc' = [vpc EXCEPT ![u] = "select"]
  /\ UNCHANGED <<req, sql, flag, rows, result, aborted>>

(* SELECT fails: return false, and no second FreeConn. *)
VerifySelectError(u) ==
  /\ vpc[u] = "select"
  /\ Return(u, FALSE)
  /\ UNCHANGED <<vars, req, sql, flag, rows, aborted>>

(* SELECT: a login wants the row with this password, a registration wants no
   row of this name. *)
VerifySelect(u) ==
  /\ vpc[u] = "select"
  /\ LET found == IF req[u].isLogin THEN Row(u) \in rows ELSE ~NameTaken(u) IN
       /\ flag' = [flag EXCEPT ![u] = found]
       /\ vpc' = [vpc EXCEPT ![u] = IF ~req[u].isLogin /\ found THEN "insert" ELSE "free"]
  /\ UNCHANGED <<vars, req, sql, rows, result, aborted>>

(* INSERT: it may fail, but flag = true follows the if that sets it to false. *)
VerifyInsert(u) ==
  /\ vpc[u] = "insert"
  /\ rows' \in {rows, rows \cup {Row(u)}}
  /\ flag' = [flag EXCEPT ![u] = TRUE]
  /\ vpc' = [vpc EXCEPT ![u] = "free"]
  /\ UNCHANGED <<vars, req, sql, result, aborted>>

(* FreeConn(sql) at line 291: push and post under the mutex ... *)
VerifyFree(u) ==
  /\ vpc[u] = "free"
  /\ upc[u] = "idle"
  /\ MutexFree
  /\ conn_que_' = Append(conn_que_, sql[u])
  /\ upc' = [upc EXCEPT ![u] = "post"]
  /\ UNCHANGED <<sem_id_, sql_, opened, alive, closed, verifyVars>>

(* ... and return flag. *)
VerifyReturn(u) ==
  /\ vpc[u] = "free"
  /\ FreePost(u)
  /\ Return(u, flag[u])
  /\ UNCHANGED <<req, sql, flag, rows, aborted>>

VerifyNext ==
  /\ ~aborted
  /\ \E u \in Users :
       \/ VerifyBegin(u) \/ VerifyGet(u) \/ VerifyGetEmpty(u)
       \/ VerifyTempFree(u) \/ VerifyTempPost(u)
       \/ VerifySelectError(u) \/ VerifySelect(u) \/ VerifyInsert(u)
       \/ VerifyFree(u) \/ VerifyReturn(u)

VerifySpec == VerifyInit /\ [][VerifyNext]_allVars

-------------------------------------------------------------------------------
(* What the code's comments say of it.                                       *)

Using(u) == vpc[u] \in {"select", "insert", "free"} /\ upc[u] = "idle"

(* "The resource is initialised when the object is constructed and released
   when it is destroyed" (sqlconnRAII.h:5): while a request uses its handle,
   the pool does not hand it to another one. *)
HandleNotShared ==
  \A u, v \in Users : Using(u) /\ Using(v) /\ sql[u] = sql[v] => u = v

(* "A registration, and the user name is not in use" (httprequest.cc:277): of
   the registrations of one name, one succeeds. *)
RegisteredOnce ==
  \A u, v \in Users :
     /\ result[u] = "yes" /\ ~req[u].isLogin
     /\ result[v] = "yes" /\ ~req[v].isLogin
     /\ req[u].name = req[v].name
     => u = v
===============================================================================

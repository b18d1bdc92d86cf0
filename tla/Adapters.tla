------------------------------ MODULE Adapters ------------------------------
(***************************************************************************)
(* What the five adapters (cdeh/adapters) do with an object, as the engine  *)
(* sees it: the fingerprint that stat and list give of it, and what calls   *)
(* that raise leave behind.  The content of an object is the version of the *)
(* source it was made from, 0 when it is missing or cut short.              *)
(***************************************************************************)
EXTENDS Naturals

Kinds == {"local", "s3", "azure_blob", "sftp", "mysql"}

(* The fingerprint of a version.  Digests and the etags of a cloud tell all  *)
(* versions apart.  A time of modification in seconds with a size, or what   *)
(* information_schema says of a table (its UPDATE_TIME may be missing), may  *)
(* stay the same: tick[v] is the stamp of version v.                         *)
LocalStat(tick, v) == v
S3Stat(tick, v) == v
AzureStat(tick, v) == v
SftpStat(tick, v) == IF v = 0 THEN 0 ELSE tick[v]
MysqlStat(tick, v) == IF v = 0 THEN 0 ELSE tick[v]

Stamp(kind, tick, v) ==
  CASE kind = "local" -> LocalStat(tick, v)
    [] kind = "s3" -> S3Stat(tick, v)
    [] kind = "azure_blob" -> AzureStat(tick, v)
    [] kind = "sftp" -> SftpStat(tick, v)
    [] kind = "mysql" -> MysqlStat(tick, v)

(* What a put of `new` over `old` may leave when it raises or is killed.     *)
(* Files are truncated (`cut`), then written; a cloud replaces the object or  *)
(* does not; the stat that ends a put may raise when all is written.  A       *)
(* MySQLAdapter is always built read-only.                                    *)
LocalPutLeaves(old, cut, new) == {old, cut, new}
S3PutLeaves(old, new) == {old, new}
AzurePutLeaves(old, new) == {old, new}
SftpPutLeaves(old, cut, new) == {old, cut, new}
MysqlPutLeaves(old) == {old}

PutLeaves(kind, old, cut, new) ==
  CASE kind = "local" -> LocalPutLeaves(old, cut, new)
    [] kind = "s3" -> S3PutLeaves(old, new)
    [] kind = "azure_blob" -> AzurePutLeaves(old, new)
    [] kind = "sftp" -> SftpPutLeaves(old, cut, new)
    [] kind = "mysql" -> MysqlPutLeaves(old)

Writable(kind) == kind # "mysql"

(* How a delete may end: the object is gone, it is kept and the error is     *)
(* swallowed (or an AdapterError, which the engine swallows), or an          *)
(* exception of the vendor's library reaches the engine.                     *)
LocalDelete == {"gone", "raises"}
S3Delete == {"gone", "kept", "raises"}
AzureDelete == {"gone", "kept"}
SftpDelete == {"gone", "kept", "raises"}
MysqlDelete == {"kept"}

DeleteEnds(kind) ==
  CASE kind = "local" -> LocalDelete
    [] kind = "s3" -> S3Delete
    [] kind = "azure_blob" -> AzureDelete
    [] kind = "sftp" -> SftpDelete
    [] kind = "mysql" -> MysqlDelete

(* Digests of two adapters that can be equal: MD5 of the content. *)
Md5(kind) == kind \in {"local", "s3"}

(* _is_https: `tls` holds the kinds whose endpoint is configured with https. *)
IsHttps(kind, tls) == kind \in {"local", "sftp"} \/ kind \in {"s3", "azure_blob"} \cap tls
=============================================================================

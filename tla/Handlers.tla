------------------------------ MODULE Handlers ------------------------------
(***************************************************************************)
(* The request handlers of the workers (src/RY/src/SwtRY): for each branch *)
(* of method and path, the statements it sends to MySQL in order, ending   *)
(* with its reply.  Reply(200) is the reply of a handler that came to its  *)
(* end, whose JSON in some handlers has no code.                           *)
(*                                                                         *)
(* Parameters: k is the key in the path or in the body, v the new content  *)
(* of a row or Nothing when the body gives no column to update (set or     *)
(* where stays empty); the others are named for the field of the request.  *)
(* A body that does not parse ends any handler before its first statement, *)
(* which is Refused.                                                       *)
(***************************************************************************)
EXTENDS Dbs

Nothing == -2

Do(c, p) == IF c THEN p ELSE <<>>
Each(seq, S(_)) == [i \in DOMAIN seq |-> S(seq[i])]

\* Mutant: the branch ends without a reply.
OkForgotten == <<>>

Ok         == <<Reply(200)>>
Refused    == <<Silent>>
NotAllowed == <<Reply(401)>>          \* validate_jwt_token fails
Unmatched  == <<Undefined>>           \* no branch: root unset, a part of the message freed
Fixed      == Ok                      \* a constant answer

Put(t, k, v)  == Do(v # Nothing, <<Must(Update(t, k, v)), Commit>>) \o Ok
Post(t, k, v) == <<Must(Insert(t, k, v)), Commit>> \o Ok
Del(t, k)     == <<Must(Delete(t, k)), Commit>> \o Ok
Get(t)        == <<Select(t)>> \o Ok

----------------------------------------------------------------------------
(* /system/user (system_user.c).  me is the user of the token, stray what  *)
(* an uninitialized buffer or struct holds.                                *)

\* Mutant: the commit is left out.
UserDeleteUncommitted(k) ==
  <<Must(Delete("sys_user", k)), Must(Delete("sys_user_post", k)),
    Must(Delete("sys_user_role", k))>> \o Ok

UserDelete(k) ==
  <<Must(Delete("sys_user", k)), Must(Delete("sys_user_post", k)),
    Must(Delete("sys_user_role", k)), Commit>> \o Ok
UserAvatar == Ok
UserImport == Ok
UserExport == <<Select("sys_user"), Peek("sys_dept")>> \o Ok

\* The loop over roleIds inserts the struct of the last post, which without
\* posts is uninitialized.
UserPost(k, name, postIds, roleIds, stray) ==
  LET AsPost(p) == Insert("sys_user_post", Found, p)
      AsRole(r) == IF postIds = <<>> THEN Insert("sys_user_role", stray[1], stray[2])
                   ELSE Insert("sys_user_role", Found, Last(postIds))
  IN <<Peek("sys_user"), Must(Insert("sys_user", k, name)), Find("sys_user", name)>>
     \o Each(postIds, AsPost) \o Each(roleIds, AsRole) \o <<Commit>> \o Ok

UserAuthRoleGet(k, dept) ==
  <<Must(Need("sys_user", k)), Must(Need("sys_dept", dept)),
    Select("sys_user_role"), Select("sys_role")>> \o Ok
UserNew == <<Select("sys_role"), Select("sys_post")>> \o Ok
UserDeptTree(root, dept, parent, admin) ==
  <<Must(Need("sys_dept", root))>>
  \o Do(~admin, <<Must(Need("sys_dept", dept)), Must(Need("sys_dept", parent))>>)
  \o Do(admin, <<Select("sys_dept")>>) \o Ok
UserList == <<Peek("sys_user"), Select("sys_user"), Peek("sys_dept")>> \o Ok
UserChangeStatus(k, v) == Put("sys_user", k, v)
UserProfileGet ==
  <<Peek("sys_user"), Peek("sys_dept"), Peek("sys_role"), Peek("sys_post")>> \o Ok

\* Every role and every post of the user must be enabled.
UserGet(k, dept) ==
  <<Must(Need("sys_user", k)), Must(Need("sys_dept", dept)),
    Must(NeedAll("sys_user_role", k)), Must(NeedAll("sys_user_post", k)),
    Select("sys_role"), Select("sys_post")>> \o Ok

UserProfilePut(me, v) == Put("sys_user", me, v)
UserPut(k, v, postIds, roleIds) ==
  LET AsPost(p) == Insert("sys_user_post", k, p)
      AsRole(r) == Insert("sys_user_role", k, r)
  IN Do(v # Nothing, <<Must(Update("sys_user", k, v))>>)
     \o <<Must(Delete("sys_user_post", k)), Must(Delete("sys_user_role", k))>>
     \o Each(postIds, AsPost) \o Each(roleIds, AsRole) \o <<Commit>> \o Ok
UserAuthRolePut(k, roleIds) ==
  LET AsRole(r) == Insert("sys_user_role", k, r)
  IN <<Must(Delete("sys_user_role", k))>> \o Each(roleIds, AsRole) \o <<Commit>> \o Ok

\* The password of a user that is not found is empty, and matches none.  The
\* update depends on the length of `set', which these two never fill.
UserUpdatePwd(me, v, right, stray) ==
  <<OrRefuse(Need("sys_user", me))>> \o
  IF right THEN Do(stray # 0, <<Must(Update("sys_user", me, v)), Commit>>) \o Ok
           ELSE <<Reply(500)>>
UserResetPwd(k, v, stray) == Do(stray # 0, <<Must(Update("sys_user", k, v)), Commit>>) \o Ok

----------------------------------------------------------------------------
(* /system/role (system_role.c) *)

RoleDelete(k) ==
  <<Must(Delete("sys_role", k)), Must(Delete("sys_role_menu", k)), Commit>> \o Ok
RoleAvatar == Ok
RoleImport == Ok
RoleExport == Get("sys_role")
RolePost(k, roleKey, menuIds) ==
  LET AsMenu(m) == Insert("sys_role_menu", Found, m)
  IN <<Peek("sys_user"), Must(Insert("sys_role", k, roleKey)), Find("sys_role", roleKey)>>
     \o Each(menuIds, AsMenu) \o <<Commit>> \o Ok
RoleUnallocated == <<Select("sys_user"), Select("sys_user_role")>> \o Ok
RoleAllocated   == <<Select("sys_user"), Select("sys_user_role")>> \o Ok
RoleList        == Get("sys_role")

\* The answer is printed before the 500 of a missing key is added to it.
RoleCancel(user, k) ==
  IF k = Nothing THEN Ok
                 ELSE <<Must(DeletePair("sys_user_role", user, k)), Commit>> \o Ok
RoleChangeStatus(k, v) == Put("sys_role", k, v)
RoleCancelAll(k, userIds) ==
  LET Off1(u) == Must(DeletePair("sys_user_role", u, k))
  IN Each(userIds, Off1) \o <<Commit>> \o Ok
RoleSelectAll(k, userIds) ==
  LET On1(u) == Must(Insert("sys_user_role", u, k))
  IN Each(userIds, On1) \o <<Commit>> \o Ok
RolePut(k, v, menuIds) ==
  LET AsMenu(m) == Insert("sys_role_menu", k, m)
  IN Do(v # Nothing, <<Must(Update("sys_role", k, v))>>)
     \o <<Must(Delete("sys_role_menu", k))>> \o Each(menuIds, AsMenu) \o <<Commit>> \o Ok
RoleGet(k) == <<Must(Need("sys_role", k))>> \o Ok
RoleDataScope(k, v) ==
  Do(v # Nothing, <<Must(Update("sys_role", k, v))>>) \o <<Commit>> \o Ok

----------------------------------------------------------------------------
(* /system/menu, /system/dept, /system/post *)

MenuDelete(k) ==
  <<Must(Delete("sys_menu", k)), Must(DeleteBy("sys_role_menu", k)), Commit>> \o Ok
MenuGet         == Get("sys_menu")
MenuList        == Get("sys_menu")
MenuTree        == Get("sys_menu")
MenuTreeOfRole  == <<Select("sys_role_menu"), Select("sys_menu")>> \o Ok
MenuRoleList    == Get("sys_role")
MenuPut(k, v)   == Put("sys_menu", k, v)
MenuPost(k, v)  == Post("sys_menu", k, v)

DeptDelete(k) ==
  <<Must(Delete("sys_dept", k)), Must(DeleteBy("sys_role_dept", k)), Commit>> \o Ok
DeptGet        == Get("sys_dept")
DeptList       == Get("sys_dept")
DeptPut(k, v)  == Put("sys_dept", k, v)
DeptPost(k, v) == Post("sys_dept", k, v)

PostDelete(k) ==
  <<Must(Delete("sys_post", k)), Must(DeleteBy("sys_user_post", k)), Commit>> \o Ok
PostGet        == Get("sys_post")
PostList       == Get("sys_post")
PostPut(k, v)  == Put("sys_post", k, v)
PostPost(k, v) == Post("sys_post", k, v)
PostExport     == Get("sys_post")

----------------------------------------------------------------------------
(* /system/config, /system/notice, /system/dict *)

ConfigRefresh    == Fixed
ConfigDelete(k)  == Del("sys_config", k)
ConfigGet        == Get("sys_config")
ConfigKey(name)  == <<Must(NeedBy("sys_config", name))>> \o Ok
ConfigList       == Get("sys_config")
ConfigPut(k, v)  == Put("sys_config", k, v)
ConfigPost(k, v) == Post("sys_config", k, v)
ConfigExport     == Get("sys_config")

NoticeRefresh    == Fixed
NoticeDelete(k)  == Del("sys_notice", k)
NoticeGet        == Get("sys_notice")
NoticeKey        == <<Must(Malformed("sys_notice"))>> \o Ok
NoticeList       == Get("sys_notice")
NoticePut(k, v)  == Put("sys_notice", k, v)
NoticePost(k, v) == Post("sys_notice", k, v)
NoticeExport     == Get("sys_notice")

DictTypeDelete(k)  == Del("sys_dict_type", k)
DictDataDelete(k)  == Del("sys_dict_data", k)

DictTypeRefresh    == Fixed
DictTypeGet        == Get("sys_dict_type")
DictTypeOptions    == Get("sys_dict_type")
DictTypeList       == Get("sys_dict_type")
DictTypePut(k, v)  == Put("sys_dict_type", k, v)
DictTypeExport     == Get("sys_dict_type")
DictTypePost(k, v) == Post("sys_dict_type", k, v)

DictDataRefresh    == Fixed
DictDataGet        == Get("sys_dict_data")
DictDataList       == Get("sys_dict_data")
DictDataPut(k, v)  == Put("sys_dict_data", k, v)
DictDataExport     == Get("sys_dict_data")
DictDataPost(k, v) == Post("sys_dict_data", k, v)
DictDataOfType(name) ==
  <<Must(NeedBy("sys_dict_type", name)), Select("sys_dict_data")>> \o Ok

----------------------------------------------------------------------------
(* /monitor *)

JobDelete(k)     == Del("sys_job", k)
JobGet           == Get("sys_job")
JobKey           == <<Must(Malformed("sys_job"))>> \o Ok
JobList          == Get("sys_job")
JobStatus(k, v)  == Put("sys_job", k, v)
JobPut(k, v)     == Put("sys_job", k, v)
JobPost(k, v)    == Post("sys_job", k, v)
JobExport        == Get("sys_job")

\* strcmp without !: every DELETE but /clean, of one line too, empties the table.
JobLogDelete     == <<Must(Truncate("sys_job_log")), Commit>> \o Ok
JobLogGet        == Get("sys_job_log")
JobLogList       == Get("sys_job_log")
JobLogExport     == Get("sys_job")

OperLogClean     == <<Must(Truncate("sys_oper_log")), Commit>> \o Ok
OperLogList      == Get("sys_oper_log")
OperLogExport    == Get("sys_oper_log")

LoginInfoClean   == <<Must(Truncate("sys_logininfor")), Commit>> \o Ok
LoginInfoUnlock  == Fixed
LoginInfoList    == Get("sys_logininfor")
LoginInfoExport  == Get("sys_logininfor")

ServerGet        == Fixed

----------------------------------------------------------------------------
(* The tables of the message configuration and the captcha.  But for      *)
(* tbl_srv_param, DELETE clears 2048 bytes of where[256]: what lies behind *)
(* it may matter (harm) or not.                                            *)

Overrun(t, k, harm) ==
  IF harm THEN Unmatched
          ELSE IF k = Nothing THEN Refused ELSE Del(t, k)

BufChgPost(k, v)      == Post("tbl_buf_chg", k, v)
BufChgGet             == Get("tbl_buf_chg")
BufChgPut(k, v)       == Put("tbl_buf_chg", k, v)
BufChgDelete(k, harm) == Overrun("tbl_buf_chg", k, harm)

BufDspPost(k, v)      == Post("tbl_buf_dsp", k, v)
BufDspGet             == <<Select("tbl_buf_dsp"), Select("tbl_fld_tsf")>> \o Ok
BufDspPut(k, v)       == Put("tbl_buf_dsp", k, v)
BufDspDelete(k, harm) == Overrun("tbl_buf_dsp", k, harm)

FldDspPost(k, v)      == Post("tbl_fld_dsp", k, v)
FldDspGet             == Get("tbl_fld_dsp")
FldDspPut(k, v)       == Put("tbl_fld_dsp", k, v)
FldDspDelete(k, harm) == Overrun("tbl_fld_dsp", k, harm)

FldTsfPost(k, v)      == Post("tbl_fld_tsf", k, v)
FldTsfGet             == Get("tbl_fld_tsf")
FldTsfPut(k, v)       == Put("tbl_fld_tsf", k, v)
FldTsfDelete(k, harm) == Overrun("tbl_fld_tsf", k, harm)

IpcDspPost(k, v)      == Post("tbl_xml_ipc_dsp", k, v)
IpcDspGet             == Get("tbl_xml_ipc_dsp")
IpcDspPut(k, v)       == Put("tbl_xml_ipc_dsp", k, v)
IpcDspDelete(k, harm) == Overrun("tbl_xml_ipc_dsp", k, harm)

IpcValuesPost(k, v)      == Post("tbl_xml_ipc_values", k, v)
IpcValuesGet             == Get("tbl_xml_ipc_values")
IpcValuesPut(k, v)       == Put("tbl_xml_ipc_values", k, v)
IpcValuesDelete(k, harm) == Overrun("tbl_xml_ipc_values", k, harm)

CaptchaPost(k, v)      == Post("sys_config", k, v)
CaptchaGet             == Get("sys_config")
CaptchaPut(k, v)       == Put("sys_config", k, v)
CaptchaDelete(k, harm) == Overrun("sys_config", k, harm)

\* An array of keys: the error of a deletion is ignored.
ParamDeleteAll(ks) ==
  LET Gone(k) == Delete("tbl_srv_param", k) IN Each(ks, Gone) \o <<Commit>> \o Ok
ParamDelete(k) == IF k = Nothing THEN <<Reply(500)>> ELSE Del("tbl_srv_param", k)
ParamList      == Get("tbl_srv_param")
ParamPut(k, v) == Put("tbl_srv_param", k, v)

\* The answer is printed before the INSERT, whose 500 it does not show.
ParamPost(k, v) == <<OrEcho(Insert("tbl_srv_param", k, v)), Commit>> \o Ok

----------------------------------------------------------------------------
(* /login, /getInfo, /getRouters *)

\* Without the user the answer is the request's own buffer, which is then
\* freed; without the department the session is stored from a null string.
Login(name, dept, right) ==
  <<OrStray(NeedBy("sys_user", name))>> \o
  IF right THEN <<OrStray(NeedBy("sys_user", name)), OrStray(Need("sys_dept", dept)),
                  Select("sys_user_role"), Select("sys_role")>> \o Ok
           ELSE <<Reply(500)>>
GetInfo == <<Peek("sys_user"), Peek("sys_dept"), Peek("sys_user_role"), Peek("sys_role")>> \o Ok
GetRouters(me) ==
  <<Must(Need("sys_user", me)), Select("sys_menu"), Select("sys_role_menu"),
    Select("sys_user_role")>> \o Ok
=============================================================================

------------------------------ MODULE MCSwitch ------------------------------
(***************************************************************************)
(* Instances of Switch.  Users, roles, menus, posts and departments are 1, *)
(* 2, 3; the name of row k is 10 + k; new rows of request r have the key   *)
(* 10 * r, as auto-increment keys are never given twice.                   *)
(***************************************************************************)
EXTENDS SwitchRefines, Handlers

Name(k) == 10 + k

Rows(t, keys) == {<<t, k, Name(k)>> : k \in keys}
UserRows ==
  UNION {Rows("sys_user", {1, 2}), Rows("sys_dept", {2}), Rows("sys_role", {1, 2}),
         Rows("sys_post", {1, 2, 3}), Rows("sys_job_log", {1}), Rows("tbl_srv_param", {1}),
         {<<"sys_user_role", 2, 2>>, <<"sys_user_post", 2, 1>>}}
AllRows ==
  UNION {UserRows, Rows("sys_dept", {1}), Rows("sys_menu", {1, 2}),
         {<<"sys_user_role", 1, 1>>, <<"sys_role_menu", 1, 1>>, <<"sys_role_menu", 2, 1>>,
          <<"sys_role_dept", 2, 1>>},
         UNION {Rows(t, {1}) : t \in {"sys_config", "sys_notice", "sys_dict_type",
           "sys_dict_data", "sys_job", "sys_oper_log", "sys_logininfor",
           "tbl_buf_chg", "tbl_buf_dsp", "tbl_fld_dsp", "tbl_fld_tsf", "tbl_xml_ipc_dsp",
           "tbl_xml_ipc_values"}}}

UserWrites(r) ==
  {UserDelete(2), UserPost(10 * r, Name(10 * r), <<3>>, <<2>>, <<0, 0>>),
   UserPost(10 * r, Name(2), <<1, 2>>, <<>>, <<0, 0>>),
   UserPost(10 * r, Name(9), <<>>, <<1>>, <<2, 7>>),
   UserChangeStatus(2, Off), UserProfilePut(2, Name(4)), UserPut(2, Name(5), <<2>>, <<1>>),
   UserPut(2, Name(2), <<>>, <<>>), UserAuthRolePut(2, <<1, 2>>),
   UserUpdatePwd(2, Name(2), TRUE, 1), UserUpdatePwd(2, Name(2), TRUE, 0),
   UserUpdatePwd(2, Name(2), FALSE, 1), UserResetPwd(2, Name(2), 1), UserResetPwd(2, Name(2), 0)}
UserReads ==
  {UserExport, UserAvatar, UserImport, UserAuthRoleGet(2, 2), UserNew,
   UserDeptTree(1, 2, 1, TRUE), UserDeptTree(1, 2, 1, FALSE), UserList, UserProfileGet,
   UserGet(2, 2), GetInfo, GetRouters(2), Login(Name(2), 2, TRUE), Login(Name(2), 2, FALSE)}

RoleWrites(r) ==
  {RoleDelete(2), RolePost(10 * r, Name(10 * r), <<1, 2>>), RolePost(10 * r, Name(2), <<1>>),
   RoleCancel(2, 2), RoleCancel(2, Nothing), RoleChangeStatus(2, Off), RoleCancelAll(2, <<1, 2>>),
   RoleSelectAll(2, <<1>>), RolePut(2, Name(3), <<2>>), RolePut(2, Name(2), <<>>),
   RoleDataScope(2, Name(4)), RoleDataScope(2, Nothing),
   MenuDelete(1), MenuPut(1, Off), MenuPost(10 * r, 0),
   DeptDelete(1), DeptPut(2, Off), DeptPost(10 * r, 0),
   PostDelete(1), PostPut(1, Off), PostPost(10 * r, 0)}
RoleReads ==
  {RoleAvatar, RoleImport, RoleExport, RoleUnallocated, RoleAllocated, RoleList, RoleGet(2),
   MenuGet, MenuList, MenuTree, MenuTreeOfRole, MenuRoleList,
   DeptGet, DeptList, PostGet, PostList, PostExport}

OtherWrites(r) ==
  {ConfigDelete(1), ConfigPut(1, 5), ConfigPost(10 * r, 6), NoticeDelete(1), NoticePut(1, 5),
   NoticePost(10 * r, 6), DictTypeDelete(1), DictTypePut(1, 5), DictTypePost(10 * r, Name(1)),
   DictDataDelete(1), DictDataPut(1, 5), DictDataPost(10 * r, 6), JobDelete(1), JobStatus(1, Off),
   JobPut(1, 5), JobPost(10 * r, 6), JobLogDelete, OperLogClean, LoginInfoClean,
   CaptchaPost(10 * r, 6), CaptchaPut(1, 5), CaptchaDelete(1, FALSE), CaptchaDelete(Nothing, FALSE),
   ParamDeleteAll(<<1, 2>>), ParamDelete(1), ParamDelete(Nothing), ParamPut(1, 5),
   ParamPut(1, Nothing), ParamPost(10 * r, 6), ParamPost(1, 5)}
BufferWrites ==
  {BufChgPost(1, 5), BufChgPut(1, 5), BufChgDelete(1, FALSE), BufDspPost(2, 5), BufDspPut(1, 5),
   BufDspDelete(1, FALSE), FldDspPost(2, 5), FldDspPut(1, 5), FldDspDelete(1, FALSE),
   FldTsfPost(2, 5), FldTsfPut(1, 5), FldTsfDelete(1, FALSE), IpcDspPost(2, 5), IpcDspPut(1, 5),
   IpcDspDelete(1, FALSE), IpcValuesPost(2, 5), IpcValuesPut(1, Nothing), IpcValuesDelete(1, FALSE)}
OtherReads ==
  {ConfigRefresh, ConfigGet, ConfigKey(Name(1)), ConfigList, ConfigExport, NoticeRefresh,
   NoticeGet, NoticeKey, NoticeList, NoticeExport, DictTypeRefresh, DictTypeGet, DictTypeOptions,
   DictTypeList, DictTypeExport, DictDataRefresh, DictDataGet, DictDataList, DictDataExport,
   DictDataOfType(Name(1)), JobGet, JobKey, JobList, JobExport, JobLogGet, JobLogList,
   JobLogExport, OperLogList, OperLogExport, LoginInfoUnlock, LoginInfoList, LoginInfoExport,
   ServerGet, BufChgGet, BufDspGet, FldDspGet, FldTsfGet, IpcDspGet, IpcValuesGet, CaptchaGet,
   ParamList, NotAllowed, Refused}
Astray == {Unmatched, Login(Name(8), 2, TRUE), BufChgDelete(1, TRUE)}

\* Two requests, each any branch of any handler.
Handled(r) ==
  UserWrites(r) \cup UserReads \cup RoleWrites(r) \cup RoleReads \cup OtherWrites(r)
  \cup BufferWrites \cup OtherReads \cup Astray
AllAsks == <<Handled(1), Handled(2)>>

\* Handlers of several statements on the same rows.
Faulty(r) ==
  {UserDelete(2), UserPut(2, Name(5), <<2>>, <<1>>), RoleSelectAll(2, <<1, 2>>),
   UserPost(10 * r, Name(10 * r), <<3>>, <<2>>, <<0, 0>>), UserGet(2, 2), JobLogDelete,
   ParamPost(1, 5), Unmatched, Refused}
FaultAsks == <<Faulty(1), Faulty(2)>>

\* A new user with a post and a role.
NewUser(r) ==
  {UserPost(10 * r, Name(10 * r), <<3>>, <<2>>, <<0, 0>>),
   UserAuthRolePut(2, <<1, 2>>), UserPut(2, Name(5), <<2>>, <<1>>)}
NewUserAsks == <<NewUser(1), NewUser(2)>>
=============================================================================

---------------------------- MODULE NcclHandlers ----------------------------
(*****************************************************************************)
(* The generated NCCL handlers of the server, codegen/gen_nccl_server.inc,   *)
(* for the requests the stubs of NcclStubs send.                             *)
(*****************************************************************************)
EXTENDS RpcFields

handle_ncclMemAlloc ==
  Reply(<<F("size", "size_t")>>, <<F("ptr", "void*"), F("return_value", "ncclResult_t")>>)

handle_ncclMemFree ==
  Reply(<<F("ptr", "void*")>>, <<F("return_value", "ncclResult_t")>>)

handle_ncclGetVersion ==
  Reply(<<>>, <<F("version", "int"), F("return_value", "ncclResult_t")>>)

handle_ncclGetUniqueId ==
  Reply(<<>>, <<F("uniqueId", "ncclUniqueId"), F("return_value", "ncclResult_t")>>)

handle_ncclCommInitRankConfig ==
  Reply(<<F("nranks", "int"), F("commId", "ncclUniqueId"), F("rank", "int"),
      F("config_size", "uint64_t"), Arr("config", "byte", {"config_size"}),
      F("config_netName_len", "uint32_t"), Arr("config.netName", "byte", {"config_netName_len"}),
      F("config_commName_len", "uint32_t"),
      Arr("config.commName", "byte", {"config_commName_len"})>>,
    <<F("comm", "ncclComm_t"), F("return_value", "ncclResult_t")>>)

handle_ncclCommInitRank ==
  Reply(<<F("nranks", "int"), F("commId", "ncclUniqueId"), F("rank", "int")>>,
    <<F("comm", "ncclComm_t"), F("return_value", "ncclResult_t")>>)

handle_ncclCommInitAll ==
  Reply(<<F("ndev", "int"), NonNegative("ndev"), AllocArr("comm", {"ndev"}), NonNegative("ndev"),
      F("devlist_null", "uint8_t"), AllocArrUnless("devlist_null", "devlist", {"ndev"}),
      ArrUnless("devlist_null", "devlist", "int", {"ndev"})>>,
    <<Arr("comm", "ncclComm_t", {"ndev"}), F("return_value", "ncclResult_t")>>)

handle_ncclCommFinalize ==
  Reply(<<F("comm", "ncclComm_t")>>, <<F("return_value", "ncclResult_t")>>)

handle_ncclCommDestroy ==
  Reply(<<F("comm", "ncclComm_t")>>, <<F("return_value", "ncclResult_t")>>)

handle_ncclCommAbort ==
  Reply(<<F("comm", "ncclComm_t")>>, <<F("return_value", "ncclResult_t")>>)

handle_ncclCommRevoke ==
  Reply(<<F("comm", "ncclComm_t"), F("revokeFlags", "int")>>, <<F("return_value", "ncclResult_t")>>)

handle_ncclCommSplit ==
  Reply(<<F("comm", "ncclComm_t"), F("color", "int"), F("key", "int"), F("config_size", "uint64_t"),
      Arr("config", "byte", {"config_size"}), F("config_netName_len", "uint32_t"),
      Arr("config.netName", "byte", {"config_netName_len"}), F("config_commName_len", "uint32_t"),
      Arr("config.commName", "byte", {"config_commName_len"})>>,
    <<F("newcomm", "ncclComm_t"), F("return_value", "ncclResult_t")>>)

handle_ncclCommShrink ==
  Reply(<<F("comm", "ncclComm_t"), F("excludeRanksCount", "int"), NonNegative("excludeRanksCount"),
      AllocArr("excludeRanksList", {"excludeRanksCount"}),
      Arr("excludeRanksList", "int", {"excludeRanksCount"}), F("config_size", "uint64_t"),
      Arr("config", "byte", {"config_size"}), F("config_netName_len", "uint32_t"),
      Arr("config.netName", "byte", {"config_netName_len"}), F("config_commName_len", "uint32_t"),
      Arr("config.commName", "byte", {"config_commName_len"}), F("shrinkFlags", "int")>>,
    <<F("newcomm", "ncclComm_t"), F("return_value", "ncclResult_t")>>)

handle_ncclCommGetUniqueId ==
  Reply(<<F("comm", "ncclComm_t")>>,
    <<F("uniqueId", "ncclUniqueId"), F("return_value", "ncclResult_t")>>)

handle_ncclCommGrow ==
  Reply(<<F("comm", "ncclComm_t"), F("nRanks", "int"), F("uniqueId_present", "uint8_t"),
      FIf("uniqueId_present", "uniqueId", "ncclUniqueId"), F("rank", "int"),
      F("config_size", "uint64_t"), Arr("config", "byte", {"config_size"}),
      F("config_netName_len", "uint32_t"), Arr("config.netName", "byte", {"config_netName_len"}),
      F("config_commName_len", "uint32_t"),
      Arr("config.commName", "byte", {"config_commName_len"})>>,
    <<F("newcomm", "ncclComm_t"), F("return_value", "ncclResult_t")>>)

handle_ncclCommInitRankScalable ==
  Reply(<<F("nranks", "int"), F("myrank", "int"), F("nId", "int"), NonNegative("nId"),
      AllocArr("commIds", {"nId"}), Arr("commIds", "ncclUniqueId", {"nId"}),
      F("config_size", "uint64_t"), Arr("config", "byte", {"config_size"}),
      F("config_netName_len", "uint32_t"), Arr("config.netName", "byte", {"config_netName_len"}),
      F("config_commName_len", "uint32_t"),
      Arr("config.commName", "byte", {"config_commName_len"})>>,
    <<F("newcomm", "ncclComm_t"), F("return_value", "ncclResult_t")>>)

handle_ncclResetDebugInit ==
  Reply(<<>>, <<>>)

handle_ncclCommGetAsyncError ==
  Reply(<<F("comm", "ncclComm_t")>>,
    <<F("asyncError", "ncclResult_t"), F("return_value", "ncclResult_t")>>)

handle_ncclCommCount ==
  Reply(<<F("comm", "ncclComm_t")>>, <<F("count", "int"), F("return_value", "ncclResult_t")>>)

handle_ncclCommCuDevice ==
  Reply(<<F("comm", "ncclComm_t")>>, <<F("device", "int"), F("return_value", "ncclResult_t")>>)

handle_ncclCommUserRank ==
  Reply(<<F("comm", "ncclComm_t")>>, <<F("rank", "int"), F("return_value", "ncclResult_t")>>)

handle_ncclCommRegister ==
  Reply(<<F("comm", "ncclComm_t"), F("buff", "void*"), F("size", "size_t")>>,
    <<F("handle", "void*"), F("return_value", "ncclResult_t")>>)

handle_ncclCommDeregister ==
  Reply(<<F("comm", "ncclComm_t"), F("handle", "void*")>>, <<F("return_value", "ncclResult_t")>>)

handle_ncclCommSuspend ==
  Reply(<<F("comm", "ncclComm_t"), F("flags", "int")>>, <<F("return_value", "ncclResult_t")>>)

handle_ncclCommResume ==
  Reply(<<F("comm", "ncclComm_t")>>, <<F("return_value", "ncclResult_t")>>)

handle_ncclCommMemStats ==
  Reply(<<F("comm", "ncclComm_t"), F("stat", "ncclCommMemStat_t")>>,
    <<F("value", "uint64_t"), F("return_value", "ncclResult_t")>>)

handle_ncclCommWindowRegister ==
  Reply(<<F("comm", "ncclComm_t"), F("buff", "void*"), F("size", "size_t"), F("winFlags", "int")>>,
    <<F("win", "ncclWindow_t"), F("return_value", "ncclResult_t")>>)

handle_ncclCommWindowDeregister ==
  Reply(<<F("comm", "ncclComm_t"), F("win", "ncclWindow_t")>>,
    <<F("return_value", "ncclResult_t")>>)

handle_ncclWinGetUserPtr ==
  Reply(<<F("comm", "ncclComm_t"), F("win", "ncclWindow_t")>>,
    <<F("outUserPtr", "void*"), F("return_value", "ncclResult_t")>>)

handle_ncclGetLsaMultimemDevicePointer ==
  Reply(<<F("window", "ncclWindow_t"), F("offset", "size_t")>>,
    <<F("outPtr", "void*"), F("return_value", "ncclResult_t")>>)

handle_ncclGetPeerDevicePointer ==
  Reply(<<F("window", "ncclWindow_t"), F("offset", "size_t"), F("peer", "int")>>,
    <<F("outPtr", "void*"), F("return_value", "ncclResult_t")>>)

handle_ncclRedOpCreatePreMulSum ==
  Reply(<<F("scalar_width", "uint32_t"), FUnless("scalar_width", "scalar", "void*"),
      Arr("scalar", "byte", {"scalar_width"}), F("datatype", "ncclDataType_t"),
      F("residence", "ncclScalarResidence_t"), F("comm", "ncclComm_t")>>,
    <<F("op", "ncclRedOp_t"), F("return_value", "ncclResult_t")>>)

handle_ncclRedOpDestroy ==
  Reply(<<F("op", "ncclRedOp_t"), F("comm", "ncclComm_t")>>, <<F("return_value", "ncclResult_t")>>)

handle_ncclReduce ==
  ReplyOrRun(<<F("async_sequence", "uint64_t"), F("sendbuff", "void*"), F("recvbuff", "void*"),
      F("count", "size_t"), F("datatype", "ncclDataType_t"), F("op", "ncclRedOp_t"),
      F("root", "int"), F("comm", "ncclComm_t"), F("stream", "cudaStream_t")>>,
    <<F("return_value", "ncclResult_t")>>)

handle_ncclBcast ==
  ReplyOrRun(<<F("async_sequence", "uint64_t"), F("buff", "void*"), F("count", "size_t"),
      F("datatype", "ncclDataType_t"), F("root", "int"), F("comm", "ncclComm_t"),
      F("stream", "cudaStream_t")>>,
    <<F("return_value", "ncclResult_t")>>)

handle_ncclBroadcast ==
  ReplyOrRun(<<F("async_sequence", "uint64_t"), F("sendbuff", "void*"), F("recvbuff", "void*"),
      F("count", "size_t"), F("datatype", "ncclDataType_t"), F("root", "int"),
      F("comm", "ncclComm_t"), F("stream", "cudaStream_t")>>,
    <<F("return_value", "ncclResult_t")>>)

handle_ncclAllReduce ==
  ReplyOrRun(<<F("async_sequence", "uint64_t"), F("sendbuff", "void*"), F("recvbuff", "void*"),
      F("count", "size_t"), F("datatype", "ncclDataType_t"), F("op", "ncclRedOp_t"),
      F("comm", "ncclComm_t"), F("stream", "cudaStream_t")>>,
    <<F("return_value", "ncclResult_t")>>)

handle_ncclReduceScatter ==
  ReplyOrRun(<<F("async_sequence", "uint64_t"), F("sendbuff", "void*"), F("recvbuff", "void*"),
      F("recvcount", "size_t"), F("datatype", "ncclDataType_t"), F("op", "ncclRedOp_t"),
      F("comm", "ncclComm_t"), F("stream", "cudaStream_t")>>,
    <<F("return_value", "ncclResult_t")>>)

handle_ncclAllGather ==
  ReplyOrRun(<<F("async_sequence", "uint64_t"), F("sendbuff", "void*"), F("recvbuff", "void*"),
      F("sendcount", "size_t"), F("datatype", "ncclDataType_t"), F("comm", "ncclComm_t"),
      F("stream", "cudaStream_t")>>,
    <<F("return_value", "ncclResult_t")>>)

handle_ncclAlltoAll ==
  ReplyOrRun(<<F("async_sequence", "uint64_t"), F("sendbuff", "void*"), F("recvbuff", "void*"),
      F("count", "size_t"), F("datatype", "ncclDataType_t"), F("comm", "ncclComm_t"),
      F("stream", "cudaStream_t")>>,
    <<F("return_value", "ncclResult_t")>>)

handle_ncclGather ==
  ReplyOrRun(<<F("async_sequence", "uint64_t"), F("sendbuff", "void*"), F("recvbuff", "void*"),
      F("count", "size_t"), F("datatype", "ncclDataType_t"), F("root", "int"),
      F("comm", "ncclComm_t"), F("stream", "cudaStream_t")>>,
    <<F("return_value", "ncclResult_t")>>)

handle_ncclScatter ==
  ReplyOrRun(<<F("async_sequence", "uint64_t"), F("sendbuff", "void*"), F("recvbuff", "void*"),
      F("count", "size_t"), F("datatype", "ncclDataType_t"), F("root", "int"),
      F("comm", "ncclComm_t"), F("stream", "cudaStream_t")>>,
    <<F("return_value", "ncclResult_t")>>)

handle_ncclAllReduceConfig ==
  ReplyOrRun(<<F("async_sequence", "uint64_t"), F("sendbuff", "void*"), F("recvbuff", "void*"),
      F("count", "size_t"), F("datatype", "ncclDataType_t"), F("op", "ncclRedOp_t"),
      F("comm", "ncclComm_t"), F("stream", "cudaStream_t"), F("config_size", "uint64_t"),
      Arr("config", "byte", {"config_size"}), F("config_algSelection_len", "uint32_t"),
      Arr("config.algSelection", "byte", {"config_algSelection_len"})>>,
    <<F("return_value", "ncclResult_t")>>)

handle_ncclBroadcastConfig ==
  ReplyOrRun(<<F("async_sequence", "uint64_t"), F("sendbuff", "void*"), F("recvbuff", "void*"),
      F("count", "size_t"), F("datatype", "ncclDataType_t"), F("root", "int"),
      F("comm", "ncclComm_t"), F("stream", "cudaStream_t"), F("config_size", "uint64_t"),
      Arr("config", "byte", {"config_size"}), F("config_algSelection_len", "uint32_t"),
      Arr("config.algSelection", "byte", {"config_algSelection_len"})>>,
    <<F("return_value", "ncclResult_t")>>)

handle_ncclReduceConfig ==
  ReplyOrRun(<<F("async_sequence", "uint64_t"), F("sendbuff", "void*"), F("recvbuff", "void*"),
      F("count", "size_t"), F("datatype", "ncclDataType_t"), F("op", "ncclRedOp_t"),
      F("root", "int"), F("comm", "ncclComm_t"), F("stream", "cudaStream_t"),
      F("config_size", "uint64_t"), Arr("config", "byte", {"config_size"}),
      F("config_algSelection_len", "uint32_t"),
      Arr("config.algSelection", "byte", {"config_algSelection_len"})>>,
    <<F("return_value", "ncclResult_t")>>)

handle_ncclAllGatherConfig ==
  ReplyOrRun(<<F("async_sequence", "uint64_t"), F("sendbuff", "void*"), F("recvbuff", "void*"),
      F("sendcount", "size_t"), F("datatype", "ncclDataType_t"), F("comm", "ncclComm_t"),
      F("stream", "cudaStream_t"), F("config_size", "uint64_t"),
      Arr("config", "byte", {"config_size"}), F("config_algSelection_len", "uint32_t"),
      Arr("config.algSelection", "byte", {"config_algSelection_len"})>>,
    <<F("return_value", "ncclResult_t")>>)

handle_ncclReduceScatterConfig ==
  ReplyOrRun(<<F("async_sequence", "uint64_t"), F("sendbuff", "void*"), F("recvbuff", "void*"),
      F("recvcount", "size_t"), F("datatype", "ncclDataType_t"), F("op", "ncclRedOp_t"),
      F("comm", "ncclComm_t"), F("stream", "cudaStream_t"), F("config_size", "uint64_t"),
      Arr("config", "byte", {"config_size"}), F("config_algSelection_len", "uint32_t"),
      Arr("config.algSelection", "byte", {"config_algSelection_len"})>>,
    <<F("return_value", "ncclResult_t")>>)

handle_ncclAlltoAllConfig ==
  ReplyOrRun(<<F("async_sequence", "uint64_t"), F("sendbuff", "void*"), F("recvbuff", "void*"),
      F("count", "size_t"), F("datatype", "ncclDataType_t"), F("comm", "ncclComm_t"),
      F("stream", "cudaStream_t"), F("config_size", "uint64_t"),
      Arr("config", "byte", {"config_size"}), F("config_algSelection_len", "uint32_t"),
      Arr("config.algSelection", "byte", {"config_algSelection_len"})>>,
    <<F("return_value", "ncclResult_t")>>)

handle_ncclGatherConfig ==
  ReplyOrRun(<<F("async_sequence", "uint64_t"), F("sendbuff", "void*"), F("recvbuff", "void*"),
      F("count", "size_t"), F("datatype", "ncclDataType_t"), F("root", "int"),
      F("comm", "ncclComm_t"), F("stream", "cudaStream_t"), F("config_size", "uint64_t"),
      Arr("config", "byte", {"config_size"}), F("config_algSelection_len", "uint32_t"),
      Arr("config.algSelection", "byte", {"config_algSelection_len"})>>,
    <<F("return_value", "ncclResult_t")>>)

handle_ncclScatterConfig ==
  ReplyOrRun(<<F("async_sequence", "uint64_t"), F("sendbuff", "void*"), F("recvbuff", "void*"),
      F("count", "size_t"), F("datatype", "ncclDataType_t"), F("root", "int"),
      F("comm", "ncclComm_t"), F("stream", "cudaStream_t"), F("config_size", "uint64_t"),
      Arr("config", "byte", {"config_size"}), F("config_algSelection_len", "uint32_t"),
      Arr("config.algSelection", "byte", {"config_algSelection_len"})>>,
    <<F("return_value", "ncclResult_t")>>)

handle_ncclSend ==
  ReplyOrRun(<<F("async_sequence", "uint64_t"), F("sendbuff", "void*"), F("count", "size_t"),
      F("datatype", "ncclDataType_t"), F("peer", "int"), F("comm", "ncclComm_t"),
      F("stream", "cudaStream_t")>>,
    <<F("return_value", "ncclResult_t")>>)

handle_ncclRecv ==
  ReplyOrRun(<<F("async_sequence", "uint64_t"), F("recvbuff", "void*"), F("count", "size_t"),
      F("datatype", "ncclDataType_t"), F("peer", "int"), F("comm", "ncclComm_t"),
      F("stream", "cudaStream_t")>>,
    <<F("return_value", "ncclResult_t")>>)

handle_ncclPutSignal ==
  ReplyOrRun(<<F("async_sequence", "uint64_t"), F("localbuff", "void*"), F("count", "size_t"),
      F("datatype", "ncclDataType_t"), F("peer", "int"), F("peerWin", "ncclWindow_t"),
      F("peerWinOffset", "size_t"), F("sigIdx", "int"), F("ctx", "int"), F("flags", "unsigned int"),
      F("comm", "ncclComm_t"), F("stream", "cudaStream_t")>>,
    <<F("return_value", "ncclResult_t")>>)

handle_ncclSignal ==
  ReplyOrRun(<<F("async_sequence", "uint64_t"), F("peer", "int"), F("sigIdx", "int"),
      F("ctx", "int"), F("flags", "unsigned int"), F("comm", "ncclComm_t"),
      F("stream", "cudaStream_t")>>,
    <<F("return_value", "ncclResult_t")>>)

handle_ncclWaitSignal ==
  ReplyOrRun(<<F("async_sequence", "uint64_t"), F("nDesc", "int"), NonNegative("nDesc"),
      AllocArr("signalDescs", {"nDesc"}), Arr("signalDescs", "ncclWaitSignalDesc_t", {"nDesc"}),
      F("comm", "ncclComm_t"), F("stream", "cudaStream_t")>>,
    <<F("return_value", "ncclResult_t")>>)

handle_ncclGroupStart ==
  ReplyOrRun(<<F("async_sequence", "uint64_t")>>, <<F("return_value", "ncclResult_t")>>)

handle_ncclGroupEnd ==
  Reply(<<>>, <<F("return_value", "ncclResult_t")>>)

handle_ncclGroupSimulateEnd ==
  Reply(<<F("simInfo", "ncclSimInfo_t")>>,
    <<F("simInfo", "ncclSimInfo_t"), F("return_value", "ncclResult_t")>>)

handle_ncclParamBind ==
  Reply(<<F("key_len", "size_t"), AllocArr("key", {"key_len"}), Arr("key", "byte", {"key_len"})>>,
    <<F("out", "ncclParamHandle_t"), F("return_value", "ncclResult_t")>>)

handle_ncclParamGetI8 ==
  Reply(<<F("h", "ncclParamHandle_t")>>, <<F("out", "int8_t"), F("return_value", "ncclResult_t")>>)

handle_ncclParamGetI16 ==
  Reply(<<F("h", "ncclParamHandle_t")>>, <<F("out", "int16_t"), F("return_value", "ncclResult_t")>>)

handle_ncclParamGetI32 ==
  Reply(<<F("h", "ncclParamHandle_t")>>, <<F("out", "int32_t"), F("return_value", "ncclResult_t")>>)

handle_ncclParamGetI64 ==
  Reply(<<F("h", "ncclParamHandle_t")>>, <<F("out", "int64_t"), F("return_value", "ncclResult_t")>>)

handle_ncclParamGetU8 ==
  Reply(<<F("h", "ncclParamHandle_t")>>, <<F("out", "uint8_t"), F("return_value", "ncclResult_t")>>)

handle_ncclParamGetU16 ==
  Reply(<<F("h", "ncclParamHandle_t")>>,
    <<F("out", "uint16_t"), F("return_value", "ncclResult_t")>>)

handle_ncclParamGetU32 ==
  Reply(<<F("h", "ncclParamHandle_t")>>,
    <<F("out", "uint32_t"), F("return_value", "ncclResult_t")>>)

handle_ncclParamGetU64 ==
  Reply(<<F("h", "ncclParamHandle_t")>>,
    <<F("out", "uint64_t"), F("return_value", "ncclResult_t")>>)

handle_ncclParamGet ==
  Reply(<<F("h", "ncclParamHandle_t"), F("maxLen", "int"), NonNegative("maxLen"),
      AllocArr("out", {"maxLen"}), Arr("out", "byte", {"maxLen"})>>,
    <<Arr("out", "byte", {"maxLen"}), F("len", "int"), F("return_value", "ncclResult_t")>>)

handle_ncclParamDumpAll ==
  Reply(<<>>, <<>>)

NcclHandlersTable ==
  [ncclMemAlloc |-> handle_ncclMemAlloc, ncclMemFree |-> handle_ncclMemFree,
   ncclGetVersion |-> handle_ncclGetVersion, ncclGetUniqueId |-> handle_ncclGetUniqueId,
   ncclCommInitRankConfig |-> handle_ncclCommInitRankConfig,
   ncclCommInitRank |-> handle_ncclCommInitRank, ncclCommInitAll |-> handle_ncclCommInitAll,
   ncclCommFinalize |-> handle_ncclCommFinalize, ncclCommDestroy |-> handle_ncclCommDestroy,
   ncclCommAbort |-> handle_ncclCommAbort, ncclCommRevoke |-> handle_ncclCommRevoke,
   ncclCommSplit |-> handle_ncclCommSplit, ncclCommShrink |-> handle_ncclCommShrink,
   ncclCommGetUniqueId |-> handle_ncclCommGetUniqueId, ncclCommGrow |-> handle_ncclCommGrow,
   ncclCommInitRankScalable |-> handle_ncclCommInitRankScalable,
   ncclResetDebugInit |-> handle_ncclResetDebugInit,
   ncclCommGetAsyncError |-> handle_ncclCommGetAsyncError, ncclCommCount |-> handle_ncclCommCount,
   ncclCommCuDevice |-> handle_ncclCommCuDevice, ncclCommUserRank |-> handle_ncclCommUserRank,
   ncclCommRegister |-> handle_ncclCommRegister, ncclCommDeregister |-> handle_ncclCommDeregister,
   ncclCommSuspend |-> handle_ncclCommSuspend, ncclCommResume |-> handle_ncclCommResume,
   ncclCommMemStats |-> handle_ncclCommMemStats,
   ncclCommWindowRegister |-> handle_ncclCommWindowRegister,
   ncclCommWindowDeregister |-> handle_ncclCommWindowDeregister,
   ncclWinGetUserPtr |-> handle_ncclWinGetUserPtr,
   ncclGetLsaMultimemDevicePointer |-> handle_ncclGetLsaMultimemDevicePointer,
   ncclGetPeerDevicePointer |-> handle_ncclGetPeerDevicePointer,
   ncclRedOpCreatePreMulSum |-> handle_ncclRedOpCreatePreMulSum,
   ncclRedOpDestroy |-> handle_ncclRedOpDestroy, ncclReduce |-> handle_ncclReduce,
   ncclBcast |-> handle_ncclBcast, ncclBroadcast |-> handle_ncclBroadcast,
   ncclAllReduce |-> handle_ncclAllReduce, ncclReduceScatter |-> handle_ncclReduceScatter,
   ncclAllGather |-> handle_ncclAllGather, ncclAlltoAll |-> handle_ncclAlltoAll,
   ncclGather |-> handle_ncclGather, ncclScatter |-> handle_ncclScatter,
   ncclAllReduceConfig |-> handle_ncclAllReduceConfig,
   ncclBroadcastConfig |-> handle_ncclBroadcastConfig, ncclReduceConfig |-> handle_ncclReduceConfig,
   ncclAllGatherConfig |-> handle_ncclAllGatherConfig,
   ncclReduceScatterConfig |-> handle_ncclReduceScatterConfig,
   ncclAlltoAllConfig |-> handle_ncclAlltoAllConfig, ncclGatherConfig |-> handle_ncclGatherConfig,
   ncclScatterConfig |-> handle_ncclScatterConfig, ncclSend |-> handle_ncclSend,
   ncclRecv |-> handle_ncclRecv, ncclPutSignal |-> handle_ncclPutSignal,
   ncclSignal |-> handle_ncclSignal, ncclWaitSignal |-> handle_ncclWaitSignal,
   ncclGroupStart |-> handle_ncclGroupStart, ncclGroupEnd |-> handle_ncclGroupEnd,
   ncclGroupSimulateEnd |-> handle_ncclGroupSimulateEnd, ncclParamBind |-> handle_ncclParamBind,
   ncclParamGetI8 |-> handle_ncclParamGetI8, ncclParamGetI16 |-> handle_ncclParamGetI16,
   ncclParamGetI32 |-> handle_ncclParamGetI32, ncclParamGetI64 |-> handle_ncclParamGetI64,
   ncclParamGetU8 |-> handle_ncclParamGetU8, ncclParamGetU16 |-> handle_ncclParamGetU16,
   ncclParamGetU32 |-> handle_ncclParamGetU32, ncclParamGetU64 |-> handle_ncclParamGetU64,
   ncclParamGet |-> handle_ncclParamGet, ncclParamDumpAll |-> handle_ncclParamDumpAll]
=============================================================================

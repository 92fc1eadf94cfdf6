----------------------------- MODULE NcclStubs -----------------------------
(*****************************************************************************)
(* The generated NCCL stubs of the client, codegen/gen_nccl_client.inc, each *)
(* with the exported function that picks its connection and calls it.        *)
(*****************************************************************************)
EXTENDS RpcFields

ncclMemAlloc ==
  Then({"note allocation"},
  Call("connection", <<F("size", "size_t")>>,
    <<F("ptr", "void*"), F("return_value", "ncclResult_t")>>))

ncclMemFree ==
  Call("caller", <<F("ptr", "void*")>>, <<F("return_value", "ncclResult_t")>>)

ncclGetVersion ==
  Call("connection", <<>>, <<F("version", "int"), F("return_value", "ncclResult_t")>>)

ncclGetUniqueId ==
  Call("connection", <<>>, <<F("uniqueId", "ncclUniqueId"), F("return_value", "ncclResult_t")>>)

ncclCommInitRankConfig ==
  Then({"note handle"},
  With({a \in [config_size : Cnt, config_netName_len : Cnt, config_commName_len : Cnt] :
      (a.config_size = 0 => a.config_netName_len = 0) /\
      (a.config_size = 0 => a.config_commName_len = 0)},
  Call("connection", <<F("nranks", "int"), F("commId", "ncclUniqueId"), F("rank", "int"),
      F("config_size", "uint64_t"), Arr("config", "byte", {"config_size"}),
      F("config_netName_len", "uint32_t"), Arr("config.netName", "byte", {"config_netName_len"}),
      F("config_commName_len", "uint32_t"),
      Arr("config.commName", "byte", {"config_commName_len"})>>,
    <<F("comm", "ncclComm_t"), F("return_value", "ncclResult_t")>>)))

ncclCommInitRank ==
  Then({"note handle"},
  Call("connection", <<F("nranks", "int"), F("commId", "ncclUniqueId"), F("rank", "int")>>,
    <<F("comm", "ncclComm_t"), F("return_value", "ncclResult_t")>>))

ncclCommInitAll ==
  With([ndev : Len1, devlist_null : {0}],
  Call("caller", <<F("ndev", "int"), F("devlist_null", "uint8_t"),
      ArrUnless("devlist_null", "devlist", "int", {"ndev"})>>,
    <<Arr("comm", "ncclComm_t", {"ndev"}), F("return_value", "ncclResult_t")>>))

ncclCommFinalize ==
  Call("connection_for_handle", <<F("comm", "ncclComm_t")>>, <<F("return_value", "ncclResult_t")>>)

ncclCommDestroy ==
  Then({"forget handle"},
  Call("connection_for_handle", <<F("comm", "ncclComm_t")>>, <<F("return_value", "ncclResult_t")>>))

ncclCommAbort ==
  Then({"forget handle"},
  Call("connection_for_handle", <<F("comm", "ncclComm_t")>>, <<F("return_value", "ncclResult_t")>>))

ncclCommRevoke ==
  Call("connection_for_handle", <<F("comm", "ncclComm_t"), F("revokeFlags", "int")>>,
    <<F("return_value", "ncclResult_t")>>)

ncclCommSplit ==
  Then({"note handle"},
  With({a \in [config_size : Cnt, config_netName_len : Cnt, config_commName_len : Cnt] :
      (a.config_size = 0 => a.config_netName_len = 0) /\
      (a.config_size = 0 => a.config_commName_len = 0)},
  Call("connection_for_handle", <<F("comm", "ncclComm_t"), F("color", "int"), F("key", "int"),
      F("config_size", "uint64_t"), Arr("config", "byte", {"config_size"}),
      F("config_netName_len", "uint32_t"), Arr("config.netName", "byte", {"config_netName_len"}),
      F("config_commName_len", "uint32_t"),
      Arr("config.commName", "byte", {"config_commName_len"})>>,
    <<F("newcomm", "ncclComm_t"), F("return_value", "ncclResult_t")>>)))

ncclCommShrink ==
  Then({"note handle"},
  With({a \in [excludeRanksCount : Cnt, config_size : Cnt, config_netName_len : Cnt,
      config_commName_len : Cnt] : (a.config_size = 0 => a.config_netName_len = 0) /\
      (a.config_size = 0 => a.config_commName_len = 0)},
  Call("connection_for_handle", <<F("comm", "ncclComm_t"), F("excludeRanksCount", "int"),
      Arr("excludeRanksList", "int", {"excludeRanksCount"}), F("config_size", "uint64_t"),
      Arr("config", "byte", {"config_size"}), F("config_netName_len", "uint32_t"),
      Arr("config.netName", "byte", {"config_netName_len"}), F("config_commName_len", "uint32_t"),
      Arr("config.commName", "byte", {"config_commName_len"}), F("shrinkFlags", "int")>>,
    <<F("newcomm", "ncclComm_t"), F("return_value", "ncclResult_t")>>)))

ncclCommGetUniqueId ==
  Call("connection_for_handle", <<F("comm", "ncclComm_t")>>,
    <<F("uniqueId", "ncclUniqueId"), F("return_value", "ncclResult_t")>>)

ncclCommGrow ==
  Then({"note handle"},
  With({a \in [uniqueId_present : Flag, config_size : Cnt, config_netName_len : Cnt,
      config_commName_len : Cnt] : (a.config_size = 0 => a.config_netName_len = 0) /\
      (a.config_size = 0 => a.config_commName_len = 0)},
  Call("connection_for_handle", <<F("comm", "ncclComm_t"), F("nRanks", "int"),
      F("uniqueId_present", "uint8_t"), FIf("uniqueId_present", "uniqueId", "ncclUniqueId"),
      F("rank", "int"), F("config_size", "uint64_t"), Arr("config", "byte", {"config_size"}),
      F("config_netName_len", "uint32_t"), Arr("config.netName", "byte", {"config_netName_len"}),
      F("config_commName_len", "uint32_t"),
      Arr("config.commName", "byte", {"config_commName_len"})>>,
    <<F("newcomm", "ncclComm_t"), F("return_value", "ncclResult_t")>>)))

ncclCommInitRankScalable ==
  Then({"note handle"},
  With({a \in [nId : Cnt, config_size : Cnt, config_netName_len : Cnt, config_commName_len : Cnt] :
      (a.config_size = 0 => a.config_netName_len = 0) /\
      (a.config_size = 0 => a.config_commName_len = 0)},
  Call("connection", <<F("nranks", "int"), F("myrank", "int"), F("nId", "int"),
      Arr("commIds", "ncclUniqueId", {"nId"}), F("config_size", "uint64_t"),
      Arr("config", "byte", {"config_size"}), F("config_netName_len", "uint32_t"),
      Arr("config.netName", "byte", {"config_netName_len"}), F("config_commName_len", "uint32_t"),
      Arr("config.commName", "byte", {"config_commName_len"})>>,
    <<F("newcomm", "ncclComm_t"), F("return_value", "ncclResult_t")>>)))

ncclResetDebugInit ==
  Call("caller", <<>>, <<>>)

ncclCommGetAsyncError ==
  Call("connection_for_handle", <<F("comm", "ncclComm_t")>>,
    <<F("asyncError", "ncclResult_t"), F("return_value", "ncclResult_t")>>)

ncclCommCount ==
  Call("connection_for_handle", <<F("comm", "ncclComm_t")>>,
    <<F("count", "int"), F("return_value", "ncclResult_t")>>)

ncclCommCuDevice ==
  Call("connection_for_handle", <<F("comm", "ncclComm_t")>>,
    <<F("device", "int"), F("return_value", "ncclResult_t")>>)

ncclCommUserRank ==
  Call("connection_for_handle", <<F("comm", "ncclComm_t")>>,
    <<F("rank", "int"), F("return_value", "ncclResult_t")>>)

ncclCommRegister ==
  Call("connection_for_handle", <<F("comm", "ncclComm_t"), F("buff", "void*"),
      F("size", "size_t")>>,
    <<F("handle", "void*"), F("return_value", "ncclResult_t")>>)

ncclCommDeregister ==
  Call("connection_for_handle", <<F("comm", "ncclComm_t"), F("handle", "void*")>>,
    <<F("return_value", "ncclResult_t")>>)

ncclCommSuspend ==
  Call("connection_for_handle", <<F("comm", "ncclComm_t"), F("flags", "int")>>,
    <<F("return_value", "ncclResult_t")>>)

ncclCommResume ==
  Call("connection_for_handle", <<F("comm", "ncclComm_t")>>, <<F("return_value", "ncclResult_t")>>)

ncclCommMemStats ==
  Call("connection_for_handle", <<F("comm", "ncclComm_t"), F("stat", "ncclCommMemStat_t")>>,
    <<F("value", "uint64_t"), F("return_value", "ncclResult_t")>>)

ncclCommWindowRegister ==
  Call("connection_for_handle", <<F("comm", "ncclComm_t"), F("buff", "void*"), F("size", "size_t"),
      F("winFlags", "int")>>,
    <<F("win", "ncclWindow_t"), F("return_value", "ncclResult_t")>>)

ncclCommWindowDeregister ==
  Call("connection_for_handle", <<F("comm", "ncclComm_t"), F("win", "ncclWindow_t")>>,
    <<F("return_value", "ncclResult_t")>>)

ncclWinGetUserPtr ==
  Call("connection_for_handle", <<F("comm", "ncclComm_t"), F("win", "ncclWindow_t")>>,
    <<F("outUserPtr", "void*"), F("return_value", "ncclResult_t")>>)

ncclGetLsaMultimemDevicePointer ==
  Call("connection", <<F("window", "ncclWindow_t"), F("offset", "size_t")>>,
    <<F("outPtr", "void*"), F("return_value", "ncclResult_t")>>)

ncclGetPeerDevicePointer ==
  Call("connection", <<F("window", "ncclWindow_t"), F("offset", "size_t"), F("peer", "int")>>,
    <<F("outPtr", "void*"), F("return_value", "ncclResult_t")>>)

ncclRedOpCreatePreMulSum ==
  With([scalar_width : Cnt],
  Call("connection_for_handle", <<F("scalar_width", "uint32_t"),
      FUnless("scalar_width", "scalar", "void*"), Arr("scalar", "byte", {"scalar_width"}),
      F("datatype", "ncclDataType_t"), F("residence", "ncclScalarResidence_t"),
      F("comm", "ncclComm_t")>>,
    <<F("op", "ncclRedOp_t"), F("return_value", "ncclResult_t")>>))

ncclRedOpDestroy ==
  Call("connection_for_handle", <<F("op", "ncclRedOp_t"), F("comm", "ncclComm_t")>>,
    <<F("return_value", "ncclResult_t")>>)

ncclReduce ==
  With({a \in [submit_async : Flag, async_sequence : Ticket] :
      a.submit_async = 1 <=> a.async_sequence # NoTicket},
  CallOrPost("connection_for_handle", <<F("async_sequence", "uint64_t"), F("sendbuff", "void*"),
      F("recvbuff", "void*"), F("count", "size_t"), F("datatype", "ncclDataType_t"),
      F("op", "ncclRedOp_t"), F("root", "int"), F("comm", "ncclComm_t"),
      F("stream", "cudaStream_t")>>,
    <<FUnless("submit_async", "return_value", "ncclResult_t")>>))

ncclBcast ==
  With({a \in [submit_async : Flag, async_sequence : Ticket] :
      a.submit_async = 1 <=> a.async_sequence # NoTicket},
  CallOrPost("connection_for_handle", <<F("async_sequence", "uint64_t"), F("buff", "void*"),
      F("count", "size_t"), F("datatype", "ncclDataType_t"), F("root", "int"),
      F("comm", "ncclComm_t"), F("stream", "cudaStream_t")>>,
    <<FUnless("submit_async", "return_value", "ncclResult_t")>>))

ncclBroadcast ==
  With({a \in [submit_async : Flag, async_sequence : Ticket] :
      a.submit_async = 1 <=> a.async_sequence # NoTicket},
  CallOrPost("connection_for_handle", <<F("async_sequence", "uint64_t"), F("sendbuff", "void*"),
      F("recvbuff", "void*"), F("count", "size_t"), F("datatype", "ncclDataType_t"),
      F("root", "int"), F("comm", "ncclComm_t"), F("stream", "cudaStream_t")>>,
    <<FUnless("submit_async", "return_value", "ncclResult_t")>>))

ncclAllReduce ==
  With({a \in [submit_async : Flag, async_sequence : Ticket] :
      a.submit_async = 1 <=> a.async_sequence # NoTicket},
  CallOrPost("connection_for_handle", <<F("async_sequence", "uint64_t"), F("sendbuff", "void*"),
      F("recvbuff", "void*"), F("count", "size_t"), F("datatype", "ncclDataType_t"),
      F("op", "ncclRedOp_t"), F("comm", "ncclComm_t"), F("stream", "cudaStream_t")>>,
    <<FUnless("submit_async", "return_value", "ncclResult_t")>>))

ncclReduceScatter ==
  With({a \in [submit_async : Flag, async_sequence : Ticket] :
      a.submit_async = 1 <=> a.async_sequence # NoTicket},
  CallOrPost("connection_for_handle", <<F("async_sequence", "uint64_t"), F("sendbuff", "void*"),
      F("recvbuff", "void*"), F("recvcount", "size_t"), F("datatype", "ncclDataType_t"),
      F("op", "ncclRedOp_t"), F("comm", "ncclComm_t"), F("stream", "cudaStream_t")>>,
    <<FUnless("submit_async", "return_value", "ncclResult_t")>>))

ncclAllGather ==
  With({a \in [submit_async : Flag, async_sequence : Ticket] :
      a.submit_async = 1 <=> a.async_sequence # NoTicket},
  CallOrPost("connection_for_handle", <<F("async_sequence", "uint64_t"), F("sendbuff", "void*"),
      F("recvbuff", "void*"), F("sendcount", "size_t"), F("datatype", "ncclDataType_t"),
      F("comm", "ncclComm_t"), F("stream", "cudaStream_t")>>,
    <<FUnless("submit_async", "return_value", "ncclResult_t")>>))

ncclAlltoAll ==
  With({a \in [submit_async : Flag, async_sequence : Ticket] :
      a.submit_async = 1 <=> a.async_sequence # NoTicket},
  CallOrPost("connection_for_handle", <<F("async_sequence", "uint64_t"), F("sendbuff", "void*"),
      F("recvbuff", "void*"), F("count", "size_t"), F("datatype", "ncclDataType_t"),
      F("comm", "ncclComm_t"), F("stream", "cudaStream_t")>>,
    <<FUnless("submit_async", "return_value", "ncclResult_t")>>))

ncclGather ==
  With({a \in [submit_async : Flag, async_sequence : Ticket] :
      a.submit_async = 1 <=> a.async_sequence # NoTicket},
  CallOrPost("connection_for_handle", <<F("async_sequence", "uint64_t"), F("sendbuff", "void*"),
      F("recvbuff", "void*"), F("count", "size_t"), F("datatype", "ncclDataType_t"),
      F("root", "int"), F("comm", "ncclComm_t"), F("stream", "cudaStream_t")>>,
    <<FUnless("submit_async", "return_value", "ncclResult_t")>>))

ncclScatter ==
  With({a \in [submit_async : Flag, async_sequence : Ticket] :
      a.submit_async = 1 <=> a.async_sequence # NoTicket},
  CallOrPost("connection_for_handle", <<F("async_sequence", "uint64_t"), F("sendbuff", "void*"),
      F("recvbuff", "void*"), F("count", "size_t"), F("datatype", "ncclDataType_t"),
      F("root", "int"), F("comm", "ncclComm_t"), F("stream", "cudaStream_t")>>,
    <<FUnless("submit_async", "return_value", "ncclResult_t")>>))

ncclAllReduceConfig ==
  With({a \in [config_size : Cnt, config_algSelection_len : Cnt, submit_async : Flag,
      async_sequence : Ticket] : (a.config_size = 0 => a.config_algSelection_len = 0) /\
      (a.submit_async = 1 <=> a.async_sequence # NoTicket)},
  CallOrPost("connection_for_handle", <<F("async_sequence", "uint64_t"), F("sendbuff", "void*"),
      F("recvbuff", "void*"), F("count", "size_t"), F("datatype", "ncclDataType_t"),
      F("op", "ncclRedOp_t"), F("comm", "ncclComm_t"), F("stream", "cudaStream_t"),
      F("config_size", "uint64_t"), Arr("config", "byte", {"config_size"}),
      F("config_algSelection_len", "uint32_t"),
      Arr("config.algSelection", "byte", {"config_algSelection_len"})>>,
    <<FUnless("submit_async", "return_value", "ncclResult_t")>>))

ncclBroadcastConfig ==
  With({a \in [config_size : Cnt, config_algSelection_len : Cnt, submit_async : Flag,
      async_sequence : Ticket] : (a.config_size = 0 => a.config_algSelection_len = 0) /\
      (a.submit_async = 1 <=> a.async_sequence # NoTicket)},
  CallOrPost("connection_for_handle", <<F("async_sequence", "uint64_t"), F("sendbuff", "void*"),
      F("recvbuff", "void*"), F("count", "size_t"), F("datatype", "ncclDataType_t"),
      F("root", "int"), F("comm", "ncclComm_t"), F("stream", "cudaStream_t"),
      F("config_size", "uint64_t"), Arr("config", "byte", {"config_size"}),
      F("config_algSelection_len", "uint32_t"),
      Arr("config.algSelection", "byte", {"config_algSelection_len"})>>,
    <<FUnless("submit_async", "return_value", "ncclResult_t")>>))

ncclReduceConfig ==
  With({a \in [config_size : Cnt, config_algSelection_len : Cnt, submit_async : Flag,
      async_sequence : Ticket] : (a.config_size = 0 => a.config_algSelection_len = 0) /\
      (a.submit_async = 1 <=> a.async_sequence # NoTicket)},
  CallOrPost("connection_for_handle", <<F("async_sequence", "uint64_t"), F("sendbuff", "void*"),
      F("recvbuff", "void*"), F("count", "size_t"), F("datatype", "ncclDataType_t"),
      F("op", "ncclRedOp_t"), F("root", "int"), F("comm", "ncclComm_t"),
      F("stream", "cudaStream_t"), F("config_size", "uint64_t"),
      Arr("config", "byte", {"config_size"}), F("config_algSelection_len", "uint32_t"),
      Arr("config.algSelection", "byte", {"config_algSelection_len"})>>,
    <<FUnless("submit_async", "return_value", "ncclResult_t")>>))

ncclAllGatherConfig ==
  With({a \in [config_size : Cnt, config_algSelection_len : Cnt, submit_async : Flag,
      async_sequence : Ticket] : (a.config_size = 0 => a.config_algSelection_len = 0) /\
      (a.submit_async = 1 <=> a.async_sequence # NoTicket)},
  CallOrPost("connection_for_handle", <<F("async_sequence", "uint64_t"), F("sendbuff", "void*"),
      F("recvbuff", "void*"), F("sendcount", "size_t"), F("datatype", "ncclDataType_t"),
      F("comm", "ncclComm_t"), F("stream", "cudaStream_t"), F("config_size", "uint64_t"),
      Arr("config", "byte", {"config_size"}), F("config_algSelection_len", "uint32_t"),
      Arr("config.algSelection", "byte", {"config_algSelection_len"})>>,
    <<FUnless("submit_async", "return_value", "ncclResult_t")>>))

ncclReduceScatterConfig ==
  With({a \in [config_size : Cnt, config_algSelection_len : Cnt, submit_async : Flag,
      async_sequence : Ticket] : (a.config_size = 0 => a.config_algSelection_len = 0) /\
      (a.submit_async = 1 <=> a.async_sequence # NoTicket)},
  CallOrPost("connection_for_handle", <<F("async_sequence", "uint64_t"), F("sendbuff", "void*"),
      F("recvbuff", "void*"), F("recvcount", "size_t"), F("datatype", "ncclDataType_t"),
      F("op", "ncclRedOp_t"), F("comm", "ncclComm_t"), F("stream", "cudaStream_t"),
      F("config_size", "uint64_t"), Arr("config", "byte", {"config_size"}),
      F("config_algSelection_len", "uint32_t"),
      Arr("config.algSelection", "byte", {"config_algSelection_len"})>>,
    <<FUnless("submit_async", "return_value", "ncclResult_t")>>))

ncclAlltoAllConfig ==
  With({a \in [config_size : Cnt, config_algSelection_len : Cnt, submit_async : Flag,
      async_sequence : Ticket] : (a.config_size = 0 => a.config_algSelection_len = 0) /\
      (a.submit_async = 1 <=> a.async_sequence # NoTicket)},
  CallOrPost("connection_for_handle", <<F("async_sequence", "uint64_t"), F("sendbuff", "void*"),
      F("recvbuff", "void*"), F("count", "size_t"), F("datatype", "ncclDataType_t"),
      F("comm", "ncclComm_t"), F("stream", "cudaStream_t"), F("config_size", "uint64_t"),
      Arr("config", "byte", {"config_size"}), F("config_algSelection_len", "uint32_t"),
      Arr("config.algSelection", "byte", {"config_algSelection_len"})>>,
    <<FUnless("submit_async", "return_value", "ncclResult_t")>>))

ncclGatherConfig ==
  With({a \in [config_size : Cnt, config_algSelection_len : Cnt, submit_async : Flag,
      async_sequence : Ticket] : (a.config_size = 0 => a.config_algSelection_len = 0) /\
      (a.submit_async = 1 <=> a.async_sequence # NoTicket)},
  CallOrPost("connection_for_handle", <<F("async_sequence", "uint64_t"), F("sendbuff", "void*"),
      F("recvbuff", "void*"), F("count", "size_t"), F("datatype", "ncclDataType_t"),
      F("root", "int"), F("comm", "ncclComm_t"), F("stream", "cudaStream_t"),
      F("config_size", "uint64_t"), Arr("config", "byte", {"config_size"}),
      F("config_algSelection_len", "uint32_t"),
      Arr("config.algSelection", "byte", {"config_algSelection_len"})>>,
    <<FUnless("submit_async", "return_value", "ncclResult_t")>>))

ncclScatterConfig ==
  With({a \in [config_size : Cnt, config_algSelection_len : Cnt, submit_async : Flag,
      async_sequence : Ticket] : (a.config_size = 0 => a.config_algSelection_len = 0) /\
      (a.submit_async = 1 <=> a.async_sequence # NoTicket)},
  CallOrPost("connection_for_handle", <<F("async_sequence", "uint64_t"), F("sendbuff", "void*"),
      F("recvbuff", "void*"), F("count", "size_t"), F("datatype", "ncclDataType_t"),
      F("root", "int"), F("comm", "ncclComm_t"), F("stream", "cudaStream_t"),
      F("config_size", "uint64_t"), Arr("config", "byte", {"config_size"}),
      F("config_algSelection_len", "uint32_t"),
      Arr("config.algSelection", "byte", {"config_algSelection_len"})>>,
    <<FUnless("submit_async", "return_value", "ncclResult_t")>>))

ncclSend ==
  With({a \in [submit_async : Flag, async_sequence : Ticket] :
      a.submit_async = 1 <=> a.async_sequence # NoTicket},
  CallOrPost("connection_for_handle", <<F("async_sequence", "uint64_t"), F("sendbuff", "void*"),
      F("count", "size_t"), F("datatype", "ncclDataType_t"), F("peer", "int"),
      F("comm", "ncclComm_t"), F("stream", "cudaStream_t")>>,
    <<FUnless("submit_async", "return_value", "ncclResult_t")>>))

ncclRecv ==
  With({a \in [submit_async : Flag, async_sequence : Ticket] :
      a.submit_async = 1 <=> a.async_sequence # NoTicket},
  CallOrPost("connection_for_handle", <<F("async_sequence", "uint64_t"), F("recvbuff", "void*"),
      F("count", "size_t"), F("datatype", "ncclDataType_t"), F("peer", "int"),
      F("comm", "ncclComm_t"), F("stream", "cudaStream_t")>>,
    <<FUnless("submit_async", "return_value", "ncclResult_t")>>))

ncclPutSignal ==
  With({a \in [submit_async : Flag, async_sequence : Ticket] :
      a.submit_async = 1 <=> a.async_sequence # NoTicket},
  CallOrPost("connection_for_handle", <<F("async_sequence", "uint64_t"), F("localbuff", "void*"),
      F("count", "size_t"), F("datatype", "ncclDataType_t"), F("peer", "int"),
      F("peerWin", "ncclWindow_t"), F("peerWinOffset", "size_t"), F("sigIdx", "int"),
      F("ctx", "int"), F("flags", "unsigned int"), F("comm", "ncclComm_t"),
      F("stream", "cudaStream_t")>>,
    <<FUnless("submit_async", "return_value", "ncclResult_t")>>))

ncclSignal ==
  With({a \in [submit_async : Flag, async_sequence : Ticket] :
      a.submit_async = 1 <=> a.async_sequence # NoTicket},
  CallOrPost("connection_for_handle", <<F("async_sequence", "uint64_t"), F("peer", "int"),
      F("sigIdx", "int"), F("ctx", "int"), F("flags", "unsigned int"), F("comm", "ncclComm_t"),
      F("stream", "cudaStream_t")>>,
    <<FUnless("submit_async", "return_value", "ncclResult_t")>>))

ncclWaitSignal ==
  With({a \in [nDesc : Cnt, submit_async : Flag, async_sequence : Ticket] :
      a.submit_async = 1 <=> a.async_sequence # NoTicket},
  CallOrPost("connection_for_handle", <<F("async_sequence", "uint64_t"), F("nDesc", "int"),
      Arr("signalDescs", "ncclWaitSignalDesc_t", {"nDesc"}), F("comm", "ncclComm_t"),
      F("stream", "cudaStream_t")>>,
    <<FUnless("submit_async", "return_value", "ncclResult_t")>>))

ncclGroupStart ==
  With({a \in [submit_async : Flag, async_sequence : Ticket] :
      a.submit_async = 1 <=> a.async_sequence # NoTicket},
  CallOrPost("caller", <<F("async_sequence", "uint64_t")>>,
    <<FUnless("submit_async", "return_value", "ncclResult_t")>>))

ncclGroupEnd ==
  Call("caller", <<>>, <<F("return_value", "ncclResult_t")>>)

ncclGroupSimulateEnd ==
  Call("caller", <<F("simInfo", "ncclSimInfo_t")>>,
    <<F("simInfo", "ncclSimInfo_t"), F("return_value", "ncclResult_t")>>)

ncclParamBind ==
  Then({"note handle"},
  With([key_len : Len1],
  Call("connection", <<F("key_len", "size_t"), Arr("key", "byte", {"key_len"})>>,
    <<F("out", "ncclParamHandle_t"), F("return_value", "ncclResult_t")>>)))

ncclParamGetI8 ==
  Call("connection_for_handle", <<F("h", "ncclParamHandle_t")>>,
    <<F("out", "int8_t"), F("return_value", "ncclResult_t")>>)

ncclParamGetI16 ==
  Call("connection_for_handle", <<F("h", "ncclParamHandle_t")>>,
    <<F("out", "int16_t"), F("return_value", "ncclResult_t")>>)

ncclParamGetI32 ==
  Call("connection_for_handle", <<F("h", "ncclParamHandle_t")>>,
    <<F("out", "int32_t"), F("return_value", "ncclResult_t")>>)

ncclParamGetI64 ==
  Call("connection_for_handle", <<F("h", "ncclParamHandle_t")>>,
    <<F("out", "int64_t"), F("return_value", "ncclResult_t")>>)

ncclParamGetU8 ==
  Call("connection_for_handle", <<F("h", "ncclParamHandle_t")>>,
    <<F("out", "uint8_t"), F("return_value", "ncclResult_t")>>)

ncclParamGetU16 ==
  Call("connection_for_handle", <<F("h", "ncclParamHandle_t")>>,
    <<F("out", "uint16_t"), F("return_value", "ncclResult_t")>>)

ncclParamGetU32 ==
  Call("connection_for_handle", <<F("h", "ncclParamHandle_t")>>,
    <<F("out", "uint32_t"), F("return_value", "ncclResult_t")>>)

ncclParamGetU64 ==
  Call("connection_for_handle", <<F("h", "ncclParamHandle_t")>>,
    <<F("out", "uint64_t"), F("return_value", "ncclResult_t")>>)

ncclParamGet ==
  With([maxLen : Cnt],
  Call("connection_for_handle", <<F("h", "ncclParamHandle_t"), F("maxLen", "int"),
      Arr("out", "byte", {"maxLen"})>>,
    <<Arr("out", "byte", {"maxLen"}), F("len", "int"), F("return_value", "ncclResult_t")>>))

ncclParamDumpAll ==
  Call("caller", <<>>, <<>>)

NcclStubsTable ==
  [ncclMemAlloc |-> ncclMemAlloc, ncclMemFree |-> ncclMemFree, ncclGetVersion |-> ncclGetVersion,
   ncclGetUniqueId |-> ncclGetUniqueId, ncclCommInitRankConfig |-> ncclCommInitRankConfig,
   ncclCommInitRank |-> ncclCommInitRank, ncclCommInitAll |-> ncclCommInitAll,
   ncclCommFinalize |-> ncclCommFinalize, ncclCommDestroy |-> ncclCommDestroy,
   ncclCommAbort |-> ncclCommAbort, ncclCommRevoke |-> ncclCommRevoke,
   ncclCommSplit |-> ncclCommSplit, ncclCommShrink |-> ncclCommShrink,
   ncclCommGetUniqueId |-> ncclCommGetUniqueId, ncclCommGrow |-> ncclCommGrow,
   ncclCommInitRankScalable |-> ncclCommInitRankScalable, ncclResetDebugInit |-> ncclResetDebugInit,
   ncclCommGetAsyncError |-> ncclCommGetAsyncError, ncclCommCount |-> ncclCommCount,
   ncclCommCuDevice |-> ncclCommCuDevice, ncclCommUserRank |-> ncclCommUserRank,
   ncclCommRegister |-> ncclCommRegister, ncclCommDeregister |-> ncclCommDeregister,
   ncclCommSuspend |-> ncclCommSuspend, ncclCommResume |-> ncclCommResume,
   ncclCommMemStats |-> ncclCommMemStats, ncclCommWindowRegister |-> ncclCommWindowRegister,
   ncclCommWindowDeregister |-> ncclCommWindowDeregister, ncclWinGetUserPtr |-> ncclWinGetUserPtr,
   ncclGetLsaMultimemDevicePointer |-> ncclGetLsaMultimemDevicePointer,
   ncclGetPeerDevicePointer |-> ncclGetPeerDevicePointer,
   ncclRedOpCreatePreMulSum |-> ncclRedOpCreatePreMulSum, ncclRedOpDestroy |-> ncclRedOpDestroy,
   ncclReduce |-> ncclReduce, ncclBcast |-> ncclBcast, ncclBroadcast |-> ncclBroadcast,
   ncclAllReduce |-> ncclAllReduce, ncclReduceScatter |-> ncclReduceScatter,
   ncclAllGather |-> ncclAllGather, ncclAlltoAll |-> ncclAlltoAll, ncclGather |-> ncclGather,
   ncclScatter |-> ncclScatter, ncclAllReduceConfig |-> ncclAllReduceConfig,
   ncclBroadcastConfig |-> ncclBroadcastConfig, ncclReduceConfig |-> ncclReduceConfig,
   ncclAllGatherConfig |-> ncclAllGatherConfig, ncclReduceScatterConfig |-> ncclReduceScatterConfig,
   ncclAlltoAllConfig |-> ncclAlltoAllConfig, ncclGatherConfig |-> ncclGatherConfig,
   ncclScatterConfig |-> ncclScatterConfig, ncclSend |-> ncclSend, ncclRecv |-> ncclRecv,
   ncclPutSignal |-> ncclPutSignal, ncclSignal |-> ncclSignal, ncclWaitSignal |-> ncclWaitSignal,
   ncclGroupStart |-> ncclGroupStart, ncclGroupEnd |-> ncclGroupEnd,
   ncclGroupSimulateEnd |-> ncclGroupSimulateEnd, ncclParamBind |-> ncclParamBind,
   ncclParamGetI8 |-> ncclParamGetI8, ncclParamGetI16 |-> ncclParamGetI16,
   ncclParamGetI32 |-> ncclParamGetI32, ncclParamGetI64 |-> ncclParamGetI64,
   ncclParamGetU8 |-> ncclParamGetU8, ncclParamGetU16 |-> ncclParamGetU16,
   ncclParamGetU32 |-> ncclParamGetU32, ncclParamGetU64 |-> ncclParamGetU64,
   ncclParamGet |-> ncclParamGet, ncclParamDumpAll |-> ncclParamDumpAll]
=============================================================================

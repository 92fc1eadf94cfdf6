---------------------------- MODULE HipHandlers ----------------------------
(*****************************************************************************)
(* The generated HIP handlers of the server, codegen/gen_hip_server.inc, for *)
(* the requests the stubs of HipStubs send.                                  *)
(*****************************************************************************)
EXTENDS HipMemoryHandlers

handle_hipGetLastError ==
  Reply(<<>>, <<F("return_value", "hipError_t")>>)

handle_hipExtGetLastError ==
  Reply(<<>>, <<F("return_value", "hipError_t")>>)

handle_hipPeekAtLastError ==
  Reply(<<>>, <<F("return_value", "hipError_t")>>)

handle_hipGetDevicePropertiesR0600 ==
  Reply(<<F("deviceId", "int")>>,
    <<F("prop", "hipDeviceProp_tR0600"), F("return_value", "hipError_t")>>)

handle_hipDeviceGetName ==
  Reply(<<F("len", "int"), NonNegative("len"), AllocArr("name", {"len"}), F("deviceId", "int")>>,
    <<Arr("name", "char", {"len"}), F("return_value", "hipError_t")>>)

handle_hipDeviceTotalMem ==
  Reply(<<F("deviceId", "int")>>, <<F("bytes", "size_t"), F("return_value", "hipError_t")>>)

handle_hipDeviceGetAttribute ==
  Reply(<<F("attr", "hipDeviceAttribute_t"), F("deviceId", "int")>>,
    <<F("pi", "int"), F("return_value", "hipError_t")>>)

handle_hipDriverGetVersion ==
  Reply(<<>>, <<F("driverVersion", "int"), F("return_value", "hipError_t")>>)

handle_hipRuntimeGetVersion ==
  Reply(<<>>, <<F("runtimeVersion", "int"), F("return_value", "hipError_t")>>)

handle_hipDeviceComputeCapability ==
  Reply(<<F("device", "hipDevice_t")>>,
    <<F("major", "int"), F("minor", "int"), F("return_value", "hipError_t")>>)

handle_hipDeviceGetUuid ==
  Reply(<<F("device", "hipDevice_t")>>, <<F("uuid", "hipUUID"), F("return_value", "hipError_t")>>)

handle_hipDeviceGetP2PAttribute ==
  Reply(<<F("attr", "hipDeviceP2PAttr"), F("srcDevice", "int"), F("dstDevice", "int")>>,
    <<F("value", "int"), F("return_value", "hipError_t")>>)

handle_hipDeviceGetPCIBusId ==
  Reply(<<F("len", "int"), NonNegative("len"), AllocArr("pciBusId", {"len"}), F("device", "int")>>,
    <<Arr("pciBusId", "char", {"len"}), F("return_value", "hipError_t")>>)

handle_hipDeviceGetByPCIBusId ==
  Reply(<<F("pciBusId_len", "size_t"), AllocArr("pciBusId", {"pciBusId_len"}),
      Arr("pciBusId", "byte", {"pciBusId_len"})>>,
    <<F("device", "int"), F("return_value", "hipError_t")>>)

handle_hipDeviceSynchronize ==
  Reply(<<>>, <<F("return_value", "hipError_t")>>)

handle_hipDeviceGetDefaultMemPool ==
  Reply(<<F("device", "int")>>, <<F("mem_pool", "hipMemPool_t"), F("return_value", "hipError_t")>>)

handle_hipDeviceSetMemPool ==
  Reply(<<F("device", "int"), F("mem_pool", "hipMemPool_t")>>, <<F("return_value", "hipError_t")>>)

handle_hipDeviceGetMemPool ==
  Reply(<<F("device", "int")>>, <<F("mem_pool", "hipMemPool_t"), F("return_value", "hipError_t")>>)

handle_hipDeviceGetTexture1DLinearMaxWidth ==
  Reply(<<F("desc", "hipChannelFormatDesc"), F("device", "int")>>,
    <<F("max_width", "size_t"), F("return_value", "hipError_t")>>)

handle_hipDeviceSetCacheConfig ==
  Reply(<<F("cacheConfig", "hipFuncCache_t")>>, <<F("return_value", "hipError_t")>>)

handle_hipDeviceGetCacheConfig ==
  Reply(<<>>, <<F("cacheConfig", "hipFuncCache_t"), F("return_value", "hipError_t")>>)

handle_hipDeviceGetLimit ==
  Reply(<<F("limit", "enum hipLimit_t")>>,
    <<F("pValue", "size_t"), F("return_value", "hipError_t")>>)

handle_hipDeviceSetLimit ==
  Reply(<<F("limit", "enum hipLimit_t"), F("value", "size_t")>>,
    <<F("return_value", "hipError_t")>>)

handle_hipDeviceGetSharedMemConfig ==
  Reply(<<>>, <<F("pConfig", "hipSharedMemConfig"), F("return_value", "hipError_t")>>)

handle_hipGetDeviceFlags ==
  Reply(<<>>, <<F("flags", "unsigned int"), F("return_value", "hipError_t")>>)

handle_hipDeviceSetSharedMemConfig ==
  Reply(<<F("config", "hipSharedMemConfig")>>, <<F("return_value", "hipError_t")>>)

handle_hipSetDeviceFlags ==
  Reply(<<F("flags", "unsigned")>>, <<F("return_value", "hipError_t")>>)

handle_hipChooseDeviceR0600 ==
  Reply(<<F("prop", "hipDeviceProp_tR0600")>>,
    <<F("device", "int"), F("return_value", "hipError_t")>>)

handle_hipExtGetLinkTypeAndHopCount ==
  Reply(<<F("device1", "int"), F("device2", "int")>>,
    <<F("linktype", "uint32_t"), F("hopcount", "uint32_t"), F("return_value", "hipError_t")>>)

handle_hipDeviceGetStreamPriorityRange ==
  Reply(<<>>,
    <<F("leastPriority", "int"), F("greatestPriority", "int"), F("return_value", "hipError_t")>>)

handle_hipDeviceGraphMemTrim ==
  Reply(<<F("device", "int")>>, <<F("return_value", "hipError_t")>>)

handle_hipProfilerStart ==
  Reply(<<>>, <<F("return_value", "hipError_t")>>)

handle_hipProfilerStop ==
  Reply(<<>>, <<F("return_value", "hipError_t")>>)

handle_hipStreamCreate ==
  Reply(<<>>, <<F("stream", "hipStream_t"), F("return_value", "hipError_t")>>)

handle_hipStreamCreateWithFlags ==
  Reply(<<F("flags", "unsigned int")>>,
    <<F("stream", "hipStream_t"), F("return_value", "hipError_t")>>)

handle_hipStreamCreateWithPriority ==
  Reply(<<F("flags", "unsigned int"), F("priority", "int")>>,
    <<F("stream", "hipStream_t"), F("return_value", "hipError_t")>>)

handle_hipStreamDestroy ==
  Reply(<<F("stream", "hipStream_t")>>, <<F("return_value", "hipError_t")>>)

handle_hipStreamQuery ==
  Reply(<<F("stream", "hipStream_t")>>, <<F("return_value", "hipError_t")>>)

handle_hipStreamSynchronize ==
  Reply(<<F("stream", "hipStream_t")>>, <<F("return_value", "hipError_t")>>)

handle_hipStreamWaitEvent ==
  Reply(<<F("stream", "hipStream_t"), F("event", "hipEvent_t"), F("flags", "unsigned int")>>,
    <<F("return_value", "hipError_t")>>)

handle_hipStreamGetFlags ==
  Reply(<<F("stream", "hipStream_t")>>,
    <<F("flags", "unsigned int"), F("return_value", "hipError_t")>>)

handle_hipStreamGetId ==
  Reply(<<F("stream", "hipStream_t")>>,
    <<F("streamId", "unsigned long long"), F("return_value", "hipError_t")>>)

handle_hipStreamGetPriority ==
  Reply(<<F("stream", "hipStream_t")>>, <<F("priority", "int"), F("return_value", "hipError_t")>>)

handle_hipStreamGetDevice ==
  Reply(<<F("stream", "hipStream_t")>>,
    <<F("device", "hipDevice_t"), F("return_value", "hipError_t")>>)

handle_hipExtStreamCreateWithCUMask ==
  Reply(<<F("cuMaskSize", "uint32_t"), AllocArr("cuMask", {"cuMaskSize"}),
      Arr("cuMask", "uint32_t", {"cuMaskSize"})>>,
    <<F("stream", "hipStream_t"), F("return_value", "hipError_t")>>)

handle_hipExtStreamGetCUMask ==
  Reply(<<F("stream", "hipStream_t"), F("cuMaskSize", "uint32_t"),
      AllocArr("cuMask", {"cuMaskSize"})>>,
    <<Arr("cuMask", "uint32_t", {"cuMaskSize"}), F("return_value", "hipError_t")>>)

handle_hipStreamSetAttribute ==
  Reply(<<F("stream", "hipStream_t"), F("attr", "hipLaunchAttributeID"),
      F("value", "hipLaunchAttributeValue")>>,
    <<F("return_value", "hipError_t")>>)

handle_hipStreamGetAttribute ==
  Reply(<<F("stream", "hipStream_t"), F("attr", "hipLaunchAttributeID")>>,
    <<F("value_out", "hipLaunchAttributeValue"), F("return_value", "hipError_t")>>)

handle_hipStreamCopyAttributes ==
  Reply(<<F("dst", "hipStream_t"), F("src", "hipStream_t")>>, <<F("return_value", "hipError_t")>>)

handle_hipStreamWaitValue32 ==
  Reply(<<F("stream", "hipStream_t"), F("ptr", "void*"), F("value", "uint32_t"),
      F("flags", "unsigned int"), F("mask", "uint32_t")>>,
    <<F("return_value", "hipError_t")>>)

handle_hipStreamWaitValue64 ==
  Reply(<<F("stream", "hipStream_t"), F("ptr", "void*"), F("value", "uint64_t"),
      F("flags", "unsigned int"), F("mask", "uint64_t")>>,
    <<F("return_value", "hipError_t")>>)

handle_hipStreamWriteValue32 ==
  Reply(<<F("stream", "hipStream_t"), F("ptr", "void*"), F("value", "uint32_t"),
      F("flags", "unsigned int")>>,
    <<F("return_value", "hipError_t")>>)

handle_hipStreamWriteValue64 ==
  Reply(<<F("stream", "hipStream_t"), F("ptr", "void*"), F("value", "uint64_t"),
      F("flags", "unsigned int")>>,
    <<F("return_value", "hipError_t")>>)

handle_hipStreamBatchMemOp ==
  Reply(<<F("stream", "hipStream_t"), F("count", "unsigned int"), AllocArr("paramArray", {"count"}),
      Arr("paramArray", "hipStreamBatchMemOpParams", {"count"}), F("flags", "unsigned int")>>,
    <<F("return_value", "hipError_t")>>)

handle_hipGraphAddBatchMemOpNode ==
  Reply(<<F("hGraph", "hipGraph_t"), F("numDependencies", "size_t"),
      AllocArr("dependencies", {"numDependencies"}),
      Arr("dependencies", "hipGraphNode_t", {"numDependencies"}),
      F("nodeParams", "hipBatchMemOpNodeParams"),
      Arr("nodeParams.paramArray", "*nodeParams.paramArray", {"nodeParams"})>>,
    <<F("phGraphNode", "hipGraphNode_t"), F("return_value", "hipError_t")>>)

handle_hipGraphBatchMemOpNodeSetParams ==
  Reply(<<F("hNode", "hipGraphNode_t"), F("nodeParams", "hipBatchMemOpNodeParams"),
      Arr("nodeParams.paramArray", "*nodeParams.paramArray", {"nodeParams"})>>,
    <<F("return_value", "hipError_t")>>)

handle_hipGraphExecBatchMemOpNodeSetParams ==
  Reply(<<F("hGraphExec", "hipGraphExec_t"), F("hNode", "hipGraphNode_t"),
      F("nodeParams", "hipBatchMemOpNodeParams"),
      Arr("nodeParams.paramArray", "*nodeParams.paramArray", {"nodeParams"})>>,
    <<F("return_value", "hipError_t")>>)

handle_hipEventCreateWithFlags ==
  Reply(<<F("flags", "unsigned")>>, <<F("event", "hipEvent_t"), F("return_value", "hipError_t")>>)

handle_hipEventCreate ==
  Reply(<<>>, <<F("event", "hipEvent_t"), F("return_value", "hipError_t")>>)

handle_hipEventRecordWithFlags ==
  Reply(<<F("event", "hipEvent_t"), F("stream", "hipStream_t"), F("flags", "unsigned int")>>,
    <<F("return_value", "hipError_t")>>)

handle_hipEventRecord ==
  Reply(<<F("event", "hipEvent_t"), F("stream", "hipStream_t")>>,
    <<F("return_value", "hipError_t")>>)

handle_hipEventDestroy ==
  Reply(<<F("event", "hipEvent_t")>>, <<F("return_value", "hipError_t")>>)

handle_hipEventSynchronize ==
  Reply(<<F("event", "hipEvent_t")>>, <<F("return_value", "hipError_t")>>)

handle_hipEventElapsedTime ==
  Reply(<<F("start", "hipEvent_t"), F("stop", "hipEvent_t")>>,
    <<F("ms", "float"), F("return_value", "hipError_t")>>)

handle_hipEventQuery ==
  Reply(<<F("event", "hipEvent_t")>>, <<F("return_value", "hipError_t")>>)

handle_hipExtMallocWithFlags ==
  Reply(<<F("sizeBytes", "size_t"), F("flags", "unsigned int")>>,
    <<F("ptr", "void*"), F("return_value", "hipError_t")>>)

handle_hipStreamAttachMemAsync ==
  Reply(<<F("stream", "hipStream_t"), F("dev_ptr", "void*"), F("length", "size_t"),
      F("flags", "unsigned int")>>,
    <<F("return_value", "hipError_t")>>)

handle_hipModuleGetGlobal ==
  Reply(<<F("dptr_present", "uint8_t"), FIf("dptr_present", "dptr", "hipDeviceptr_t"),
      F("bytes_present", "uint8_t"), FIf("bytes_present", "bytes", "size_t"),
      F("hmod", "hipModule_t"), F("name_len", "size_t"), AllocArr("name", {"name_len"}),
      Arr("name", "byte", {"name_len"})>>,
    <<FIf("dptr_present", "dptr", "hipDeviceptr_t"), FIf("bytes_present", "bytes", "size_t"),
        F("return_value", "hipError_t")>>)

handle_hipGetMipmappedArrayLevel ==
  Reply(<<F("mipmappedArray", "hipMipmappedArray_const_t"), F("level", "unsigned int")>>,
    <<F("levelArray", "hipArray_t"), F("return_value", "hipError_t")>>)

handle_hipDeviceCanAccessPeer ==
  Reply(<<F("deviceId", "int"), F("peerDeviceId", "int")>>,
    <<F("canAccessPeer", "int"), F("return_value", "hipError_t")>>)

handle_hipDeviceEnablePeerAccess ==
  Reply(<<F("peerDeviceId", "int"), F("flags", "unsigned int")>>,
    <<F("return_value", "hipError_t")>>)

handle_hipDeviceDisablePeerAccess ==
  Reply(<<F("peerDeviceId", "int")>>, <<F("return_value", "hipError_t")>>)

handle_hipCtxCreate ==
  Reply(<<F("flags", "unsigned int"), F("device", "hipDevice_t")>>,
    <<F("ctx", "hipCtx_t"), F("return_value", "hipError_t")>>)

handle_hipCtxDestroy ==
  Reply(<<F("ctx", "hipCtx_t")>>, <<F("return_value", "hipError_t")>>)

handle_hipCtxPopCurrent ==
  Reply(<<F("ctx_present", "uint8_t"), FIf("ctx_present", "ctx", "hipCtx_t")>>,
    <<FIf("ctx_present", "ctx", "hipCtx_t"), F("return_value", "hipError_t")>>)

handle_hipCtxPushCurrent ==
  Reply(<<F("ctx", "hipCtx_t")>>, <<F("return_value", "hipError_t")>>)

handle_hipCtxSetCurrent ==
  Reply(<<F("ctx", "hipCtx_t")>>, <<F("return_value", "hipError_t")>>)

handle_hipCtxGetCurrent ==
  Reply(<<>>, <<F("ctx", "hipCtx_t"), F("return_value", "hipError_t")>>)

handle_hipCtxGetDevice ==
  Reply(<<>>, <<F("device", "hipDevice_t"), F("return_value", "hipError_t")>>)

handle_hipCtxGetApiVersion ==
  Reply(<<F("ctx", "hipCtx_t")>>,
    <<F("apiVersion", "unsigned int"), F("return_value", "hipError_t")>>)

handle_hipCtxGetCacheConfig ==
  Reply(<<>>, <<F("cacheConfig", "hipFuncCache_t"), F("return_value", "hipError_t")>>)

handle_hipCtxSetCacheConfig ==
  Reply(<<F("cacheConfig", "hipFuncCache_t")>>, <<F("return_value", "hipError_t")>>)

handle_hipCtxSetSharedMemConfig ==
  Reply(<<F("config", "hipSharedMemConfig")>>, <<F("return_value", "hipError_t")>>)

handle_hipCtxGetSharedMemConfig ==
  Reply(<<>>, <<F("pConfig", "hipSharedMemConfig"), F("return_value", "hipError_t")>>)

handle_hipCtxSynchronize ==
  Reply(<<>>, <<F("return_value", "hipError_t")>>)

handle_hipCtxGetFlags ==
  Reply(<<>>, <<F("flags", "unsigned int"), F("return_value", "hipError_t")>>)

handle_hipCtxEnablePeerAccess ==
  Reply(<<F("peerCtx", "hipCtx_t"), F("flags", "unsigned int")>>,
    <<F("return_value", "hipError_t")>>)

handle_hipCtxDisablePeerAccess ==
  Reply(<<F("peerCtx", "hipCtx_t")>>, <<F("return_value", "hipError_t")>>)

handle_hipDevicePrimaryCtxGetState ==
  Reply(<<F("dev", "hipDevice_t")>>,
    <<F("flags", "unsigned int"), F("active", "int"), F("return_value", "hipError_t")>>)

handle_hipDevicePrimaryCtxRelease ==
  Reply(<<F("dev", "hipDevice_t")>>, <<F("return_value", "hipError_t")>>)

handle_hipDevicePrimaryCtxRetain ==
  Reply(<<F("dev", "hipDevice_t")>>, <<F("pctx", "hipCtx_t"), F("return_value", "hipError_t")>>)

handle_hipDevicePrimaryCtxReset ==
  Reply(<<F("dev", "hipDevice_t")>>, <<F("return_value", "hipError_t")>>)

handle_hipDevicePrimaryCtxSetFlags ==
  Reply(<<F("dev", "hipDevice_t"), F("flags", "unsigned int")>>,
    <<F("return_value", "hipError_t")>>)

handle_hipModuleGetFunction ==
  Reply(<<F("module", "hipModule_t"), F("kname_len", "size_t"), AllocArr("kname", {"kname_len"}),
      Arr("kname", "byte", {"kname_len"})>>,
    <<F("function", "hipFunction_t"), F("return_value", "hipError_t")>>)

handle_hipModuleGetFunctionCount ==
  Reply(<<F("mod", "hipModule_t")>>,
    <<F("count", "unsigned int"), F("return_value", "hipError_t")>>)

handle_hipLibraryUnload ==
  Reply(<<F("library", "hipLibrary_t")>>, <<F("return_value", "hipError_t")>>)

handle_hipLibraryGetKernel ==
  Reply(<<F("library", "hipLibrary_t"), F("name_len", "size_t"), AllocArr("name", {"name_len"}),
      Arr("name", "byte", {"name_len"})>>,
    <<F("pKernel", "hipKernel_t"), F("return_value", "hipError_t")>>)

handle_hipLibraryGetKernelCount ==
  Reply(<<F("library", "hipLibrary_t")>>,
    <<F("count", "unsigned int"), F("return_value", "hipError_t")>>)

handle_hipLibraryEnumerateKernels ==
  Reply(<<F("numKernels", "unsigned int"), AllocArr("kernels", {"numKernels"}),
      F("library", "hipLibrary_t")>>,
    <<Arr("kernels", "hipKernel_t", {"numKernels"}), F("return_value", "hipError_t")>>)

handle_hipKernelGetLibrary ==
  Reply(<<F("kernel", "hipKernel_t")>>,
    <<F("library", "hipLibrary_t"), F("return_value", "hipError_t")>>)

handle_hipFuncGetAttribute ==
  Reply(<<F("attrib", "hipFunction_attribute"), F("hfunc", "hipFunction_t")>>,
    <<F("value", "int"), F("return_value", "hipError_t")>>)

handle_hipModuleOccupancyMaxPotentialBlockSize ==
  Reply(<<F("f", "hipFunction_t"), F("dynSharedMemPerBlk", "size_t"), F("blockSizeLimit", "int")>>,
    <<F("gridSize", "int"), F("blockSize", "int"), F("return_value", "hipError_t")>>)

handle_hipModuleOccupancyMaxPotentialBlockSizeWithFlags ==
  Reply(<<F("f", "hipFunction_t"), F("dynSharedMemPerBlk", "size_t"), F("blockSizeLimit", "int"),
      F("flags", "unsigned int")>>,
    <<F("gridSize", "int"), F("blockSize", "int"), F("return_value", "hipError_t")>>)

handle_hipModuleOccupancyMaxActiveBlocksPerMultiprocessor ==
  Reply(<<F("f", "hipFunction_t"), F("blockSize", "int"), F("dynSharedMemPerBlk", "size_t")>>,
    <<F("numBlocks", "int"), F("return_value", "hipError_t")>>)

handle_hipModuleOccupancyMaxActiveBlocksPerMultiprocessorWithFlags ==
  Reply(<<F("f", "hipFunction_t"), F("blockSize", "int"), F("dynSharedMemPerBlk", "size_t"),
      F("flags", "unsigned int")>>,
    <<F("numBlocks", "int"), F("return_value", "hipError_t")>>)

handle_hipGetChannelDesc ==
  Reply(<<F("array", "hipArray_const_t")>>,
    <<F("desc", "hipChannelFormatDesc"), F("return_value", "hipError_t")>>)

handle_hipStreamBeginCapture ==
  Reply(<<F("stream", "hipStream_t"), F("mode", "hipStreamCaptureMode")>>,
    <<F("return_value", "hipError_t")>>)

handle_hipStreamBeginCaptureToGraph ==
  Reply(<<F("stream", "hipStream_t"), F("graph", "hipGraph_t"), F("numDependencies", "size_t"),
      AllocArr("dependencies", {"numDependencies"}),
      Arr("dependencies", "hipGraphNode_t", {"numDependencies"}),
      AllocArr("dependencyData", {"numDependencies"}),
      Arr("dependencyData", "hipGraphEdgeData", {"numDependencies"}),
      F("mode", "hipStreamCaptureMode")>>,
    <<F("return_value", "hipError_t")>>)

handle_hipStreamEndCapture ==
  Reply(<<F("stream", "hipStream_t")>>,
    <<F("pGraph", "hipGraph_t"), F("return_value", "hipError_t")>>)

handle_hipStreamGetCaptureInfo ==
  Reply(<<F("stream", "hipStream_t"), F("pId_present", "uint8_t"),
      FIf("pId_present", "pId", "unsigned long long")>>,
    <<F("pCaptureStatus", "hipStreamCaptureStatus"),
        FIf("pId_present", "pId", "unsigned long long"), F("return_value", "hipError_t")>>)

handle_hipStreamIsCapturing ==
  Reply(<<F("stream", "hipStream_t")>>,
    <<F("pCaptureStatus", "hipStreamCaptureStatus"), F("return_value", "hipError_t")>>)

handle_hipStreamUpdateCaptureDependencies ==
  Reply(<<F("stream", "hipStream_t"), F("numDependencies", "size_t"),
      AllocArr("dependencies", {"numDependencies"}),
      Arr("dependencies", "hipGraphNode_t", {"numDependencies"}), F("flags", "unsigned int")>>,
    <<F("return_value", "hipError_t")>>)

handle_hipThreadExchangeStreamCaptureMode ==
  Reply(<<F("mode", "hipStreamCaptureMode")>>,
    <<F("mode", "hipStreamCaptureMode"), F("return_value", "hipError_t")>>)

handle_hipGraphCreate ==
  Reply(<<F("flags", "unsigned int")>>,
    <<F("pGraph", "hipGraph_t"), F("return_value", "hipError_t")>>)

handle_hipGraphDestroy ==
  Reply(<<F("graph", "hipGraph_t")>>, <<F("return_value", "hipError_t")>>)

handle_hipGraphAddDependencies ==
  Reply(<<F("graph", "hipGraph_t"), F("numDependencies", "size_t"),
      AllocArr("from", {"numDependencies"}), Arr("from", "hipGraphNode_t", {"numDependencies"}),
      AllocArr("to", {"numDependencies"}), Arr("to", "hipGraphNode_t", {"numDependencies"})>>,
    <<F("return_value", "hipError_t")>>)

handle_hipGraphRemoveDependencies ==
  Reply(<<F("graph", "hipGraph_t"), F("numDependencies", "size_t"),
      AllocArr("from", {"numDependencies"}), Arr("from", "hipGraphNode_t", {"numDependencies"}),
      AllocArr("to", {"numDependencies"}), Arr("to", "hipGraphNode_t", {"numDependencies"})>>,
    <<F("return_value", "hipError_t")>>)

handle_hipGraphGetEdges ==
  Driver([numEdges : Out],
  Reply(<<F("graph", "hipGraph_t"), F("numEdges_requested", "size_t"), F("from_null", "uint8_t"),
      AllocUnless("from_null", "from"), F("to_null", "uint8_t"), AllocUnless("to_null", "to")>>,
    <<F("numEdges", "size_t"),
        ArrUnless("from_null", "from", "hipGraphNode_t", {"numEdges", "numEdges_requested"}),
        ArrUnless("to_null", "to", "hipGraphNode_t", {"numEdges", "numEdges_requested"}),
        F("return_value", "hipError_t")>>))

handle_hipGraphGetNodes ==
  Driver([numNodes : Out],
  Reply(<<F("graph", "hipGraph_t"), F("numNodes_requested", "size_t"), F("nodes_null", "uint8_t"),
      AllocUnless("nodes_null", "nodes")>>,
    <<F("numNodes", "size_t"),
        ArrUnless("nodes_null", "nodes", "hipGraphNode_t", {"numNodes", "numNodes_requested"}),
        F("return_value", "hipError_t")>>))

handle_hipGraphGetRootNodes ==
  Driver([pNumRootNodes : Out],
  Reply(<<F("graph", "hipGraph_t"), F("pNumRootNodes_requested", "size_t"),
      F("pRootNodes_null", "uint8_t"), AllocUnless("pRootNodes_null", "pRootNodes")>>,
    <<F("pNumRootNodes", "size_t"),
        ArrUnless("pRootNodes_null", "pRootNodes", "hipGraphNode_t",
            {"pNumRootNodes", "pNumRootNodes_requested"}),
        F("return_value", "hipError_t")>>))

handle_hipGraphNodeGetDependencies ==
  Driver([pNumDependencies : Out],
  Reply(<<F("node", "hipGraphNode_t"), F("pNumDependencies_requested", "size_t"),
      F("pDependencies_null", "uint8_t"), AllocUnless("pDependencies_null", "pDependencies")>>,
    <<F("pNumDependencies", "size_t"),
        ArrUnless("pDependencies_null", "pDependencies", "hipGraphNode_t",
            {"pNumDependencies", "pNumDependencies_requested"}),
        F("return_value", "hipError_t")>>))

handle_hipGraphNodeGetDependentNodes ==
  Driver([pNumDependentNodes : Out],
  Reply(<<F("node", "hipGraphNode_t"), F("pNumDependentNodes_requested", "size_t"),
      F("pDependentNodes_null", "uint8_t"),
      AllocUnless("pDependentNodes_null", "pDependentNodes")>>,
    <<F("pNumDependentNodes", "size_t"),
        ArrUnless("pDependentNodes_null", "pDependentNodes", "hipGraphNode_t",
            {"pNumDependentNodes", "pNumDependentNodes_requested"}),
        F("return_value", "hipError_t")>>))

handle_hipGraphNodeGetType ==
  Reply(<<F("node", "hipGraphNode_t")>>,
    <<F("pType", "hipGraphNodeType"), F("return_value", "hipError_t")>>)

handle_hipGraphDestroyNode ==
  Reply(<<F("node", "hipGraphNode_t")>>, <<F("return_value", "hipError_t")>>)

handle_hipGraphClone ==
  Reply(<<F("originalGraph", "hipGraph_t")>>,
    <<F("pGraphClone", "hipGraph_t"), F("return_value", "hipError_t")>>)

handle_hipGraphNodeFindInClone ==
  Reply(<<F("originalNode", "hipGraphNode_t"), F("clonedGraph", "hipGraph_t")>>,
    <<F("pNode", "hipGraphNode_t"), F("return_value", "hipError_t")>>)

handle_hipGraphInstantiate ==
  Reply(<<F("graph", "hipGraph_t"), F("pErrorNode_present", "uint8_t"),
      FIf("pErrorNode_present", "pErrorNode", "hipGraphNode_t"), F("bufferSize", "size_t"),
      F("pLogBuffer_null", "uint8_t"), AllocUnless("pLogBuffer_null", "pLogBuffer")>>,
    <<F("pGraphExec", "hipGraphExec_t"), FIf("pErrorNode_present", "pErrorNode", "hipGraphNode_t"),
        ArrUnless("pLogBuffer_null", "pLogBuffer", "char", {"bufferSize"}),
        F("return_value", "hipError_t")>>)

handle_hipGraphInstantiateWithFlags ==
  Reply(<<F("graph", "hipGraph_t"), F("flags", "unsigned long long")>>,
    <<F("pGraphExec", "hipGraphExec_t"), F("return_value", "hipError_t")>>)

handle_hipGraphInstantiateWithParams ==
  Reply(<<F("graph", "hipGraph_t"), F("instantiateParams", "hipGraphInstantiateParams")>>,
    <<F("pGraphExec", "hipGraphExec_t"), F("instantiateParams", "hipGraphInstantiateParams"),
        F("return_value", "hipError_t")>>)

handle_hipGraphLaunch ==
  Reply(<<F("graphExec", "hipGraphExec_t"), F("stream", "hipStream_t")>>,
    <<F("return_value", "hipError_t")>>)

handle_hipGraphUpload ==
  Reply(<<F("graphExec", "hipGraphExec_t"), F("stream", "hipStream_t")>>,
    <<F("return_value", "hipError_t")>>)

handle_hipGraphExecGetFlags ==
  Reply(<<F("graphExec", "hipGraphExec_t")>>,
    <<F("flags", "unsigned long long"), F("return_value", "hipError_t")>>)

handle_hipGraphExecDestroy ==
  Reply(<<F("graphExec", "hipGraphExec_t")>>, <<F("return_value", "hipError_t")>>)

handle_hipGraphExecUpdate ==
  Reply(<<F("hGraphExec", "hipGraphExec_t"), F("hGraph", "hipGraph_t"),
      F("hErrorNode_out_present", "uint8_t"),
      FIf("hErrorNode_out_present", "hErrorNode_out", "hipGraphNode_t")>>,
    <<FIf("hErrorNode_out_present", "hErrorNode_out", "hipGraphNode_t"),
        F("updateResult_out", "hipGraphExecUpdateResult"), F("return_value", "hipError_t")>>)

handle_hipGraphAddMemsetNode ==
  Reply(<<F("graph", "hipGraph_t"), F("numDependencies", "size_t"),
      AllocArr("pDependencies", {"numDependencies"}),
      Arr("pDependencies", "hipGraphNode_t", {"numDependencies"}),
      F("pMemsetParams", "hipMemsetParams")>>,
    <<F("pGraphNode", "hipGraphNode_t"), F("return_value", "hipError_t")>>)

handle_hipGraphMemsetNodeGetParams ==
  Reply(<<F("node", "hipGraphNode_t")>>,
    <<F("pNodeParams", "hipMemsetParams"), F("return_value", "hipError_t")>>)

handle_hipGraphMemsetNodeSetParams ==
  Reply(<<F("node", "hipGraphNode_t"), F("pNodeParams", "hipMemsetParams")>>,
    <<F("return_value", "hipError_t")>>)

handle_hipGraphExecMemsetNodeSetParams ==
  Reply(<<F("hGraphExec", "hipGraphExec_t"), F("node", "hipGraphNode_t"),
      F("pNodeParams", "hipMemsetParams")>>,
    <<F("return_value", "hipError_t")>>)

handle_hipGraphAddChildGraphNode ==
  Reply(<<F("graph", "hipGraph_t"), F("numDependencies", "size_t"),
      AllocArr("pDependencies", {"numDependencies"}),
      Arr("pDependencies", "hipGraphNode_t", {"numDependencies"}), F("childGraph", "hipGraph_t")>>,
    <<F("pGraphNode", "hipGraphNode_t"), F("return_value", "hipError_t")>>)

handle_hipGraphChildGraphNodeGetGraph ==
  Reply(<<F("node", "hipGraphNode_t")>>,
    <<F("pGraph", "hipGraph_t"), F("return_value", "hipError_t")>>)

handle_hipGraphExecChildGraphNodeSetParams ==
  Reply(<<F("hGraphExec", "hipGraphExec_t"), F("node", "hipGraphNode_t"),
      F("childGraph", "hipGraph_t")>>,
    <<F("return_value", "hipError_t")>>)

handle_hipGraphAddEmptyNode ==
  Reply(<<F("graph", "hipGraph_t"), F("numDependencies", "size_t"),
      AllocArr("pDependencies", {"numDependencies"}),
      Arr("pDependencies", "hipGraphNode_t", {"numDependencies"})>>,
    <<F("pGraphNode", "hipGraphNode_t"), F("return_value", "hipError_t")>>)

handle_hipGraphAddEventRecordNode ==
  Reply(<<F("graph", "hipGraph_t"), F("numDependencies", "size_t"),
      AllocArr("pDependencies", {"numDependencies"}),
      Arr("pDependencies", "hipGraphNode_t", {"numDependencies"}), F("event", "hipEvent_t")>>,
    <<F("pGraphNode", "hipGraphNode_t"), F("return_value", "hipError_t")>>)

handle_hipGraphEventRecordNodeGetEvent ==
  Reply(<<F("node", "hipGraphNode_t")>>,
    <<F("event_out", "hipEvent_t"), F("return_value", "hipError_t")>>)

handle_hipGraphEventRecordNodeSetEvent ==
  Reply(<<F("node", "hipGraphNode_t"), F("event", "hipEvent_t")>>,
    <<F("return_value", "hipError_t")>>)

handle_hipGraphExecEventRecordNodeSetEvent ==
  Reply(<<F("hGraphExec", "hipGraphExec_t"), F("hNode", "hipGraphNode_t"),
      F("event", "hipEvent_t")>>,
    <<F("return_value", "hipError_t")>>)

handle_hipGraphAddEventWaitNode ==
  Reply(<<F("graph", "hipGraph_t"), F("numDependencies", "size_t"),
      AllocArr("pDependencies", {"numDependencies"}),
      Arr("pDependencies", "hipGraphNode_t", {"numDependencies"}), F("event", "hipEvent_t")>>,
    <<F("pGraphNode", "hipGraphNode_t"), F("return_value", "hipError_t")>>)

handle_hipGraphEventWaitNodeGetEvent ==
  Reply(<<F("node", "hipGraphNode_t")>>,
    <<F("event_out", "hipEvent_t"), F("return_value", "hipError_t")>>)

handle_hipGraphEventWaitNodeSetEvent ==
  Reply(<<F("node", "hipGraphNode_t"), F("event", "hipEvent_t")>>,
    <<F("return_value", "hipError_t")>>)

handle_hipGraphExecEventWaitNodeSetEvent ==
  Reply(<<F("hGraphExec", "hipGraphExec_t"), F("hNode", "hipGraphNode_t"),
      F("event", "hipEvent_t")>>,
    <<F("return_value", "hipError_t")>>)

handle_hipGraphAddMemFreeNode ==
  Reply(<<F("graph", "hipGraph_t"), F("numDependencies", "size_t"),
      AllocArr("pDependencies", {"numDependencies"}),
      Arr("pDependencies", "hipGraphNode_t", {"numDependencies"}), F("dev_ptr", "void*")>>,
    <<F("pGraphNode", "hipGraphNode_t"), F("return_value", "hipError_t")>>)

handle_hipGraphMemFreeNodeGetParams ==
  Reply(<<F("node", "hipGraphNode_t"), Alloc("dev_ptr")>>,
    <<F("dev_ptr", "byte[8]"), F("return_value", "hipError_t")>>)

handle_hipGraphKernelNodeCopyAttributes ==
  Reply(<<F("hSrc", "hipGraphNode_t"), F("hDst", "hipGraphNode_t")>>,
    <<F("return_value", "hipError_t")>>)

handle_hipGraphNodeSetEnabled ==
  Reply(<<F("hGraphExec", "hipGraphExec_t"), F("hNode", "hipGraphNode_t"),
      F("isEnabled", "unsigned int")>>,
    <<F("return_value", "hipError_t")>>)

handle_hipGraphNodeGetEnabled ==
  Reply(<<F("hGraphExec", "hipGraphExec_t"), F("hNode", "hipGraphNode_t")>>,
    <<F("isEnabled", "unsigned int"), F("return_value", "hipError_t")>>)

handle_hipDrvGraphAddMemsetNode ==
  Reply(<<F("hGraph", "hipGraph_t"), F("numDependencies", "size_t"),
      AllocArr("dependencies", {"numDependencies"}),
      Arr("dependencies", "hipGraphNode_t", {"numDependencies"}),
      F("memsetParams", "hipMemsetParams"), F("ctx", "hipCtx_t")>>,
    <<F("phGraphNode", "hipGraphNode_t"), F("return_value", "hipError_t")>>)

handle_hipDrvGraphAddMemFreeNode ==
  Reply(<<F("hGraph", "hipGraph_t"), F("numDependencies", "size_t"),
      AllocArr("dependencies", {"numDependencies"}),
      Arr("dependencies", "hipGraphNode_t", {"numDependencies"}), F("dptr", "hipDeviceptr_t")>>,
    <<F("phGraphNode", "hipGraphNode_t"), F("return_value", "hipError_t")>>)

handle_hipDrvGraphExecMemsetNodeSetParams ==
  Reply(<<F("hGraphExec", "hipGraphExec_t"), F("hNode", "hipGraphNode_t"),
      F("memsetParams", "hipMemsetParams"), F("ctx", "hipCtx_t")>>,
    <<F("return_value", "hipError_t")>>)

HipHandlersTable ==
  [hipGetLastError |-> handle_hipGetLastError, hipExtGetLastError |-> handle_hipExtGetLastError,
   hipPeekAtLastError |-> handle_hipPeekAtLastError,
   hipGetDevicePropertiesR0600 |-> handle_hipGetDevicePropertiesR0600,
   hipDeviceGetName |-> handle_hipDeviceGetName, hipDeviceTotalMem |-> handle_hipDeviceTotalMem,
   hipDeviceGetAttribute |-> handle_hipDeviceGetAttribute,
   hipDriverGetVersion |-> handle_hipDriverGetVersion,
   hipRuntimeGetVersion |-> handle_hipRuntimeGetVersion,
   hipDeviceComputeCapability |-> handle_hipDeviceComputeCapability,
   hipDeviceGetUuid |-> handle_hipDeviceGetUuid,
   hipDeviceGetP2PAttribute |-> handle_hipDeviceGetP2PAttribute,
   hipDeviceGetPCIBusId |-> handle_hipDeviceGetPCIBusId,
   hipDeviceGetByPCIBusId |-> handle_hipDeviceGetByPCIBusId,
   hipDeviceSynchronize |-> handle_hipDeviceSynchronize,
   hipDeviceGetDefaultMemPool |-> handle_hipDeviceGetDefaultMemPool,
   hipDeviceSetMemPool |-> handle_hipDeviceSetMemPool,
   hipDeviceGetMemPool |-> handle_hipDeviceGetMemPool,
   hipDeviceGetTexture1DLinearMaxWidth |-> handle_hipDeviceGetTexture1DLinearMaxWidth,
   hipDeviceSetCacheConfig |-> handle_hipDeviceSetCacheConfig,
   hipDeviceGetCacheConfig |-> handle_hipDeviceGetCacheConfig,
   hipDeviceGetLimit |-> handle_hipDeviceGetLimit, hipDeviceSetLimit |-> handle_hipDeviceSetLimit,
   hipDeviceGetSharedMemConfig |-> handle_hipDeviceGetSharedMemConfig,
   hipGetDeviceFlags |-> handle_hipGetDeviceFlags,
   hipDeviceSetSharedMemConfig |-> handle_hipDeviceSetSharedMemConfig,
   hipSetDeviceFlags |-> handle_hipSetDeviceFlags,
   hipChooseDeviceR0600 |-> handle_hipChooseDeviceR0600,
   hipExtGetLinkTypeAndHopCount |-> handle_hipExtGetLinkTypeAndHopCount,
   hipDeviceGetStreamPriorityRange |-> handle_hipDeviceGetStreamPriorityRange,
   hipDeviceGraphMemTrim |-> handle_hipDeviceGraphMemTrim,
   hipProfilerStart |-> handle_hipProfilerStart, hipProfilerStop |-> handle_hipProfilerStop,
   hipIpcGetMemHandle |-> handle_hipIpcGetMemHandle,
   hipIpcOpenMemHandle |-> handle_hipIpcOpenMemHandle,
   hipIpcCloseMemHandle |-> handle_hipIpcCloseMemHandle,
   hipIpcGetEventHandle |-> handle_hipIpcGetEventHandle,
   hipIpcOpenEventHandle |-> handle_hipIpcOpenEventHandle,
   hipStreamCreate |-> handle_hipStreamCreate,
   hipStreamCreateWithFlags |-> handle_hipStreamCreateWithFlags,
   hipStreamCreateWithPriority |-> handle_hipStreamCreateWithPriority,
   hipStreamDestroy |-> handle_hipStreamDestroy, hipStreamQuery |-> handle_hipStreamQuery,
   hipStreamSynchronize |-> handle_hipStreamSynchronize,
   hipStreamWaitEvent |-> handle_hipStreamWaitEvent, hipStreamGetFlags |-> handle_hipStreamGetFlags,
   hipStreamGetId |-> handle_hipStreamGetId, hipStreamGetPriority |-> handle_hipStreamGetPriority,
   hipStreamGetDevice |-> handle_hipStreamGetDevice,
   hipExtStreamCreateWithCUMask |-> handle_hipExtStreamCreateWithCUMask,
   hipExtStreamGetCUMask |-> handle_hipExtStreamGetCUMask,
   hipStreamSetAttribute |-> handle_hipStreamSetAttribute,
   hipStreamGetAttribute |-> handle_hipStreamGetAttribute,
   hipStreamCopyAttributes |-> handle_hipStreamCopyAttributes,
   hipStreamWaitValue32 |-> handle_hipStreamWaitValue32,
   hipStreamWaitValue64 |-> handle_hipStreamWaitValue64,
   hipStreamWriteValue32 |-> handle_hipStreamWriteValue32,
   hipStreamWriteValue64 |-> handle_hipStreamWriteValue64,
   hipStreamBatchMemOp |-> handle_hipStreamBatchMemOp,
   hipGraphAddBatchMemOpNode |-> handle_hipGraphAddBatchMemOpNode,
   hipGraphBatchMemOpNodeSetParams |-> handle_hipGraphBatchMemOpNodeSetParams,
   hipGraphExecBatchMemOpNodeSetParams |-> handle_hipGraphExecBatchMemOpNodeSetParams,
   hipEventCreateWithFlags |-> handle_hipEventCreateWithFlags,
   hipEventCreate |-> handle_hipEventCreate,
   hipEventRecordWithFlags |-> handle_hipEventRecordWithFlags,
   hipEventRecord |-> handle_hipEventRecord, hipEventDestroy |-> handle_hipEventDestroy,
   hipEventSynchronize |-> handle_hipEventSynchronize,
   hipEventElapsedTime |-> handle_hipEventElapsedTime, hipEventQuery |-> handle_hipEventQuery,
   hipPointerGetAttributes |-> handle_hipPointerGetAttributes, hipMalloc |-> handle_hipMalloc,
   hipExtMallocWithFlags |-> handle_hipExtMallocWithFlags,
   hipMallocManaged |-> handle_hipMallocManaged, hipMemPrefetchAsync |-> handle_hipMemPrefetchAsync,
   hipMemPrefetchAsync_v2 |-> handle_hipMemPrefetchAsync_v2, hipMemAdvise |-> handle_hipMemAdvise,
   hipMemAdvise_v2 |-> handle_hipMemAdvise_v2,
   hipMemRangeGetAttribute |-> handle_hipMemRangeGetAttribute,
   hipStreamAttachMemAsync |-> handle_hipStreamAttachMemAsync,
   hipMallocAsync |-> handle_hipMallocAsync, hipFreeAsync |-> handle_hipFreeAsync,
   hipMemPoolTrimTo |-> handle_hipMemPoolTrimTo, hipMemPoolSetAccess |-> handle_hipMemPoolSetAccess,
   hipMemPoolGetAccess |-> handle_hipMemPoolGetAccess, hipMemPoolCreate |-> handle_hipMemPoolCreate,
   hipMemPoolDestroy |-> handle_hipMemPoolDestroy,
   hipMallocFromPoolAsync |-> handle_hipMallocFromPoolAsync,
   hipMemPoolExportPointer |-> handle_hipMemPoolExportPointer,
   hipMemPoolImportPointer |-> handle_hipMemPoolImportPointer,
   hipMallocPitch |-> handle_hipMallocPitch, hipMemAllocPitch |-> handle_hipMemAllocPitch,
   hipFree |-> handle_hipFree, hipMemcpyHtoD |-> handle_hipMemcpyHtoD,
   hipMemcpyDtoH |-> handle_hipMemcpyDtoH, hipMemcpyDtoD |-> handle_hipMemcpyDtoD,
   hipMemcpyAtoD |-> handle_hipMemcpyAtoD, hipMemcpyDtoA |-> handle_hipMemcpyDtoA,
   hipMemcpyAtoA |-> handle_hipMemcpyAtoA, hipMemcpyDtoDAsync |-> handle_hipMemcpyDtoDAsync,
   hipMemcpyAtoH |-> handle_hipMemcpyAtoH, hipMemcpyHtoA |-> handle_hipMemcpyHtoA,
   hipMemcpy2DArrayToArray |-> handle_hipMemcpy2DArrayToArray,
   hipMemcpyPeer |-> handle_hipMemcpyPeer, hipMemcpyPeerAsync |-> handle_hipMemcpyPeerAsync,
   hipModuleGetGlobal |-> handle_hipModuleGetGlobal, hipMemset |-> handle_hipMemset,
   hipMemsetD8 |-> handle_hipMemsetD8, hipMemsetD8Async |-> handle_hipMemsetD8Async,
   hipMemsetD16 |-> handle_hipMemsetD16, hipMemsetD16Async |-> handle_hipMemsetD16Async,
   hipMemsetD32 |-> handle_hipMemsetD32, hipMemsetAsync |-> handle_hipMemsetAsync,
   hipMemsetD32Async |-> handle_hipMemsetD32Async, hipMemset2D |-> handle_hipMemset2D,
   hipMemset2DAsync |-> handle_hipMemset2DAsync, hipMemset3D |-> handle_hipMemset3D,
   hipMemset3DAsync |-> handle_hipMemset3DAsync, hipMemsetD2D8 |-> handle_hipMemsetD2D8,
   hipMemsetD2D8Async |-> handle_hipMemsetD2D8Async, hipMemsetD2D16 |-> handle_hipMemsetD2D16,
   hipMemsetD2D16Async |-> handle_hipMemsetD2D16Async, hipMemsetD2D32 |-> handle_hipMemsetD2D32,
   hipMemsetD2D32Async |-> handle_hipMemsetD2D32Async, hipMemGetInfo |-> handle_hipMemGetInfo,
   hipMemPtrGetInfo |-> handle_hipMemPtrGetInfo,
   hipMemGetAddressRange |-> handle_hipMemGetAddressRange, hipMallocArray |-> handle_hipMallocArray,
   hipArrayCreate |-> handle_hipArrayCreate, hipArrayDestroy |-> handle_hipArrayDestroy,
   hipArray3DCreate |-> handle_hipArray3DCreate, hipMalloc3D |-> handle_hipMalloc3D,
   hipFreeArray |-> handle_hipFreeArray, hipMalloc3DArray |-> handle_hipMalloc3DArray,
   hipArrayGetInfo |-> handle_hipArrayGetInfo,
   hipArrayGetDescriptor |-> handle_hipArrayGetDescriptor,
   hipArray3DGetDescriptor |-> handle_hipArray3DGetDescriptor,
   hipMallocMipmappedArray |-> handle_hipMallocMipmappedArray,
   hipFreeMipmappedArray |-> handle_hipFreeMipmappedArray,
   hipGetMipmappedArrayLevel |-> handle_hipGetMipmappedArrayLevel,
   hipMipmappedArrayCreate |-> handle_hipMipmappedArrayCreate,
   hipMipmappedArrayDestroy |-> handle_hipMipmappedArrayDestroy,
   hipMipmappedArrayGetLevel |-> handle_hipMipmappedArrayGetLevel,
   hipDeviceCanAccessPeer |-> handle_hipDeviceCanAccessPeer,
   hipDeviceEnablePeerAccess |-> handle_hipDeviceEnablePeerAccess,
   hipDeviceDisablePeerAccess |-> handle_hipDeviceDisablePeerAccess,
   hipCtxCreate |-> handle_hipCtxCreate, hipCtxDestroy |-> handle_hipCtxDestroy,
   hipCtxPopCurrent |-> handle_hipCtxPopCurrent, hipCtxPushCurrent |-> handle_hipCtxPushCurrent,
   hipCtxSetCurrent |-> handle_hipCtxSetCurrent, hipCtxGetCurrent |-> handle_hipCtxGetCurrent,
   hipCtxGetDevice |-> handle_hipCtxGetDevice, hipCtxGetApiVersion |-> handle_hipCtxGetApiVersion,
   hipCtxGetCacheConfig |-> handle_hipCtxGetCacheConfig,
   hipCtxSetCacheConfig |-> handle_hipCtxSetCacheConfig,
   hipCtxSetSharedMemConfig |-> handle_hipCtxSetSharedMemConfig,
   hipCtxGetSharedMemConfig |-> handle_hipCtxGetSharedMemConfig,
   hipCtxSynchronize |-> handle_hipCtxSynchronize, hipCtxGetFlags |-> handle_hipCtxGetFlags,
   hipCtxEnablePeerAccess |-> handle_hipCtxEnablePeerAccess,
   hipCtxDisablePeerAccess |-> handle_hipCtxDisablePeerAccess,
   hipDevicePrimaryCtxGetState |-> handle_hipDevicePrimaryCtxGetState,
   hipDevicePrimaryCtxRelease |-> handle_hipDevicePrimaryCtxRelease,
   hipDevicePrimaryCtxRetain |-> handle_hipDevicePrimaryCtxRetain,
   hipDevicePrimaryCtxReset |-> handle_hipDevicePrimaryCtxReset,
   hipDevicePrimaryCtxSetFlags |-> handle_hipDevicePrimaryCtxSetFlags,
   hipModuleGetFunction |-> handle_hipModuleGetFunction,
   hipModuleGetFunctionCount |-> handle_hipModuleGetFunctionCount,
   hipLibraryUnload |-> handle_hipLibraryUnload, hipLibraryGetKernel |-> handle_hipLibraryGetKernel,
   hipLibraryGetKernelCount |-> handle_hipLibraryGetKernelCount,
   hipLibraryEnumerateKernels |-> handle_hipLibraryEnumerateKernels,
   hipKernelGetLibrary |-> handle_hipKernelGetLibrary,
   hipFuncGetAttribute |-> handle_hipFuncGetAttribute,
   hipModuleOccupancyMaxPotentialBlockSize |-> handle_hipModuleOccupancyMaxPotentialBlockSize,
   hipModuleOccupancyMaxPotentialBlockSizeWithFlags |-> handle_hipModuleOccupancyMaxPotentialBlockSizeWithFlags,
   hipModuleOccupancyMaxActiveBlocksPerMultiprocessor |-> handle_hipModuleOccupancyMaxActiveBlocksPerMultiprocessor,
   hipModuleOccupancyMaxActiveBlocksPerMultiprocessorWithFlags |-> handle_hipModuleOccupancyMaxActiveBlocksPerMultiprocessorWithFlags,
   hipCreateTextureObject |-> handle_hipCreateTextureObject,
   hipDestroyTextureObject |-> handle_hipDestroyTextureObject,
   hipGetChannelDesc |-> handle_hipGetChannelDesc,
   hipGetTextureObjectResourceDesc |-> handle_hipGetTextureObjectResourceDesc,
   hipGetTextureObjectResourceViewDesc |-> handle_hipGetTextureObjectResourceViewDesc,
   hipGetTextureObjectTextureDesc |-> handle_hipGetTextureObjectTextureDesc,
   hipTexObjectCreate |-> handle_hipTexObjectCreate,
   hipTexObjectDestroy |-> handle_hipTexObjectDestroy,
   hipTexObjectGetResourceDesc |-> handle_hipTexObjectGetResourceDesc,
   hipTexObjectGetResourceViewDesc |-> handle_hipTexObjectGetResourceViewDesc,
   hipTexObjectGetTextureDesc |-> handle_hipTexObjectGetTextureDesc,
   hipCreateSurfaceObject |-> handle_hipCreateSurfaceObject,
   hipDestroySurfaceObject |-> handle_hipDestroySurfaceObject,
   hipStreamBeginCapture |-> handle_hipStreamBeginCapture,
   hipStreamBeginCaptureToGraph |-> handle_hipStreamBeginCaptureToGraph,
   hipStreamEndCapture |-> handle_hipStreamEndCapture,
   hipStreamGetCaptureInfo |-> handle_hipStreamGetCaptureInfo,
   hipStreamIsCapturing |-> handle_hipStreamIsCapturing,
   hipStreamUpdateCaptureDependencies |-> handle_hipStreamUpdateCaptureDependencies,
   hipThreadExchangeStreamCaptureMode |-> handle_hipThreadExchangeStreamCaptureMode,
   hipGraphCreate |-> handle_hipGraphCreate, hipGraphDestroy |-> handle_hipGraphDestroy,
   hipGraphAddDependencies |-> handle_hipGraphAddDependencies,
   hipGraphRemoveDependencies |-> handle_hipGraphRemoveDependencies,
   hipGraphGetEdges |-> handle_hipGraphGetEdges, hipGraphGetNodes |-> handle_hipGraphGetNodes,
   hipGraphGetRootNodes |-> handle_hipGraphGetRootNodes,
   hipGraphNodeGetDependencies |-> handle_hipGraphNodeGetDependencies,
   hipGraphNodeGetDependentNodes |-> handle_hipGraphNodeGetDependentNodes,
   hipGraphNodeGetType |-> handle_hipGraphNodeGetType,
   hipGraphDestroyNode |-> handle_hipGraphDestroyNode, hipGraphClone |-> handle_hipGraphClone,
   hipGraphNodeFindInClone |-> handle_hipGraphNodeFindInClone,
   hipGraphInstantiate |-> handle_hipGraphInstantiate,
   hipGraphInstantiateWithFlags |-> handle_hipGraphInstantiateWithFlags,
   hipGraphInstantiateWithParams |-> handle_hipGraphInstantiateWithParams,
   hipGraphLaunch |-> handle_hipGraphLaunch, hipGraphUpload |-> handle_hipGraphUpload,
   hipGraphExecGetFlags |-> handle_hipGraphExecGetFlags,
   hipGraphExecDestroy |-> handle_hipGraphExecDestroy,
   hipGraphExecUpdate |-> handle_hipGraphExecUpdate,
   hipGraphAddMemsetNode |-> handle_hipGraphAddMemsetNode,
   hipGraphMemsetNodeGetParams |-> handle_hipGraphMemsetNodeGetParams,
   hipGraphMemsetNodeSetParams |-> handle_hipGraphMemsetNodeSetParams,
   hipGraphExecMemsetNodeSetParams |-> handle_hipGraphExecMemsetNodeSetParams,
   hipGraphAddChildGraphNode |-> handle_hipGraphAddChildGraphNode,
   hipGraphChildGraphNodeGetGraph |-> handle_hipGraphChildGraphNodeGetGraph,
   hipGraphExecChildGraphNodeSetParams |-> handle_hipGraphExecChildGraphNodeSetParams,
   hipGraphAddEmptyNode |-> handle_hipGraphAddEmptyNode,
   hipGraphAddEventRecordNode |-> handle_hipGraphAddEventRecordNode,
   hipGraphEventRecordNodeGetEvent |-> handle_hipGraphEventRecordNodeGetEvent,
   hipGraphEventRecordNodeSetEvent |-> handle_hipGraphEventRecordNodeSetEvent,
   hipGraphExecEventRecordNodeSetEvent |-> handle_hipGraphExecEventRecordNodeSetEvent,
   hipGraphAddEventWaitNode |-> handle_hipGraphAddEventWaitNode,
   hipGraphEventWaitNodeGetEvent |-> handle_hipGraphEventWaitNodeGetEvent,
   hipGraphEventWaitNodeSetEvent |-> handle_hipGraphEventWaitNodeSetEvent,
   hipGraphExecEventWaitNodeSetEvent |-> handle_hipGraphExecEventWaitNodeSetEvent,
   hipGraphAddMemFreeNode |-> handle_hipGraphAddMemFreeNode,
   hipGraphMemFreeNodeGetParams |-> handle_hipGraphMemFreeNodeGetParams,
   hipGraphKernelNodeCopyAttributes |-> handle_hipGraphKernelNodeCopyAttributes,
   hipGraphNodeSetEnabled |-> handle_hipGraphNodeSetEnabled,
   hipGraphNodeGetEnabled |-> handle_hipGraphNodeGetEnabled,
   hipDrvGraphAddMemsetNode |-> handle_hipDrvGraphAddMemsetNode,
   hipDrvGraphAddMemFreeNode |-> handle_hipDrvGraphAddMemFreeNode,
   hipDrvGraphExecMemsetNodeSetParams |-> handle_hipDrvGraphExecMemsetNodeSetParams,
   hipMemAddressFree |-> handle_hipMemAddressFree,
   hipMemAddressReserve |-> handle_hipMemAddressReserve, hipMemCreate |-> handle_hipMemCreate,
   hipMemGetAccess |-> handle_hipMemGetAccess,
   hipMemGetAllocationGranularity |-> handle_hipMemGetAllocationGranularity,
   hipMemGetAllocationPropertiesFromHandle |-> handle_hipMemGetAllocationPropertiesFromHandle,
   hipMemMap |-> handle_hipMemMap, hipMemMapArrayAsync |-> handle_hipMemMapArrayAsync,
   hipMemRelease |-> handle_hipMemRelease,
   hipMemRetainAllocationHandle |-> handle_hipMemRetainAllocationHandle,
   hipMemSetAccess |-> handle_hipMemSetAccess, hipMemUnmap |-> handle_hipMemUnmap]
=============================================================================

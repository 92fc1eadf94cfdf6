----------------------------- MODULE CudaStubs -----------------------------
(*****************************************************************************)
(* The generated CUDA driver stubs of the client,                            *)
(* codegen/gen_cuda_client.cpp: for each the handle it is routed by, its     *)
(* request and its response, and the client tables it updates.               *)
(*****************************************************************************)
EXTENDS CudaMemoryStubs

\* cuda_client.cpp: the device-to-host copies that completed since the last
\* synchronization, each a row header and its bytes (one unit here).
lupine_read_deferred_dtoh_copies ==
  <<F("copy_count", "uint32_t"), Arr("copies", "lupine_host_rows", {"copy_count"})>>

\* device_stdout.cpp: what kernels printed.
lupine_read_captured_stdout ==
  <<F("output_size", "uint64_t"), Arr("output", "byte", {"output_size"})>>

cuDeviceGetLuid ==
  Call("device", <<F("dev", "CUdevice")>>,
    <<F("luid", "byte[8]"), F("deviceNodeMask", "unsigned int"), F("return_value", "CUresult")>>)

cuDeviceGetTexture1DLinearMaxWidth ==
  Call("device", <<F("format", "CUarray_format"), F("numChannels", "unsigned"),
      F("dev", "CUdevice")>>,
    <<F("maxWidthInElements", "size_t"), F("return_value", "CUresult")>>)

cuDeviceSetMemPool ==
  Call("device", <<F("dev", "CUdevice"), F("pool", "CUmemoryPool")>>,
    <<F("return_value", "CUresult")>>)

cuDeviceGetMemPool ==
  Then({"note memory_pool"},
  Call("device", <<F("dev", "CUdevice")>>,
    <<F("pool", "CUmemoryPool"), F("return_value", "CUresult")>>))

cuDeviceGetDefaultMemPool ==
  Then({"note memory_pool"},
  Call("device", <<F("dev", "CUdevice")>>,
    <<F("pool_out", "CUmemoryPool"), F("return_value", "CUresult")>>))

cuDeviceGetExecAffinitySupport ==
  Call("device", <<F("type", "CUexecAffinityType"), F("dev", "CUdevice")>>,
    <<F("pi", "int"), F("return_value", "CUresult")>>)

cuFlushGPUDirectRDMAWrites ==
  Call("default", <<F("target", "CUflushGPUDirectRDMAWritesTarget"),
      F("scope", "CUflushGPUDirectRDMAWritesScope")>>,
    <<F("return_value", "CUresult")>>)

cuDeviceGetProperties ==
  Call("device", <<F("dev", "CUdevice")>>,
    <<F("prop", "CUdevprop"), F("return_value", "CUresult")>>)

cuDeviceComputeCapability ==
  Call("device", <<F("dev", "CUdevice")>>,
    <<F("major", "int"), F("minor", "int"), F("return_value", "CUresult")>>)

cuCtxDestroy_v2 ==
  Then({"forget context", "invalidate_current_context_cache"},
  Call("context", <<F("ctx", "CUcontext")>>, <<F("return_value", "CUresult")>>))

cuCtxGetFlags ==
  Call("default", <<>>, <<F("flags", "unsigned int"), F("return_value", "CUresult")>>)

cuCtxGetId ==
  Call("context", <<F("ctx", "CUcontext")>>,
    <<F("ctxId", "unsigned long long"), F("return_value", "CUresult")>>)

cuCtxSynchronize ==
  Then({"sync_mapped_device_to_host"},
  Call("current_context", <<>>,
    lupine_read_deferred_dtoh_copies \o lupine_read_captured_stdout \o
        <<F("return_value", "CUresult")>>))

cuCtxSynchronize_v2 ==
  Then({"sync_mapped_device_to_host"},
  Call("context", <<F("ctx", "CUcontext")>>,
    lupine_read_deferred_dtoh_copies \o lupine_read_captured_stdout \o
        <<F("return_value", "CUresult")>>))

cuCtxSetLimit ==
  Call("default", <<F("limit", "CUlimit"), F("value", "size_t")>>,
    <<F("return_value", "CUresult")>>)

cuCtxGetLimit ==
  Call("default", <<F("limit", "CUlimit")>>,
    <<F("pvalue", "size_t"), F("return_value", "CUresult")>>)

cuCtxGetCacheConfig ==
  Call("default", <<>>, <<F("pconfig", "CUfunc_cache"), F("return_value", "CUresult")>>)

cuCtxSetCacheConfig ==
  Then({"disable_local_occupancy"},
  Call("default", <<F("config", "CUfunc_cache")>>, <<F("return_value", "CUresult")>>))

cuCtxGetApiVersion ==
  Call("context", <<F("ctx", "CUcontext")>>,
    <<F("version", "unsigned int"), F("return_value", "CUresult")>>)

cuCtxResetPersistingL2Cache ==
  Call("default", <<>>, <<F("return_value", "CUresult")>>)

cuCtxGetExecAffinity ==
  Call("default", <<F("type", "CUexecAffinityType")>>,
    <<F("pExecAffinity", "CUexecAffinityParam"), F("return_value", "CUresult")>>)

cuCtxRecordEvent ==
  Call("context", <<F("hCtx", "CUcontext"), F("hEvent", "CUevent")>>,
    <<F("return_value", "CUresult")>>)

cuCtxWaitEvent ==
  Call("context", <<F("hCtx", "CUcontext"), F("hEvent", "CUevent")>>,
    <<F("return_value", "CUresult")>>)

cuCtxAttach ==
  Call("default", <<F("flags", "unsigned int")>>,
    <<F("pctx", "CUcontext"), F("return_value", "CUresult")>>)

cuCtxDetach ==
  Then({"invalidate_current_context_cache"},
  Call("context", <<F("ctx", "CUcontext")>>, <<F("return_value", "CUresult")>>))

cuCtxGetSharedMemConfig ==
  Call("default", <<>>, <<F("pConfig", "CUsharedconfig"), F("return_value", "CUresult")>>)

cuCtxSetSharedMemConfig ==
  Call("default", <<F("config", "CUsharedconfig")>>, <<F("return_value", "CUresult")>>)

cuModuleUnload ==
  Then({"release_module_retained_strings"},
  Call("module", <<F("hmod", "CUmodule")>>, <<F("return_value", "CUresult")>>))

cuModuleGetGlobal_v2 ==
  Then({"note deviceptr", "adopt_managed_global"},
  With({a \in [dptr_present : Flag, bytes_present : Flag, name_len : Len1] :
      a.dptr_present = 1 => a.bytes_present = 1},
  Call("module", <<F("dptr_present", "uint8_t"), FIf("dptr_present", "dptr", "CUdeviceptr"),
      F("bytes_present", "uint8_t"), FIf("bytes_present", "bytes", "size_t"), F("hmod", "CUmodule"),
      F("name_len", "size_t"), Arr("name", "byte", {"name_len"})>>,
    <<FIf("dptr_present", "dptr", "CUdeviceptr"), FIf("bytes_present", "bytes", "size_t"),
        F("return_value", "CUresult")>>)))

cuModuleGetTexRef ==
  With([name_len : Len1],
  Call("module", <<F("hmod", "CUmodule"), F("name_len", "size_t"),
      Arr("name", "byte", {"name_len"})>>,
    <<F("pTexRef", "CUtexref"), F("return_value", "CUresult")>>))

cuModuleGetSurfRef ==
  With([name_len : Len1],
  Call("module", <<F("hmod", "CUmodule"), F("name_len", "size_t"),
      Arr("name", "byte", {"name_len"})>>,
    <<F("pSurfRef", "CUsurfref"), F("return_value", "CUresult")>>))

cuLibraryUnload ==
  Then({"release_library_retained_strings"},
  Post("library", <<F("async_sequence", "uint64_t"), F("library", "CUlibrary")>>))

cuLibraryGetModule ==
  Then({"note module", "record_library_module"},
  Call("current_context", <<F("library", "CUlibrary")>>,
    <<F("pMod", "CUmodule"), F("return_value", "CUresult")>>))

cuLibraryGetGlobal ==
  Then({"note deviceptr"},
  With({a \in [dptr_present : Flag, bytes_present : Flag, name_len : Len1] :
      a.dptr_present = 1 => a.bytes_present = 1},
  Call("current_context", <<F("dptr_present", "uint8_t"),
      FIf("dptr_present", "dptr", "CUdeviceptr"), F("bytes_present", "uint8_t"),
      FIf("bytes_present", "bytes", "size_t"), F("library", "CUlibrary"), F("name_len", "size_t"),
      Arr("name", "byte", {"name_len"})>>,
    <<FIf("dptr_present", "dptr", "CUdeviceptr"), FIf("bytes_present", "bytes", "size_t"),
        F("return_value", "CUresult")>>)))

cuLibraryGetManaged ==
  Then({"note deviceptr", "adopt_managed_global"},
  With([dptr_present : Flag, bytes_present : Flag, name_len : Len1],
  Call("library", <<F("dptr_present", "uint8_t"), FIf("dptr_present", "dptr", "CUdeviceptr"),
      F("bytes_present", "uint8_t"), FIf("bytes_present", "bytes", "size_t"),
      F("library", "CUlibrary"), F("name_len", "size_t"), Arr("name", "byte", {"name_len"})>>,
    <<FIf("dptr_present", "dptr", "CUdeviceptr"), FIf("bytes_present", "bytes", "size_t"),
        F("return_value", "CUresult")>>)))

cuLibraryGetUnifiedFunction ==
  With([symbol_len : Len1],
  Call("library", <<F("library", "CUlibrary"), F("symbol_len", "size_t"),
      Arr("symbol", "byte", {"symbol_len"})>>,
    <<F("fptr", "void*"), F("return_value", "CUresult")>>))

cuKernelSetAttribute ==
  Then({"attribute_set"},
  Post("device", <<F("async_sequence", "uint64_t"), F("attrib", "CUfunction_attribute"),
      F("val", "int"), F("kernel", "CUkernel"), F("dev", "CUdevice")>>))

cuKernelSetCacheConfig ==
  Then({"disable_local_occupancy"},
  Call("device", <<F("kernel", "CUkernel"), F("config", "CUfunc_cache"), F("dev", "CUdevice")>>,
    <<F("return_value", "CUresult")>>))

cuKernelGetName ==
  Then({"retain_returned_string"},
  Call("function", <<F("hfunc", "CUkernel")>>,
    <<F("name_len", "size_t"), Limit("name_len"), Arr("name", "byte", {"name_len"}),
        F("return_value", "CUresult")>>))

cuDeviceGetByPCIBusId ==
  With([dev_present : Flag, pciBusId_len : Len1],
  Call("all", <<F("dev_present", "uint8_t"), FIf("dev_present", "dev", "CUdevice"),
      F("pciBusId_len", "size_t"), Arr("pciBusId", "byte", {"pciBusId_len"})>>,
    <<FIf("dev_present", "dev", "CUdevice"), F("return_value", "CUresult")>>))

cuDeviceGetPCIBusId ==
  With([len : Int32],
  Call("device", <<F("len", "int"), F("dev", "CUdevice")>>,
    <<Arr("pciBusId", "char", {"len"}), F("return_value", "CUresult")>>))

cuStreamGetPriority ==
  Call("stream", <<F("hStream", "CUstream"), F("priority", "int")>>,
    <<F("priority", "int"), F("return_value", "CUresult")>>)

cuStreamGetFlags ==
  Call("stream", <<F("hStream", "CUstream"), F("flags", "unsigned int")>>,
    <<F("flags", "unsigned int"), F("return_value", "CUresult")>>)

cuStreamGetId ==
  Call("stream", <<F("hStream", "CUstream"), F("streamId", "unsigned long long")>>,
    <<F("streamId", "unsigned long long"), F("return_value", "CUresult")>>)

cuStreamGetCtx ==
  Call("stream", <<F("hStream", "CUstream"), F("pctx", "CUcontext")>>,
    <<F("pctx", "CUcontext"), F("return_value", "CUresult")>>)

cuStreamAttachMemAsync ==
  Call("stream or deviceptr", <<F("hStream", "CUstream"), F("dptr", "CUdeviceptr"),
      F("length", "size_t"), F("flags", "unsigned int")>>,
    <<F("return_value", "CUresult")>>)

cuStreamQuery ==
  Then({"sync_mapped_device_to_host"},
  Call("stream", <<F("hStream", "CUstream")>>,
    lupine_read_deferred_dtoh_copies \o <<F("return_value", "CUresult")>>))

cuStreamSynchronize ==
  Then({"sync_mapped_device_to_host"},
  Call("stream", <<F("hStream", "CUstream")>>,
    lupine_read_deferred_dtoh_copies \o lupine_read_captured_stdout \o
        <<F("return_value", "CUresult")>>))

cuStreamDestroy_v2 ==
  Then({"forget stream"},
  Call("stream", <<F("hStream", "CUstream")>>, <<F("return_value", "CUresult")>>))

cuStreamCopyAttributes ==
  Call("stream", <<F("dst", "CUstream"), F("src", "CUstream")>>, <<F("return_value", "CUresult")>>)

cuStreamGetAttribute ==
  Call("stream", <<F("hStream", "CUstream"), F("attr", "CUstreamAttrID"),
      F("value_out", "CUstreamAttrValue")>>,
    <<F("value_out", "CUstreamAttrValue"), F("return_value", "CUresult")>>)

cuStreamSetAttribute ==
  Call("stream", <<F("hStream", "CUstream"), F("attr", "CUstreamAttrID"),
      F("value", "CUstreamAttrValue")>>,
    <<F("return_value", "CUresult")>>)

cuEventSynchronize ==
  Then({"sync_mapped_device_to_host"},
  Call("event", <<F("hEvent", "CUevent")>>,
    lupine_read_deferred_dtoh_copies \o lupine_read_captured_stdout \o
        <<F("return_value", "CUresult")>>))

cuEventElapsedTime_v2 ==
  Call("event", <<F("pMilliseconds", "float"), F("hStart", "CUevent"), F("hEnd", "CUevent")>>,
    <<F("pMilliseconds", "float"), F("return_value", "CUresult")>>)

cuSignalExternalSemaphoresAsync ==
  With([numExtSems : Cnt],
  Call("stream", <<F("numExtSems", "unsigned int"),
      Arr("extSemArray", "CUexternalSemaphore", {"numExtSems"}),
      Arr("paramsArray", "CUDA_EXTERNAL_SEMAPHORE_SIGNAL_PARAMS", {"numExtSems"}),
      F("stream", "CUstream")>>,
    <<F("return_value", "CUresult")>>))

cuWaitExternalSemaphoresAsync ==
  With([numExtSems : Cnt],
  Call("stream", <<F("numExtSems", "unsigned int"),
      Arr("extSemArray", "CUexternalSemaphore", {"numExtSems"}),
      Arr("paramsArray", "CUDA_EXTERNAL_SEMAPHORE_WAIT_PARAMS", {"numExtSems"}),
      F("stream", "CUstream")>>,
    <<F("return_value", "CUresult")>>))

cuStreamWaitValue32_v2 ==
  Call("stream", <<F("stream", "CUstream"), F("addr", "CUdeviceptr"), F("value", "cuuint32_t"),
      F("flags", "unsigned int")>>,
    <<F("return_value", "CUresult")>>)

cuStreamWaitValue64_v2 ==
  Call("stream", <<F("stream", "CUstream"), F("addr", "CUdeviceptr"), F("value", "cuuint64_t"),
      F("flags", "unsigned int")>>,
    <<F("return_value", "CUresult")>>)

cuStreamWriteValue32_v2 ==
  Call("stream", <<F("stream", "CUstream"), F("addr", "CUdeviceptr"), F("value", "cuuint32_t"),
      F("flags", "unsigned int")>>,
    <<F("return_value", "CUresult")>>)

cuStreamWriteValue64_v2 ==
  Call("stream", <<F("stream", "CUstream"), F("addr", "CUdeviceptr"), F("value", "cuuint64_t"),
      F("flags", "unsigned int")>>,
    <<F("return_value", "CUresult")>>)

cuStreamBatchMemOp_v2 ==
  With([count : Cnt],
  Call("stream", <<F("stream", "CUstream"), F("count", "unsigned int"),
      Arr("paramArray", "CUstreamBatchMemOpParams", {"count"}), F("flags", "unsigned int")>>,
    <<F("return_value", "CUresult")>>))

cuFuncGetAttribute ==
  Then({"attribute_set"},
  Call("function", <<F("pi", "int"), F("attrib", "CUfunction_attribute"),
      F("hfunc", "CUfunction")>>,
    <<F("pi", "int"), F("return_value", "CUresult")>>))

cuFuncSetAttribute ==
  Then({"attribute_set"},
  Call("function", <<F("hfunc", "CUfunction"), F("attrib", "CUfunction_attribute"),
      F("value", "int")>>,
    <<F("return_value", "CUresult")>>))

cuFuncSetCacheConfig ==
  Then({"disable_local_occupancy"},
  Call("function", <<F("hfunc", "CUfunction"), F("config", "CUfunc_cache")>>,
    <<F("return_value", "CUresult")>>))

cuFuncGetModule ==
  Then({"note module"},
  Call("function", <<F("hmod", "CUmodule"), F("hfunc", "CUfunction")>>,
    <<F("hmod", "CUmodule"), F("return_value", "CUresult")>>))

cuFuncGetName ==
  Then({"retain_returned_string"},
  Call("function", <<F("hfunc", "CUfunction")>>,
    <<F("name_len", "size_t"), Limit("name_len"), Arr("name", "byte", {"name_len"}),
        F("return_value", "CUresult")>>))

cuFuncSetBlockShape ==
  Call("function", <<F("hfunc", "CUfunction"), F("x", "int"), F("y", "int"), F("z", "int")>>,
    <<F("return_value", "CUresult")>>)

cuFuncSetSharedSize ==
  Call("function", <<F("hfunc", "CUfunction"), F("bytes", "unsigned int")>>,
    <<F("return_value", "CUresult")>>)

cuParamSetSize ==
  Call("function", <<F("hfunc", "CUfunction"), F("numbytes", "unsigned int")>>,
    <<F("return_value", "CUresult")>>)

cuParamSeti ==
  Call("function", <<F("hfunc", "CUfunction"), F("offset", "int"), F("value", "unsigned int")>>,
    <<F("return_value", "CUresult")>>)

cuParamSetf ==
  Call("function", <<F("hfunc", "CUfunction"), F("offset", "int"), F("value", "float")>>,
    <<F("return_value", "CUresult")>>)

cuParamSetv ==
  With([numbytes : Cnt],
  Call("function", <<F("hfunc", "CUfunction"), F("offset", "int"), F("numbytes", "unsigned int"),
      Arr("ptr", "byte", {"numbytes"})>>,
    <<F("return_value", "CUresult")>>))

cuLaunch ==
  Call("function", <<F("f", "CUfunction")>>, <<F("return_value", "CUresult")>>)

cuLaunchGrid ==
  Call("function", <<F("f", "CUfunction"), F("grid_width", "int"), F("grid_height", "int")>>,
    <<F("return_value", "CUresult")>>)

cuLaunchGridAsync ==
  Call("function", <<F("f", "CUfunction"), F("grid_width", "int"), F("grid_height", "int"),
      F("hStream", "CUstream")>>,
    <<F("return_value", "CUresult")>>)

cuParamSetTexRef ==
  Call("function", <<F("hfunc", "CUfunction"), F("texunit", "int"), F("hTexRef", "CUtexref")>>,
    <<F("return_value", "CUresult")>>)

cuFuncSetSharedMemConfig ==
  Call("function", <<F("hfunc", "CUfunction"), F("config", "CUsharedconfig")>>,
    <<F("return_value", "CUresult")>>)

cuGraphCreate ==
  Then({"note graph"},
  Call("default", <<F("phGraph", "CUgraph"), F("flags", "unsigned int")>>,
    <<F("phGraph", "CUgraph"), F("return_value", "CUresult")>>))

cuGraphMemcpyNodeGetParams ==
  Call("graph_node", <<F("hNode", "CUgraphNode"), F("nodeParams", "CUDA_MEMCPY3D")>>,
    <<F("nodeParams", "CUDA_MEMCPY3D"), F("return_value", "CUresult")>>)

cuGraphMemcpyNodeSetParams ==
  Call("graph_node", <<F("hNode", "CUgraphNode"), F("nodeParams", "CUDA_MEMCPY3D")>>,
    <<F("return_value", "CUresult")>>)

cuGraphMemsetNodeGetParams ==
  Call("graph_node", <<F("hNode", "CUgraphNode"), F("nodeParams", "CUDA_MEMSET_NODE_PARAMS")>>,
    <<F("nodeParams", "CUDA_MEMSET_NODE_PARAMS"), F("return_value", "CUresult")>>)

cuGraphMemsetNodeSetParams ==
  Call("graph_node", <<F("hNode", "CUgraphNode"), F("nodeParams", "CUDA_MEMSET_NODE_PARAMS")>>,
    <<F("return_value", "CUresult")>>)

cuGraphAddChildGraphNode ==
  Then({"note graph_node"},
  With([numDependencies : Cnt],
  Call("graph", <<F("phGraphNode", "CUgraphNode"), F("hGraph", "CUgraph"),
      F("numDependencies", "size_t"), Arr("dependencies", "CUgraphNode", {"numDependencies"}),
      F("childGraph", "CUgraph")>>,
    <<F("phGraphNode", "CUgraphNode"), F("return_value", "CUresult")>>)))

cuGraphChildGraphNodeGetGraph ==
  Then({"note graph"},
  Call("graph_node", <<F("hNode", "CUgraphNode"), F("phGraph", "CUgraph")>>,
    <<F("phGraph", "CUgraph"), F("return_value", "CUresult")>>))

cuGraphAddEmptyNode ==
  Then({"note graph_node"},
  With([numDependencies : Cnt],
  Call("graph", <<F("phGraphNode", "CUgraphNode"), F("hGraph", "CUgraph"),
      F("numDependencies", "size_t"), Arr("dependencies", "CUgraphNode", {"numDependencies"})>>,
    <<F("phGraphNode", "CUgraphNode"), F("return_value", "CUresult")>>)))

cuGraphAddEventRecordNode ==
  Then({"note graph_node"},
  With([numDependencies : Cnt],
  Call("graph", <<F("phGraphNode", "CUgraphNode"), F("hGraph", "CUgraph"),
      F("numDependencies", "size_t"), Arr("dependencies", "CUgraphNode", {"numDependencies"}),
      F("event", "CUevent")>>,
    <<F("phGraphNode", "CUgraphNode"), F("return_value", "CUresult")>>)))

cuGraphEventRecordNodeGetEvent ==
  Call("graph_node", <<F("hNode", "CUgraphNode"), F("event_out", "CUevent")>>,
    <<F("event_out", "CUevent"), F("return_value", "CUresult")>>)

cuGraphEventRecordNodeSetEvent ==
  Call("graph_node", <<F("hNode", "CUgraphNode"), F("event", "CUevent")>>,
    <<F("return_value", "CUresult")>>)

cuGraphAddEventWaitNode ==
  Then({"note graph_node"},
  With([numDependencies : Cnt],
  Call("graph", <<F("phGraphNode", "CUgraphNode"), F("hGraph", "CUgraph"),
      F("numDependencies", "size_t"), Arr("dependencies", "CUgraphNode", {"numDependencies"}),
      F("event", "CUevent")>>,
    <<F("phGraphNode", "CUgraphNode"), F("return_value", "CUresult")>>)))

cuGraphEventWaitNodeGetEvent ==
  Call("graph_node", <<F("hNode", "CUgraphNode"), F("event_out", "CUevent")>>,
    <<F("event_out", "CUevent"), F("return_value", "CUresult")>>)

cuGraphEventWaitNodeSetEvent ==
  Call("graph_node", <<F("hNode", "CUgraphNode"), F("event", "CUevent")>>,
    <<F("return_value", "CUresult")>>)

cuGraphAddExternalSemaphoresSignalNode ==
  Then({"note graph_node"},
  With([numDependencies : Cnt, nodeParams : Cnt],
  Call("graph", <<F("phGraphNode", "CUgraphNode"), F("hGraph", "CUgraph"),
      F("numDependencies", "size_t"), Arr("dependencies", "CUgraphNode", {"numDependencies"}),
      F("nodeParams", "CUDA_EXT_SEM_SIGNAL_NODE_PARAMS"),
      Arr("nodeParams.extSemArray", "*nodeParams.extSemArray", {"nodeParams"}),
      Arr("nodeParams.paramsArray", "*nodeParams.paramsArray", {"nodeParams"})>>,
    <<F("phGraphNode", "CUgraphNode"), F("return_value", "CUresult")>>)))

cuGraphExternalSemaphoresSignalNodeGetParams ==
  Call("graph_node", <<F("hNode", "CUgraphNode")>>,
    <<F("params_out", "CUDA_EXT_SEM_SIGNAL_NODE_PARAMS"),
        AllocArr("params_out.extSemArray", {"params_out"}),
        Arr("params_out.extSemArray", "*params_out.extSemArray", {"params_out"}),
        AllocArr("params_out.paramsArray", {"params_out"}),
        Arr("params_out.paramsArray", "*params_out.paramsArray", {"params_out"}),
        F("return_value", "CUresult")>>)

cuGraphExternalSemaphoresSignalNodeSetParams ==
  With([nodeParams : Cnt],
  Call("graph_node", <<F("hNode", "CUgraphNode"),
      F("nodeParams", "CUDA_EXT_SEM_SIGNAL_NODE_PARAMS"),
      Arr("nodeParams.extSemArray", "*nodeParams.extSemArray", {"nodeParams"}),
      Arr("nodeParams.paramsArray", "*nodeParams.paramsArray", {"nodeParams"})>>,
    <<F("return_value", "CUresult")>>))

cuGraphAddExternalSemaphoresWaitNode ==
  Then({"note graph_node"},
  With([numDependencies : Cnt, nodeParams : Cnt],
  Call("graph", <<F("phGraphNode", "CUgraphNode"), F("hGraph", "CUgraph"),
      F("numDependencies", "size_t"), Arr("dependencies", "CUgraphNode", {"numDependencies"}),
      F("nodeParams", "CUDA_EXT_SEM_WAIT_NODE_PARAMS"),
      Arr("nodeParams.extSemArray", "*nodeParams.extSemArray", {"nodeParams"}),
      Arr("nodeParams.paramsArray", "*nodeParams.paramsArray", {"nodeParams"})>>,
    <<F("phGraphNode", "CUgraphNode"), F("return_value", "CUresult")>>)))

cuGraphExternalSemaphoresWaitNodeGetParams ==
  Call("graph_node", <<F("hNode", "CUgraphNode")>>,
    <<F("params_out", "CUDA_EXT_SEM_WAIT_NODE_PARAMS"),
        AllocArr("params_out.extSemArray", {"params_out"}),
        Arr("params_out.extSemArray", "*params_out.extSemArray", {"params_out"}),
        AllocArr("params_out.paramsArray", {"params_out"}),
        Arr("params_out.paramsArray", "*params_out.paramsArray", {"params_out"}),
        F("return_value", "CUresult")>>)

cuGraphExternalSemaphoresWaitNodeSetParams ==
  With([nodeParams : Cnt],
  Call("graph_node", <<F("hNode", "CUgraphNode"), F("nodeParams", "CUDA_EXT_SEM_WAIT_NODE_PARAMS"),
      Arr("nodeParams.extSemArray", "*nodeParams.extSemArray", {"nodeParams"}),
      Arr("nodeParams.paramsArray", "*nodeParams.paramsArray", {"nodeParams"})>>,
    <<F("return_value", "CUresult")>>))

cuGraphAddBatchMemOpNode ==
  Then({"note graph_node"},
  With([numDependencies : Cnt, nodeParams : Cnt],
  Call("graph", <<F("phGraphNode", "CUgraphNode"), F("hGraph", "CUgraph"),
      F("numDependencies", "size_t"), Arr("dependencies", "CUgraphNode", {"numDependencies"}),
      F("nodeParams", "CUDA_BATCH_MEM_OP_NODE_PARAMS"),
      Arr("nodeParams.paramArray", "*nodeParams.paramArray", {"nodeParams"})>>,
    <<F("phGraphNode", "CUgraphNode"), F("return_value", "CUresult")>>)))

cuGraphBatchMemOpNodeGetParams ==
  Call("graph_node", <<F("hNode", "CUgraphNode")>>,
    <<F("nodeParams_out", "CUDA_BATCH_MEM_OP_NODE_PARAMS"),
        AllocArr("nodeParams_out.paramArray", {"nodeParams_out"}),
        Arr("nodeParams_out.paramArray", "*nodeParams_out.paramArray", {"nodeParams_out"}),
        F("return_value", "CUresult")>>)

cuGraphBatchMemOpNodeSetParams ==
  With([nodeParams : Cnt],
  Call("graph_node", <<F("hNode", "CUgraphNode"), F("nodeParams", "CUDA_BATCH_MEM_OP_NODE_PARAMS"),
      Arr("nodeParams.paramArray", "*nodeParams.paramArray", {"nodeParams"})>>,
    <<F("return_value", "CUresult")>>))

cuGraphExecBatchMemOpNodeSetParams ==
  With([nodeParams : Cnt],
  Call("graph_exec", <<F("hGraphExec", "CUgraphExec"), F("hNode", "CUgraphNode"),
      F("nodeParams", "CUDA_BATCH_MEM_OP_NODE_PARAMS"),
      Arr("nodeParams.paramArray", "*nodeParams.paramArray", {"nodeParams"})>>,
    <<F("return_value", "CUresult")>>))

cuGraphAddMemAllocNode ==
  Then({"note graph_node"},
  With([numDependencies : Cnt, nodeParams : Cnt],
  Call("graph", <<F("phGraphNode", "CUgraphNode"), F("hGraph", "CUgraph"),
      F("numDependencies", "size_t"), Arr("dependencies", "CUgraphNode", {"numDependencies"}),
      F("nodeParams", "CUDA_MEM_ALLOC_NODE_PARAMS"),
      Arr("nodeParams.accessDescs", "*nodeParams.accessDescs", {"nodeParams"})>>,
    <<F("phGraphNode", "CUgraphNode"), F("nodeParams", "CUDA_MEM_ALLOC_NODE_PARAMS"),
        F("return_value", "CUresult")>>)))

cuGraphMemAllocNodeGetParams ==
  Call("graph_node", <<F("hNode", "CUgraphNode")>>,
    <<F("params_out", "CUDA_MEM_ALLOC_NODE_PARAMS"),
        AllocArr("params_out.accessDescs", {"params_out"}),
        Arr("params_out.accessDescs", "*params_out.accessDescs", {"params_out"}),
        F("return_value", "CUresult")>>)

cuGraphAddMemFreeNode ==
  Then({"note graph_node"},
  With([numDependencies : Cnt],
  Call("graph", <<F("phGraphNode", "CUgraphNode"), F("hGraph", "CUgraph"),
      F("numDependencies", "size_t"), Arr("dependencies", "CUgraphNode", {"numDependencies"}),
      F("dptr", "CUdeviceptr")>>,
    <<F("phGraphNode", "CUgraphNode"), F("return_value", "CUresult")>>)))

cuGraphMemFreeNodeGetParams ==
  Call("graph_node", <<F("hNode", "CUgraphNode"), F("dptr_out", "CUdeviceptr")>>,
    <<F("dptr_out", "CUdeviceptr"), F("return_value", "CUresult")>>)

cuDeviceGraphMemTrim ==
  Call("device", <<F("device", "CUdevice")>>, <<F("return_value", "CUresult")>>)

cuGraphClone ==
  Then({"note graph"},
  Call("graph", <<F("phGraphClone", "CUgraph"), F("originalGraph", "CUgraph")>>,
    <<F("phGraphClone", "CUgraph"), F("return_value", "CUresult")>>))

cuGraphNodeFindInClone ==
  Then({"note graph_node"},
  Call("graph_node", <<F("phNode", "CUgraphNode"), F("hOriginalNode", "CUgraphNode"),
      F("hClonedGraph", "CUgraph")>>,
    <<F("phNode", "CUgraphNode"), F("return_value", "CUresult")>>))

cuGraphNodeGetType ==
  Call("graph_node", <<F("hNode", "CUgraphNode"), F("type", "CUgraphNodeType")>>,
    <<F("type", "CUgraphNodeType"), F("return_value", "CUresult")>>)

cuGraphNodeGetContainingGraph ==
  Then({"note graph"},
  Call("graph_node", <<F("hNode", "CUgraphNode")>>,
    <<F("phGraph", "CUgraph"), F("return_value", "CUresult")>>))

cuGraphNodeGetLocalId ==
  Call("graph_node", <<F("hNode", "CUgraphNode")>>,
    <<F("nodeId", "unsigned int"), F("return_value", "CUresult")>>)

cuGraphNodeGetToolsId ==
  Call("graph_node", <<F("hNode", "CUgraphNode")>>,
    <<F("toolsNodeId", "unsigned long long"), F("return_value", "CUresult")>>)

cuGraphGetId ==
  Call("graph", <<F("hGraph", "CUgraph")>>,
    <<F("graphId", "unsigned int"), F("return_value", "CUresult")>>)

cuGraphExecGetId ==
  Call("graph_exec", <<F("hGraphExec", "CUgraphExec")>>,
    <<F("graphId", "unsigned int"), F("return_value", "CUresult")>>)

cuGraphGetNodes ==
  With({a \in [numNodes_requested : Cnt, nodes_null : Flag] :
      a.nodes_null = 1 => a.numNodes_requested = 0},
  Call("graph", <<F("hGraph", "CUgraph"), F("numNodes_requested", "size_t"),
      F("nodes_null", "uint8_t")>>,
    <<F("numNodes", "size_t"),
        ArrUnless("nodes_null", "nodes", "CUgraphNode", {"numNodes", "numNodes_requested"}),
        F("return_value", "CUresult")>>))

cuGraphGetRootNodes ==
  With({a \in [numRootNodes_requested : Cnt, rootNodes_null : Flag] :
      a.rootNodes_null = 1 => a.numRootNodes_requested = 0},
  Call("graph", <<F("hGraph", "CUgraph"), F("numRootNodes_requested", "size_t"),
      F("rootNodes_null", "uint8_t")>>,
    <<F("numRootNodes", "size_t"),
        ArrUnless("rootNodes_null", "rootNodes", "CUgraphNode",
            {"numRootNodes", "numRootNodes_requested"}),
        F("return_value", "CUresult")>>))

cuGraphGetEdges_v2 ==
  With({a \in [numEdges_requested : Cnt, from_null : Flag, to_null : Flag, edgeData_null : Flag] :
      a.from_null = 1 => a.numEdges_requested = 0},
  Call("graph", <<F("hGraph", "CUgraph"), F("numEdges_requested", "size_t"),
      F("from_null", "uint8_t"), F("to_null", "uint8_t"), F("edgeData_null", "uint8_t")>>,
    <<F("numEdges", "size_t"),
        ArrUnless("from_null", "from", "CUgraphNode", {"numEdges", "numEdges_requested"}),
        ArrUnless("to_null", "to", "CUgraphNode", {"numEdges", "numEdges_requested"}),
        ArrUnless("edgeData_null", "edgeData", "CUgraphEdgeData",
            {"numEdges", "numEdges_requested"}),
        F("return_value", "CUresult")>>))

cuGraphNodeGetDependencies_v2 ==
  With({a \in [numDependencies_requested : Cnt, dependencies_null : Flag, edgeData_null : Flag] :
      a.dependencies_null = 1 => a.numDependencies_requested = 0},
  Call("graph_node", <<F("hNode", "CUgraphNode"), F("numDependencies_requested", "size_t"),
      F("dependencies_null", "uint8_t"), F("edgeData_null", "uint8_t")>>,
    <<F("numDependencies", "size_t"),
        ArrUnless("dependencies_null", "dependencies", "CUgraphNode",
            {"numDependencies", "numDependencies_requested"}),
        ArrUnless("edgeData_null", "edgeData", "CUgraphEdgeData",
            {"numDependencies", "numDependencies_requested"}),
        F("return_value", "CUresult")>>))

cuGraphNodeGetDependentNodes_v2 ==
  With({a \in [numDependentNodes_requested : Cnt, dependentNodes_null : Flag,
      edgeData_null : Flag] : a.dependentNodes_null = 1 => a.numDependentNodes_requested = 0},
  Call("graph_node", <<F("hNode", "CUgraphNode"), F("numDependentNodes_requested", "size_t"),
      F("dependentNodes_null", "uint8_t"), F("edgeData_null", "uint8_t")>>,
    <<F("numDependentNodes", "size_t"),
        ArrUnless("dependentNodes_null", "dependentNodes", "CUgraphNode",
            {"numDependentNodes", "numDependentNodes_requested"}),
        ArrUnless("edgeData_null", "edgeData", "CUgraphEdgeData",
            {"numDependentNodes", "numDependentNodes_requested"}),
        F("return_value", "CUresult")>>))

cuGraphDestroyNode ==
  Then({"deep_node_cache_reset"},
  Call("graph_node", <<F("hNode", "CUgraphNode")>>, <<F("return_value", "CUresult")>>))

cuGraphInstantiateWithFlags ==
  Then({"note graph_exec"},
  Call("graph", <<F("phGraphExec", "CUgraphExec"), F("hGraph", "CUgraph"),
      F("flags", "unsigned long long")>>,
    <<F("phGraphExec", "CUgraphExec"), F("return_value", "CUresult")>>))

cuGraphInstantiateWithParams ==
  Then({"note graph_exec"},
  Call("graph", <<F("phGraphExec", "CUgraphExec"), F("hGraph", "CUgraph"),
      F("instantiateParams", "CUDA_GRAPH_INSTANTIATE_PARAMS")>>,
    <<F("phGraphExec", "CUgraphExec"), F("instantiateParams", "CUDA_GRAPH_INSTANTIATE_PARAMS"),
        F("return_value", "CUresult")>>))

cuGraphExecGetFlags ==
  Call("graph_exec", <<F("hGraphExec", "CUgraphExec"), F("flags", "cuuint64_t")>>,
    <<F("flags", "cuuint64_t"), F("return_value", "CUresult")>>)

cuGraphExecMemcpyNodeSetParams ==
  Call("graph_exec", <<F("hGraphExec", "CUgraphExec"), F("hNode", "CUgraphNode"),
      F("copyParams", "CUDA_MEMCPY3D"), F("ctx", "CUcontext")>>,
    <<F("return_value", "CUresult")>>)

cuGraphExecMemsetNodeSetParams ==
  Call("graph_exec", <<F("hGraphExec", "CUgraphExec"), F("hNode", "CUgraphNode"),
      F("memsetParams", "CUDA_MEMSET_NODE_PARAMS"), F("ctx", "CUcontext")>>,
    <<F("return_value", "CUresult")>>)

cuGraphExecChildGraphNodeSetParams ==
  Call("graph_exec", <<F("hGraphExec", "CUgraphExec"), F("hNode", "CUgraphNode"),
      F("childGraph", "CUgraph")>>,
    <<F("return_value", "CUresult")>>)

cuGraphExecEventRecordNodeSetEvent ==
  Call("graph_exec", <<F("hGraphExec", "CUgraphExec"), F("hNode", "CUgraphNode"),
      F("event", "CUevent")>>,
    <<F("return_value", "CUresult")>>)

cuGraphExecEventWaitNodeSetEvent ==
  Call("graph_exec", <<F("hGraphExec", "CUgraphExec"), F("hNode", "CUgraphNode"),
      F("event", "CUevent")>>,
    <<F("return_value", "CUresult")>>)

cuGraphExecExternalSemaphoresSignalNodeSetParams ==
  With([nodeParams : Cnt],
  Call("graph_exec", <<F("hGraphExec", "CUgraphExec"), F("hNode", "CUgraphNode"),
      F("nodeParams", "CUDA_EXT_SEM_SIGNAL_NODE_PARAMS"),
      Arr("nodeParams.extSemArray", "*nodeParams.extSemArray", {"nodeParams"}),
      Arr("nodeParams.paramsArray", "*nodeParams.paramsArray", {"nodeParams"})>>,
    <<F("return_value", "CUresult")>>))

cuGraphExecExternalSemaphoresWaitNodeSetParams ==
  With([nodeParams : Cnt],
  Call("graph_exec", <<F("hGraphExec", "CUgraphExec"), F("hNode", "CUgraphNode"),
      F("nodeParams", "CUDA_EXT_SEM_WAIT_NODE_PARAMS"),
      Arr("nodeParams.extSemArray", "*nodeParams.extSemArray", {"nodeParams"}),
      Arr("nodeParams.paramsArray", "*nodeParams.paramsArray", {"nodeParams"})>>,
    <<F("return_value", "CUresult")>>))

cuGraphNodeSetEnabled ==
  Call("graph_exec", <<F("hGraphExec", "CUgraphExec"), F("hNode", "CUgraphNode"),
      F("isEnabled", "unsigned int")>>,
    <<F("return_value", "CUresult")>>)

cuGraphNodeGetEnabled ==
  Call("graph_exec", <<F("hGraphExec", "CUgraphExec"), F("hNode", "CUgraphNode"),
      F("isEnabled", "unsigned int")>>,
    <<F("isEnabled", "unsigned int"), F("return_value", "CUresult")>>)

cuGraphUpload ==
  Call("graph_exec", <<F("hGraphExec", "CUgraphExec"), F("hStream", "CUstream")>>,
    <<F("return_value", "CUresult")>>)

cuGraphLaunch ==
  Post("graph_exec", <<F("async_sequence", "uint64_t"), F("hGraphExec", "CUgraphExec"),
      F("hStream", "CUstream")>>)

cuGraphExecDestroy ==
  Call("graph_exec", <<F("hGraphExec", "CUgraphExec")>>, <<F("return_value", "CUresult")>>)

cuGraphDestroy ==
  Then({"deep_node_cache_reset"},
  Call("graph", <<F("hGraph", "CUgraph")>>, <<F("return_value", "CUresult")>>))

cuGraphExecUpdate_v2 ==
  Call("graph_exec", <<F("hGraphExec", "CUgraphExec"), F("hGraph", "CUgraph"),
      F("resultInfo", "CUgraphExecUpdateResultInfo")>>,
    <<F("resultInfo", "CUgraphExecUpdateResultInfo"), F("return_value", "CUresult")>>)

cuGraphKernelNodeCopyAttributes ==
  Call("graph_node", <<F("dst", "CUgraphNode"), F("src", "CUgraphNode")>>,
    <<F("return_value", "CUresult")>>)

cuGraphKernelNodeGetAttribute ==
  Call("graph_node", <<F("hNode", "CUgraphNode"), F("attr", "CUkernelNodeAttrID"),
      F("value_out", "CUkernelNodeAttrValue")>>,
    <<F("value_out", "CUkernelNodeAttrValue"), F("return_value", "CUresult")>>)

cuGraphKernelNodeSetAttribute ==
  Call("graph_node", <<F("hNode", "CUgraphNode"), F("attr", "CUkernelNodeAttrID"),
      F("value", "CUkernelNodeAttrValue")>>,
    <<F("return_value", "CUresult")>>)

cuGraphDebugDotPrint ==
  With([path_len : Len1],
  Call("graph", <<F("hGraph", "CUgraph"), F("path_len", "size_t"),
      Arr("path", "byte", {"path_len"}), F("flags", "unsigned int")>>,
    <<F("return_value", "CUresult")>>))

cuUserObjectRetain ==
  Call("default", <<F("object", "CUuserObject"), F("count", "unsigned int")>>,
    <<F("return_value", "CUresult")>>)

cuUserObjectRelease ==
  Call("default", <<F("object", "CUuserObject"), F("count", "unsigned int")>>,
    <<F("return_value", "CUresult")>>)

cuGraphRetainUserObject ==
  Call("graph", <<F("graph", "CUgraph"), F("object", "CUuserObject"), F("count", "unsigned int"),
      F("flags", "unsigned int")>>,
    <<F("return_value", "CUresult")>>)

cuGraphReleaseUserObject ==
  Call("graph", <<F("graph", "CUgraph"), F("object", "CUuserObject"), F("count", "unsigned int")>>,
    <<F("return_value", "CUresult")>>)

cuGraphNodeSetParams ==
  Call("graph_node", <<F("hNode", "CUgraphNode"), F("nodeParams", "CUgraphNodeParams")>>,
    <<F("return_value", "CUresult")>>)

cuGraphExecNodeSetParams ==
  Call("graph_exec", <<F("hGraphExec", "CUgraphExec"), F("hNode", "CUgraphNode"),
      F("nodeParams", "CUgraphNodeParams")>>,
    <<F("return_value", "CUresult")>>)

cuOccupancyAvailableDynamicSMemPerBlock ==
  Call("function", <<F("dynamicSmemSize", "size_t"), F("func", "CUfunction"), F("numBlocks", "int"),
      F("blockSize", "int")>>,
    <<F("dynamicSmemSize", "size_t"), F("return_value", "CUresult")>>)

cuOccupancyMaxPotentialClusterSize ==
  With([config : Cnt],
  Call("function", <<F("clusterSize", "int"), F("func", "CUfunction"),
      F("config", "CUlaunchConfig"), Arr("config.attrs", "*config.attrs", {"config"})>>,
    <<F("clusterSize", "int"), F("return_value", "CUresult")>>))

cuOccupancyMaxActiveClusters ==
  With([config : Cnt],
  Call("function", <<F("numClusters", "int"), F("func", "CUfunction"),
      F("config", "CUlaunchConfig"), Arr("config.attrs", "*config.attrs", {"config"})>>,
    <<F("numClusters", "int"), F("return_value", "CUresult")>>))

cuTensorMapReplaceAddress ==
  Call("deviceptr", <<F("tensorMap", "CUtensorMap"), F("globalAddress", "void*")>>,
    <<F("tensorMap", "CUtensorMap"), F("return_value", "CUresult")>>)

cuCoredumpGetAttributeGlobal ==
  With([size : Cnt],
  Call("default", <<F("attrib", "CUcoredumpSettings"), F("size", "size_t")>>,
    <<F("size", "size_t"), Arr("value", "byte", {"size"}), F("return_value", "CUresult")>>))

cuCoredumpSetAttributeGlobal ==
  With([size : Cnt],
  Call("default", <<F("attrib", "CUcoredumpSettings"), F("size", "size_t"),
      Arr("value", "byte", {"size"})>>,
    <<F("size", "size_t"), F("return_value", "CUresult")>>))

cuGreenCtxCreate ==
  Call("device", <<F("desc", "CUdevResourceDesc"), F("dev", "CUdevice"),
      F("flags", "unsigned int")>>,
    <<F("phCtx", "CUgreenCtx"), F("return_value", "CUresult")>>)

cuGreenCtxDestroy ==
  Then({"forget context"},
  Call("current_context", <<F("hCtx", "CUgreenCtx")>>, <<F("return_value", "CUresult")>>))

cuCtxFromGreenCtx ==
  Then({"note context", "mark_context_green"},
  Call("current_context", <<F("hCtx", "CUgreenCtx")>>,
    <<F("pContext", "CUcontext"), F("return_value", "CUresult")>>))

cuDeviceGetDevResource ==
  Call("device", <<F("device", "CUdevice"), F("type", "CUdevResourceType")>>,
    <<F("resource", "CUdevResource"), F("return_value", "CUresult")>>)

cuCtxGetDevResource ==
  Call("context", <<F("hCtx", "CUcontext"), F("type", "CUdevResourceType")>>,
    <<F("resource", "CUdevResource"), F("return_value", "CUresult")>>)

cuGreenCtxGetDevResource ==
  Call("current_context", <<F("hCtx", "CUgreenCtx"), F("type", "CUdevResourceType")>>,
    <<F("resource", "CUdevResource"), F("return_value", "CUresult")>>)

cuDevSmResourceSplitByCount ==
  With({a \in [nbGroups_requested : Cnt, result_null : Flag, remainder_present : Flag] :
      a.result_null = 1 => a.nbGroups_requested = 0},
  Call("current_context", <<F("nbGroups_requested", "unsigned int"), F("result_null", "uint8_t"),
      F("input", "CUdevResource"), F("remainder_present", "uint8_t"),
      FIf("remainder_present", "remainder", "CUdevResource"), F("flags", "unsigned int"),
      F("minCount", "unsigned int")>>,
    <<F("nbGroups", "unsigned int"),
        ArrUnless("result_null", "result", "CUdevResource", {"nbGroups", "nbGroups_requested"}),
        FIf("remainder_present", "remainder", "CUdevResource"), F("return_value", "CUresult")>>))

cuDevSmResourceSplit ==
  With([nbGroups : Cnt, result_null : Flag, remainder_present : Flag],
  Call("current_context", <<F("nbGroups", "unsigned int"), F("result_null", "uint8_t"),
      F("input", "CUdevResource"), F("remainder_present", "uint8_t"),
      FIf("remainder_present", "remainder", "CUdevResource"), F("flags", "unsigned int"),
      Arr("groupParams", "CU_DEV_SM_RESOURCE_GROUP_PARAMS", {"nbGroups"})>>,
    <<ArrUnless("result_null", "result", "CUdevResource", {"nbGroups"}),
        FIf("remainder_present", "remainder", "CUdevResource"),
        Arr("groupParams", "CU_DEV_SM_RESOURCE_GROUP_PARAMS", {"nbGroups"}),
        F("return_value", "CUresult")>>))

cuDevResourceGenerateDesc ==
  With([nbResources : Cnt],
  Call("current_context", <<F("nbResources", "unsigned int"),
      Arr("resources", "CUdevResource", {"nbResources"})>>,
    <<F("phDesc", "CUdevResourceDesc"), F("return_value", "CUresult")>>))

cuGreenCtxRecordEvent ==
  Call("current_context", <<F("hCtx", "CUgreenCtx"), F("hEvent", "CUevent")>>,
    <<F("return_value", "CUresult")>>)

cuGreenCtxWaitEvent ==
  Call("current_context", <<F("hCtx", "CUgreenCtx"), F("hEvent", "CUevent")>>,
    <<F("return_value", "CUresult")>>)

cuStreamGetGreenCtx ==
  Call("stream", <<F("hStream", "CUstream")>>,
    <<F("phCtx", "CUgreenCtx"), F("return_value", "CUresult")>>)

cuGreenCtxStreamCreate ==
  Then({"note stream"},
  Call("current_context", <<F("greenCtx", "CUgreenCtx"), F("flags", "unsigned int"),
      F("priority", "int")>>,
    <<F("phStream", "CUstream"), F("return_value", "CUresult")>>))

cuGreenCtxGetId ==
  Call("current_context", <<F("greenCtx", "CUgreenCtx")>>,
    <<F("greenCtxId", "unsigned long long"), F("return_value", "CUresult")>>)

cuStreamGetDevResource ==
  Call("stream", <<F("hStream", "CUstream"), F("type", "CUdevResourceType")>>,
    <<F("resource", "CUdevResource"), F("return_value", "CUresult")>>)

cuLogsCurrent ==
  With([iterator_out_present : Flag],
  Call("default", <<F("iterator_out_present", "uint8_t"),
      FIf("iterator_out_present", "iterator_out", "CUlogIterator"), F("flags", "unsigned int")>>,
    <<FIf("iterator_out_present", "iterator_out", "CUlogIterator"),
        F("return_value", "CUresult")>>))

cuLogsDumpToFile ==
  With([iterator_present : Flag, pathToFile_len : Len1],
  Call("default", <<F("iterator_present", "uint8_t"),
      FIf("iterator_present", "iterator", "CUlogIterator"), F("pathToFile_len", "size_t"),
      Arr("pathToFile", "byte", {"pathToFile_len"}), F("flags", "unsigned int")>>,
    <<FIf("iterator_present", "iterator", "CUlogIterator"), F("return_value", "CUresult")>>))

cuLogsDumpToMemory ==
  With({a \in [iterator_present : Flag, size_requested : Cnt, buffer_null : Flag] :
      a.buffer_null = 1 => a.size_requested = 0},
  Call("default", <<F("iterator_present", "uint8_t"),
      FIf("iterator_present", "iterator", "CUlogIterator"), F("size_requested", "size_t"),
      F("buffer_null", "uint8_t"), F("flags", "unsigned int")>>,
    <<FIf("iterator_present", "iterator", "CUlogIterator"), F("size", "size_t"),
        ArrUnless("buffer_null", "buffer", "char", {"size", "size_requested"}),
        F("return_value", "CUresult")>>))

cuGraphInstantiate_v2 ==
  Then({"note graph_exec"},
  With([phErrorNode_present : Flag, bufferSize : Cnt, logBuffer_null : Flag],
  Call("graph", <<F("hGraph", "CUgraph"), F("phErrorNode_present", "uint8_t"),
      FIf("phErrorNode_present", "phErrorNode", "CUgraphNode"), F("bufferSize", "size_t"),
      F("logBuffer_null", "uint8_t")>>,
    <<F("phGraphExec", "CUgraphExec"), FIf("phErrorNode_present", "phErrorNode", "CUgraphNode"),
        F("logBuffer_has_data", "uint8_t"), Expect("logBuffer_has_data", "logBuffer_null", "", ""),
        ArrIf("logBuffer_has_data", "logBuffer", "char", {"bufferSize"}),
        F("return_value", "CUresult")>>)))

cuGraphExecUpdate ==
  With([hErrorNode_out_present : Flag, updateResult_out_present : Flag],
  Call("graph_exec", <<F("hGraphExec", "CUgraphExec"), F("hGraph", "CUgraph"),
      F("hErrorNode_out_present", "uint8_t"),
      FIf("hErrorNode_out_present", "hErrorNode_out", "CUgraphNode"),
      F("updateResult_out_present", "uint8_t"),
      FIf("updateResult_out_present", "updateResult_out", "CUgraphExecUpdateResult")>>,
    <<FIf("hErrorNode_out_present", "hErrorNode_out", "CUgraphNode"),
        FIf("updateResult_out_present", "updateResult_out", "CUgraphExecUpdateResult"),
        F("return_value", "CUresult")>>))

CudaStubsTable ==
  [cuDeviceGetLuid |-> cuDeviceGetLuid,
   cuDeviceGetTexture1DLinearMaxWidth |-> cuDeviceGetTexture1DLinearMaxWidth,
   cuDeviceSetMemPool |-> cuDeviceSetMemPool, cuDeviceGetMemPool |-> cuDeviceGetMemPool,
   cuDeviceGetDefaultMemPool |-> cuDeviceGetDefaultMemPool,
   cuDeviceGetExecAffinitySupport |-> cuDeviceGetExecAffinitySupport,
   cuFlushGPUDirectRDMAWrites |-> cuFlushGPUDirectRDMAWrites,
   cuDeviceGetProperties |-> cuDeviceGetProperties,
   cuDeviceComputeCapability |-> cuDeviceComputeCapability, cuCtxDestroy_v2 |-> cuCtxDestroy_v2,
   cuCtxGetFlags |-> cuCtxGetFlags, cuCtxGetId |-> cuCtxGetId,
   cuCtxSynchronize |-> cuCtxSynchronize, cuCtxSynchronize_v2 |-> cuCtxSynchronize_v2,
   cuCtxSetLimit |-> cuCtxSetLimit, cuCtxGetLimit |-> cuCtxGetLimit,
   cuCtxGetCacheConfig |-> cuCtxGetCacheConfig, cuCtxSetCacheConfig |-> cuCtxSetCacheConfig,
   cuCtxGetApiVersion |-> cuCtxGetApiVersion,
   cuCtxResetPersistingL2Cache |-> cuCtxResetPersistingL2Cache,
   cuCtxGetExecAffinity |-> cuCtxGetExecAffinity, cuCtxRecordEvent |-> cuCtxRecordEvent,
   cuCtxWaitEvent |-> cuCtxWaitEvent, cuCtxAttach |-> cuCtxAttach, cuCtxDetach |-> cuCtxDetach,
   cuCtxGetSharedMemConfig |-> cuCtxGetSharedMemConfig,
   cuCtxSetSharedMemConfig |-> cuCtxSetSharedMemConfig, cuModuleUnload |-> cuModuleUnload,
   cuModuleGetGlobal_v2 |-> cuModuleGetGlobal_v2, cuModuleGetTexRef |-> cuModuleGetTexRef,
   cuModuleGetSurfRef |-> cuModuleGetSurfRef, cuLibraryUnload |-> cuLibraryUnload,
   cuLibraryGetModule |-> cuLibraryGetModule, cuLibraryGetGlobal |-> cuLibraryGetGlobal,
   cuLibraryGetManaged |-> cuLibraryGetManaged,
   cuLibraryGetUnifiedFunction |-> cuLibraryGetUnifiedFunction,
   cuKernelSetAttribute |-> cuKernelSetAttribute, cuKernelSetCacheConfig |-> cuKernelSetCacheConfig,
   cuKernelGetName |-> cuKernelGetName, cuMemGetInfo_v2 |-> cuMemGetInfo_v2,
   cuMemAlloc_v2 |-> cuMemAlloc_v2, cuMemAllocPitch_v2 |-> cuMemAllocPitch_v2,
   cuMemGetAddressRange_v2 |-> cuMemGetAddressRange_v2,
   cuDeviceGetByPCIBusId |-> cuDeviceGetByPCIBusId, cuDeviceGetPCIBusId |-> cuDeviceGetPCIBusId,
   cuIpcGetEventHandle |-> cuIpcGetEventHandle, cuIpcOpenEventHandle |-> cuIpcOpenEventHandle,
   cuIpcGetMemHandle |-> cuIpcGetMemHandle, cuIpcOpenMemHandle_v2 |-> cuIpcOpenMemHandle_v2,
   cuIpcCloseMemHandle |-> cuIpcCloseMemHandle, cuMemcpyPeer |-> cuMemcpyPeer,
   cuMemcpyDtoD_v2 |-> cuMemcpyDtoD_v2, cuMemcpyDtoA_v2 |-> cuMemcpyDtoA_v2,
   cuMemcpyAtoD_v2 |-> cuMemcpyAtoD_v2, cuMemcpyAtoA_v2 |-> cuMemcpyAtoA_v2,
   cuMemcpyPeerAsync |-> cuMemcpyPeerAsync, cuMemcpyDtoDAsync_v2 |-> cuMemcpyDtoDAsync_v2,
   cuMemsetD8_v2 |-> cuMemsetD8_v2, cuMemsetD16_v2 |-> cuMemsetD16_v2,
   cuMemsetD32_v2 |-> cuMemsetD32_v2, cuMemsetD2D8_v2 |-> cuMemsetD2D8_v2,
   cuMemsetD2D16_v2 |-> cuMemsetD2D16_v2, cuMemsetD2D32_v2 |-> cuMemsetD2D32_v2,
   cuMemsetD8Async |-> cuMemsetD8Async, cuMemsetD16Async |-> cuMemsetD16Async,
   cuMemsetD32Async |-> cuMemsetD32Async, cuMemsetD2D8Async |-> cuMemsetD2D8Async,
   cuMemsetD2D16Async |-> cuMemsetD2D16Async, cuMemsetD2D32Async |-> cuMemsetD2D32Async,
   cuArrayCreate_v2 |-> cuArrayCreate_v2, cuArrayGetDescriptor_v2 |-> cuArrayGetDescriptor_v2,
   cuArrayGetSparseProperties |-> cuArrayGetSparseProperties,
   cuMipmappedArrayGetSparseProperties |-> cuMipmappedArrayGetSparseProperties,
   cuArrayGetMemoryRequirements |-> cuArrayGetMemoryRequirements,
   cuMipmappedArrayGetMemoryRequirements |-> cuMipmappedArrayGetMemoryRequirements,
   cuArrayGetPlane |-> cuArrayGetPlane, cuArrayDestroy |-> cuArrayDestroy,
   cuArray3DCreate_v2 |-> cuArray3DCreate_v2,
   cuArray3DGetDescriptor_v2 |-> cuArray3DGetDescriptor_v2,
   cuMipmappedArrayCreate |-> cuMipmappedArrayCreate,
   cuMipmappedArrayGetLevel |-> cuMipmappedArrayGetLevel,
   cuMipmappedArrayDestroy |-> cuMipmappedArrayDestroy,
   cuMemGetHandleForAddressRange |-> cuMemGetHandleForAddressRange,
   cuMemAddressReserve |-> cuMemAddressReserve, cuMemAddressFree |-> cuMemAddressFree,
   cuMemCreate |-> cuMemCreate, cuMemRelease |-> cuMemRelease, cuMemMap |-> cuMemMap,
   cuMemMapArrayAsync |-> cuMemMapArrayAsync, cuMemUnmap |-> cuMemUnmap,
   cuMemSetAccess |-> cuMemSetAccess, cuMemGetAccess |-> cuMemGetAccess,
   cuMemGetAllocationGranularity |-> cuMemGetAllocationGranularity,
   cuMemGetAllocationPropertiesFromHandle |-> cuMemGetAllocationPropertiesFromHandle,
   cuMemRetainAllocationHandle |-> cuMemRetainAllocationHandle, cuMemFreeAsync |-> cuMemFreeAsync,
   cuMemAllocAsync |-> cuMemAllocAsync, cuMemPoolTrimTo |-> cuMemPoolTrimTo,
   cuMemPoolSetAccess |-> cuMemPoolSetAccess, cuMemPoolGetAccess |-> cuMemPoolGetAccess,
   cuMemPoolCreate |-> cuMemPoolCreate, cuMemPoolDestroy |-> cuMemPoolDestroy,
   cuMemAllocFromPoolAsync |-> cuMemAllocFromPoolAsync,
   cuMemPoolExportPointer |-> cuMemPoolExportPointer,
   cuMemPoolImportPointer |-> cuMemPoolImportPointer,
   cuMemRangeGetAttribute |-> cuMemRangeGetAttribute, cuStreamGetPriority |-> cuStreamGetPriority,
   cuStreamGetFlags |-> cuStreamGetFlags, cuStreamGetId |-> cuStreamGetId,
   cuStreamGetCtx |-> cuStreamGetCtx, cuStreamAttachMemAsync |-> cuStreamAttachMemAsync,
   cuStreamQuery |-> cuStreamQuery, cuStreamSynchronize |-> cuStreamSynchronize,
   cuStreamDestroy_v2 |-> cuStreamDestroy_v2, cuStreamCopyAttributes |-> cuStreamCopyAttributes,
   cuStreamGetAttribute |-> cuStreamGetAttribute, cuStreamSetAttribute |-> cuStreamSetAttribute,
   cuEventSynchronize |-> cuEventSynchronize, cuEventElapsedTime_v2 |-> cuEventElapsedTime_v2,
   cuImportExternalMemory |-> cuImportExternalMemory,
   cuExternalMemoryGetMappedBuffer |-> cuExternalMemoryGetMappedBuffer,
   cuExternalMemoryGetMappedMipmappedArray |-> cuExternalMemoryGetMappedMipmappedArray,
   cuDestroyExternalMemory |-> cuDestroyExternalMemory,
   cuImportExternalSemaphore |-> cuImportExternalSemaphore,
   cuSignalExternalSemaphoresAsync |-> cuSignalExternalSemaphoresAsync,
   cuWaitExternalSemaphoresAsync |-> cuWaitExternalSemaphoresAsync,
   cuDestroyExternalSemaphore |-> cuDestroyExternalSemaphore,
   cuStreamWaitValue32_v2 |-> cuStreamWaitValue32_v2,
   cuStreamWaitValue64_v2 |-> cuStreamWaitValue64_v2,
   cuStreamWriteValue32_v2 |-> cuStreamWriteValue32_v2,
   cuStreamWriteValue64_v2 |-> cuStreamWriteValue64_v2,
   cuStreamBatchMemOp_v2 |-> cuStreamBatchMemOp_v2, cuFuncGetAttribute |-> cuFuncGetAttribute,
   cuFuncSetAttribute |-> cuFuncSetAttribute, cuFuncSetCacheConfig |-> cuFuncSetCacheConfig,
   cuFuncGetModule |-> cuFuncGetModule, cuFuncGetName |-> cuFuncGetName,
   cuFuncSetBlockShape |-> cuFuncSetBlockShape, cuFuncSetSharedSize |-> cuFuncSetSharedSize,
   cuParamSetSize |-> cuParamSetSize, cuParamSeti |-> cuParamSeti, cuParamSetf |-> cuParamSetf,
   cuParamSetv |-> cuParamSetv, cuLaunch |-> cuLaunch, cuLaunchGrid |-> cuLaunchGrid,
   cuLaunchGridAsync |-> cuLaunchGridAsync, cuParamSetTexRef |-> cuParamSetTexRef,
   cuFuncSetSharedMemConfig |-> cuFuncSetSharedMemConfig, cuGraphCreate |-> cuGraphCreate,
   cuGraphMemcpyNodeGetParams |-> cuGraphMemcpyNodeGetParams,
   cuGraphMemcpyNodeSetParams |-> cuGraphMemcpyNodeSetParams,
   cuGraphMemsetNodeGetParams |-> cuGraphMemsetNodeGetParams,
   cuGraphMemsetNodeSetParams |-> cuGraphMemsetNodeSetParams,
   cuGraphAddChildGraphNode |-> cuGraphAddChildGraphNode,
   cuGraphChildGraphNodeGetGraph |-> cuGraphChildGraphNodeGetGraph,
   cuGraphAddEmptyNode |-> cuGraphAddEmptyNode,
   cuGraphAddEventRecordNode |-> cuGraphAddEventRecordNode,
   cuGraphEventRecordNodeGetEvent |-> cuGraphEventRecordNodeGetEvent,
   cuGraphEventRecordNodeSetEvent |-> cuGraphEventRecordNodeSetEvent,
   cuGraphAddEventWaitNode |-> cuGraphAddEventWaitNode,
   cuGraphEventWaitNodeGetEvent |-> cuGraphEventWaitNodeGetEvent,
   cuGraphEventWaitNodeSetEvent |-> cuGraphEventWaitNodeSetEvent,
   cuGraphAddExternalSemaphoresSignalNode |-> cuGraphAddExternalSemaphoresSignalNode,
   cuGraphExternalSemaphoresSignalNodeGetParams |-> cuGraphExternalSemaphoresSignalNodeGetParams,
   cuGraphExternalSemaphoresSignalNodeSetParams |-> cuGraphExternalSemaphoresSignalNodeSetParams,
   cuGraphAddExternalSemaphoresWaitNode |-> cuGraphAddExternalSemaphoresWaitNode,
   cuGraphExternalSemaphoresWaitNodeGetParams |-> cuGraphExternalSemaphoresWaitNodeGetParams,
   cuGraphExternalSemaphoresWaitNodeSetParams |-> cuGraphExternalSemaphoresWaitNodeSetParams,
   cuGraphAddBatchMemOpNode |-> cuGraphAddBatchMemOpNode,
   cuGraphBatchMemOpNodeGetParams |-> cuGraphBatchMemOpNodeGetParams,
   cuGraphBatchMemOpNodeSetParams |-> cuGraphBatchMemOpNodeSetParams,
   cuGraphExecBatchMemOpNodeSetParams |-> cuGraphExecBatchMemOpNodeSetParams,
   cuGraphAddMemAllocNode |-> cuGraphAddMemAllocNode,
   cuGraphMemAllocNodeGetParams |-> cuGraphMemAllocNodeGetParams,
   cuGraphAddMemFreeNode |-> cuGraphAddMemFreeNode,
   cuGraphMemFreeNodeGetParams |-> cuGraphMemFreeNodeGetParams,
   cuDeviceGraphMemTrim |-> cuDeviceGraphMemTrim, cuGraphClone |-> cuGraphClone,
   cuGraphNodeFindInClone |-> cuGraphNodeFindInClone, cuGraphNodeGetType |-> cuGraphNodeGetType,
   cuGraphNodeGetContainingGraph |-> cuGraphNodeGetContainingGraph,
   cuGraphNodeGetLocalId |-> cuGraphNodeGetLocalId, cuGraphNodeGetToolsId |-> cuGraphNodeGetToolsId,
   cuGraphGetId |-> cuGraphGetId, cuGraphExecGetId |-> cuGraphExecGetId,
   cuGraphGetNodes |-> cuGraphGetNodes, cuGraphGetRootNodes |-> cuGraphGetRootNodes,
   cuGraphGetEdges_v2 |-> cuGraphGetEdges_v2,
   cuGraphNodeGetDependencies_v2 |-> cuGraphNodeGetDependencies_v2,
   cuGraphNodeGetDependentNodes_v2 |-> cuGraphNodeGetDependentNodes_v2,
   cuGraphDestroyNode |-> cuGraphDestroyNode,
   cuGraphInstantiateWithFlags |-> cuGraphInstantiateWithFlags,
   cuGraphInstantiateWithParams |-> cuGraphInstantiateWithParams,
   cuGraphExecGetFlags |-> cuGraphExecGetFlags,
   cuGraphExecMemcpyNodeSetParams |-> cuGraphExecMemcpyNodeSetParams,
   cuGraphExecMemsetNodeSetParams |-> cuGraphExecMemsetNodeSetParams,
   cuGraphExecChildGraphNodeSetParams |-> cuGraphExecChildGraphNodeSetParams,
   cuGraphExecEventRecordNodeSetEvent |-> cuGraphExecEventRecordNodeSetEvent,
   cuGraphExecEventWaitNodeSetEvent |-> cuGraphExecEventWaitNodeSetEvent,
   cuGraphExecExternalSemaphoresSignalNodeSetParams |-> cuGraphExecExternalSemaphoresSignalNodeSetParams,
   cuGraphExecExternalSemaphoresWaitNodeSetParams |-> cuGraphExecExternalSemaphoresWaitNodeSetParams,
   cuGraphNodeSetEnabled |-> cuGraphNodeSetEnabled, cuGraphNodeGetEnabled |-> cuGraphNodeGetEnabled,
   cuGraphUpload |-> cuGraphUpload, cuGraphLaunch |-> cuGraphLaunch,
   cuGraphExecDestroy |-> cuGraphExecDestroy, cuGraphDestroy |-> cuGraphDestroy,
   cuGraphExecUpdate_v2 |-> cuGraphExecUpdate_v2,
   cuGraphKernelNodeCopyAttributes |-> cuGraphKernelNodeCopyAttributes,
   cuGraphKernelNodeGetAttribute |-> cuGraphKernelNodeGetAttribute,
   cuGraphKernelNodeSetAttribute |-> cuGraphKernelNodeSetAttribute,
   cuGraphDebugDotPrint |-> cuGraphDebugDotPrint, cuUserObjectRetain |-> cuUserObjectRetain,
   cuUserObjectRelease |-> cuUserObjectRelease, cuGraphRetainUserObject |-> cuGraphRetainUserObject,
   cuGraphReleaseUserObject |-> cuGraphReleaseUserObject,
   cuGraphNodeSetParams |-> cuGraphNodeSetParams,
   cuGraphExecNodeSetParams |-> cuGraphExecNodeSetParams,
   cuOccupancyAvailableDynamicSMemPerBlock |-> cuOccupancyAvailableDynamicSMemPerBlock,
   cuOccupancyMaxPotentialClusterSize |-> cuOccupancyMaxPotentialClusterSize,
   cuOccupancyMaxActiveClusters |-> cuOccupancyMaxActiveClusters,
   cuTexRefSetArray |-> cuTexRefSetArray, cuTexRefSetMipmappedArray |-> cuTexRefSetMipmappedArray,
   cuTexRefSetAddress_v2 |-> cuTexRefSetAddress_v2,
   cuTexRefSetAddress2D_v3 |-> cuTexRefSetAddress2D_v3, cuTexRefSetFormat |-> cuTexRefSetFormat,
   cuTexRefSetAddressMode |-> cuTexRefSetAddressMode,
   cuTexRefSetFilterMode |-> cuTexRefSetFilterMode,
   cuTexRefSetMipmapFilterMode |-> cuTexRefSetMipmapFilterMode,
   cuTexRefSetMipmapLevelBias |-> cuTexRefSetMipmapLevelBias,
   cuTexRefSetMipmapLevelClamp |-> cuTexRefSetMipmapLevelClamp,
   cuTexRefSetMaxAnisotropy |-> cuTexRefSetMaxAnisotropy,
   cuTexRefSetBorderColor |-> cuTexRefSetBorderColor, cuTexRefSetFlags |-> cuTexRefSetFlags,
   cuTexRefGetAddress_v2 |-> cuTexRefGetAddress_v2, cuTexRefGetArray |-> cuTexRefGetArray,
   cuTexRefGetMipmappedArray |-> cuTexRefGetMipmappedArray,
   cuTexRefGetAddressMode |-> cuTexRefGetAddressMode,
   cuTexRefGetFilterMode |-> cuTexRefGetFilterMode, cuTexRefGetFormat |-> cuTexRefGetFormat,
   cuTexRefGetMipmapFilterMode |-> cuTexRefGetMipmapFilterMode,
   cuTexRefGetMipmapLevelBias |-> cuTexRefGetMipmapLevelBias,
   cuTexRefGetMipmapLevelClamp |-> cuTexRefGetMipmapLevelClamp,
   cuTexRefGetMaxAnisotropy |-> cuTexRefGetMaxAnisotropy,
   cuTexRefGetBorderColor |-> cuTexRefGetBorderColor, cuTexRefGetFlags |-> cuTexRefGetFlags,
   cuTexRefCreate |-> cuTexRefCreate, cuTexRefDestroy |-> cuTexRefDestroy,
   cuSurfRefSetArray |-> cuSurfRefSetArray, cuSurfRefGetArray |-> cuSurfRefGetArray,
   cuTexObjectCreate |-> cuTexObjectCreate, cuTexObjectDestroy |-> cuTexObjectDestroy,
   cuTexObjectGetResourceDesc |-> cuTexObjectGetResourceDesc,
   cuTexObjectGetTextureDesc |-> cuTexObjectGetTextureDesc,
   cuTexObjectGetResourceViewDesc |-> cuTexObjectGetResourceViewDesc,
   cuSurfObjectCreate |-> cuSurfObjectCreate, cuSurfObjectDestroy |-> cuSurfObjectDestroy,
   cuSurfObjectGetResourceDesc |-> cuSurfObjectGetResourceDesc,
   cuTensorMapReplaceAddress |-> cuTensorMapReplaceAddress,
   cuGraphicsUnregisterResource |-> cuGraphicsUnregisterResource,
   cuGraphicsSubResourceGetMappedArray |-> cuGraphicsSubResourceGetMappedArray,
   cuGraphicsResourceGetMappedMipmappedArray |-> cuGraphicsResourceGetMappedMipmappedArray,
   cuGraphicsResourceGetMappedPointer_v2 |-> cuGraphicsResourceGetMappedPointer_v2,
   cuGraphicsResourceSetMapFlags_v2 |-> cuGraphicsResourceSetMapFlags_v2,
   cuGraphicsMapResources |-> cuGraphicsMapResources,
   cuGraphicsUnmapResources |-> cuGraphicsUnmapResources,
   cuCoredumpGetAttributeGlobal |-> cuCoredumpGetAttributeGlobal,
   cuCoredumpSetAttributeGlobal |-> cuCoredumpSetAttributeGlobal,
   cuGreenCtxCreate |-> cuGreenCtxCreate, cuGreenCtxDestroy |-> cuGreenCtxDestroy,
   cuCtxFromGreenCtx |-> cuCtxFromGreenCtx, cuDeviceGetDevResource |-> cuDeviceGetDevResource,
   cuCtxGetDevResource |-> cuCtxGetDevResource,
   cuGreenCtxGetDevResource |-> cuGreenCtxGetDevResource,
   cuDevSmResourceSplitByCount |-> cuDevSmResourceSplitByCount,
   cuDevSmResourceSplit |-> cuDevSmResourceSplit,
   cuDevResourceGenerateDesc |-> cuDevResourceGenerateDesc,
   cuGreenCtxRecordEvent |-> cuGreenCtxRecordEvent, cuGreenCtxWaitEvent |-> cuGreenCtxWaitEvent,
   cuStreamGetGreenCtx |-> cuStreamGetGreenCtx, cuGreenCtxStreamCreate |-> cuGreenCtxStreamCreate,
   cuGreenCtxGetId |-> cuGreenCtxGetId, cuStreamGetDevResource |-> cuStreamGetDevResource,
   cuLogsCurrent |-> cuLogsCurrent, cuLogsDumpToFile |-> cuLogsDumpToFile,
   cuLogsDumpToMemory |-> cuLogsDumpToMemory, cuGraphInstantiate_v2 |-> cuGraphInstantiate_v2,
   cuGraphExecUpdate |-> cuGraphExecUpdate]
=============================================================================

-------------------------- MODULE CudaMemoryStubs ---------------------------
(*****************************************************************************)
(* The CUDA driver stubs of the client for memory, arrays, textures and      *)
(* shared memory, of codegen/gen_cuda_client.cpp.                            *)
(*****************************************************************************)
EXTENDS RpcFields

cuMemGetInfo_v2 ==
  Call("current_context", <<F("free", "size_t"), F("total", "size_t")>>,
    <<F("free", "size_t"), F("total", "size_t"), F("return_value", "CUresult")>>)

cuMemAlloc_v2 ==
  Then({"note deviceptr"},
  Call("current_context", <<F("dptr", "CUdeviceptr"), F("bytesize", "size_t")>>,
    <<F("dptr", "CUdeviceptr"), F("return_value", "CUresult")>>))

cuMemAllocPitch_v2 ==
  Then({"note deviceptr"},
  Call("current_context", <<F("dptr", "CUdeviceptr"), F("pPitch", "size_t"),
      F("WidthInBytes", "size_t"), F("Height", "size_t"), F("ElementSizeBytes", "unsigned int")>>,
    <<F("dptr", "CUdeviceptr"), F("pPitch", "size_t"), F("return_value", "CUresult")>>))

cuMemGetAddressRange_v2 ==
  With([pbase_present : Flag, psize_present : Flag],
  Call("deviceptr", <<F("pbase_present", "uint8_t"), FIf("pbase_present", "pbase", "CUdeviceptr"),
      F("psize_present", "uint8_t"), FIf("psize_present", "psize", "size_t"),
      F("dptr", "CUdeviceptr")>>,
    <<FIf("pbase_present", "pbase", "CUdeviceptr"), FIf("psize_present", "psize", "size_t"),
        F("return_value", "CUresult")>>))

cuIpcGetEventHandle ==
  Call("event", <<F("pHandle", "CUipcEventHandle"), F("event", "CUevent")>>,
    <<F("pHandle", "CUipcEventHandle"), F("return_value", "CUresult")>>)

cuIpcOpenEventHandle ==
  Call("default", <<F("phEvent", "CUevent"), F("handle", "CUipcEventHandle")>>,
    <<F("phEvent", "CUevent"), F("return_value", "CUresult")>>)

cuIpcGetMemHandle ==
  Call("deviceptr", <<F("pHandle", "CUipcMemHandle"), F("dptr", "CUdeviceptr")>>,
    <<F("pHandle", "CUipcMemHandle"), F("return_value", "CUresult")>>)

cuIpcOpenMemHandle_v2 ==
  Call("default", <<F("pdptr", "CUdeviceptr"), F("handle", "CUipcMemHandle"),
      F("Flags", "unsigned int")>>,
    <<F("pdptr", "CUdeviceptr"), F("return_value", "CUresult")>>)

cuIpcCloseMemHandle ==
  Call("deviceptr", <<F("dptr", "CUdeviceptr")>>, <<F("return_value", "CUresult")>>)

cuMemcpyPeer ==
  Call("deviceptr", <<F("dstDevice", "CUdeviceptr"), F("dstContext", "CUcontext"),
      F("srcDevice", "CUdeviceptr"), F("srcContext", "CUcontext"), F("ByteCount", "size_t")>>,
    <<F("return_value", "CUresult")>>)

cuMemcpyDtoD_v2 ==
  Then({"sync_mapped_device_to_host"},
  Call("deviceptr", <<F("dstDevice", "CUdeviceptr"), F("srcDevice", "CUdeviceptr"),
      F("ByteCount", "size_t")>>,
    <<F("return_value", "CUresult")>>))

cuMemcpyDtoA_v2 ==
  Call("deviceptr", <<F("dstArray", "CUarray"), F("dstOffset", "size_t"),
      F("srcDevice", "CUdeviceptr"), F("ByteCount", "size_t")>>,
    <<F("return_value", "CUresult")>>)

cuMemcpyAtoD_v2 ==
  Call("deviceptr", <<F("dstDevice", "CUdeviceptr"), F("srcArray", "CUarray"),
      F("srcOffset", "size_t"), F("ByteCount", "size_t")>>,
    <<F("return_value", "CUresult")>>)

cuMemcpyAtoA_v2 ==
  Call("default", <<F("dstArray", "CUarray"), F("dstOffset", "size_t"), F("srcArray", "CUarray"),
      F("srcOffset", "size_t"), F("ByteCount", "size_t")>>,
    <<F("return_value", "CUresult")>>)

cuMemcpyPeerAsync ==
  Call("deviceptr", <<F("dstDevice", "CUdeviceptr"), F("dstContext", "CUcontext"),
      F("srcDevice", "CUdeviceptr"), F("srcContext", "CUcontext"), F("ByteCount", "size_t"),
      F("hStream", "CUstream")>>,
    <<F("return_value", "CUresult")>>)

cuMemcpyDtoDAsync_v2 ==
  Post("deviceptr", <<F("async_sequence", "uint64_t"), F("dstDevice", "CUdeviceptr"),
      F("srcDevice", "CUdeviceptr"), F("ByteCount", "size_t"), F("hStream", "CUstream")>>)

cuMemsetD8_v2 ==
  Then({"sync_mapped_device_to_host"},
  Call("deviceptr", <<F("dstDevice", "CUdeviceptr"), F("uc", "unsigned char"), F("N", "size_t")>>,
    <<F("return_value", "CUresult")>>))

cuMemsetD16_v2 ==
  Then({"sync_mapped_device_to_host"},
  Call("deviceptr", <<F("dstDevice", "CUdeviceptr"), F("us", "unsigned short"), F("N", "size_t")>>,
    <<F("return_value", "CUresult")>>))

cuMemsetD32_v2 ==
  Then({"sync_mapped_device_to_host"},
  Call("deviceptr", <<F("dstDevice", "CUdeviceptr"), F("ui", "unsigned int"), F("N", "size_t")>>,
    <<F("return_value", "CUresult")>>))

cuMemsetD2D8_v2 ==
  Then({"sync_mapped_device_to_host"},
  Call("deviceptr", <<F("dstDevice", "CUdeviceptr"), F("dstPitch", "size_t"),
      F("uc", "unsigned char"), F("Width", "size_t"), F("Height", "size_t")>>,
    <<F("return_value", "CUresult")>>))

cuMemsetD2D16_v2 ==
  Then({"sync_mapped_device_to_host"},
  Call("deviceptr", <<F("dstDevice", "CUdeviceptr"), F("dstPitch", "size_t"),
      F("us", "unsigned short"), F("Width", "size_t"), F("Height", "size_t")>>,
    <<F("return_value", "CUresult")>>))

cuMemsetD2D32_v2 ==
  Then({"sync_mapped_device_to_host"},
  Call("deviceptr", <<F("dstDevice", "CUdeviceptr"), F("dstPitch", "size_t"),
      F("ui", "unsigned int"), F("Width", "size_t"), F("Height", "size_t")>>,
    <<F("return_value", "CUresult")>>))

cuMemsetD8Async ==
  Post("deviceptr", <<F("async_sequence", "uint64_t"), F("dstDevice", "CUdeviceptr"),
      F("uc", "unsigned char"), F("N", "size_t"), F("hStream", "CUstream")>>)

cuMemsetD16Async ==
  Post("deviceptr", <<F("async_sequence", "uint64_t"), F("dstDevice", "CUdeviceptr"),
      F("us", "unsigned short"), F("N", "size_t"), F("hStream", "CUstream")>>)

cuMemsetD32Async ==
  Post("deviceptr", <<F("async_sequence", "uint64_t"), F("dstDevice", "CUdeviceptr"),
      F("ui", "unsigned int"), F("N", "size_t"), F("hStream", "CUstream")>>)

cuMemsetD2D8Async ==
  Post("deviceptr", <<F("async_sequence", "uint64_t"), F("dstDevice", "CUdeviceptr"),
      F("dstPitch", "size_t"), F("uc", "unsigned char"), F("Width", "size_t"),
      F("Height", "size_t"), F("hStream", "CUstream")>>)

cuMemsetD2D16Async ==
  Post("deviceptr", <<F("async_sequence", "uint64_t"), F("dstDevice", "CUdeviceptr"),
      F("dstPitch", "size_t"), F("us", "unsigned short"), F("Width", "size_t"),
      F("Height", "size_t"), F("hStream", "CUstream")>>)

cuMemsetD2D32Async ==
  Post("deviceptr", <<F("async_sequence", "uint64_t"), F("dstDevice", "CUdeviceptr"),
      F("dstPitch", "size_t"), F("ui", "unsigned int"), F("Width", "size_t"), F("Height", "size_t"),
      F("hStream", "CUstream")>>)

cuArrayCreate_v2 ==
  Call("default", <<F("pHandle", "CUarray"), F("pAllocateArray", "CUDA_ARRAY_DESCRIPTOR")>>,
    <<F("pHandle", "CUarray"), F("return_value", "CUresult")>>)

cuArrayGetDescriptor_v2 ==
  Call("default", <<F("pArrayDescriptor", "CUDA_ARRAY_DESCRIPTOR"), F("hArray", "CUarray")>>,
    <<F("pArrayDescriptor", "CUDA_ARRAY_DESCRIPTOR"), F("return_value", "CUresult")>>)

cuArrayGetSparseProperties ==
  Call("default", <<F("sparseProperties", "CUDA_ARRAY_SPARSE_PROPERTIES"), F("array", "CUarray")>>,
    <<F("sparseProperties", "CUDA_ARRAY_SPARSE_PROPERTIES"), F("return_value", "CUresult")>>)

cuMipmappedArrayGetSparseProperties ==
  Call("default", <<F("sparseProperties", "CUDA_ARRAY_SPARSE_PROPERTIES"),
      F("mipmap", "CUmipmappedArray")>>,
    <<F("sparseProperties", "CUDA_ARRAY_SPARSE_PROPERTIES"), F("return_value", "CUresult")>>)

cuArrayGetMemoryRequirements ==
  Call("device", <<F("memoryRequirements", "CUDA_ARRAY_MEMORY_REQUIREMENTS"), F("array", "CUarray"),
      F("device", "CUdevice")>>,
    <<F("memoryRequirements", "CUDA_ARRAY_MEMORY_REQUIREMENTS"), F("return_value", "CUresult")>>)

cuMipmappedArrayGetMemoryRequirements ==
  Call("device", <<F("memoryRequirements", "CUDA_ARRAY_MEMORY_REQUIREMENTS"),
      F("mipmap", "CUmipmappedArray"), F("device", "CUdevice")>>,
    <<F("memoryRequirements", "CUDA_ARRAY_MEMORY_REQUIREMENTS"), F("return_value", "CUresult")>>)

cuArrayGetPlane ==
  Call("default", <<F("pPlaneArray", "CUarray"), F("hArray", "CUarray"),
      F("planeIdx", "unsigned int")>>,
    <<F("pPlaneArray", "CUarray"), F("return_value", "CUresult")>>)

cuArrayDestroy ==
  Call("default", <<F("hArray", "CUarray")>>, <<F("return_value", "CUresult")>>)

cuArray3DCreate_v2 ==
  Call("default", <<F("pHandle", "CUarray"), F("pAllocateArray", "CUDA_ARRAY3D_DESCRIPTOR")>>,
    <<F("pHandle", "CUarray"), F("return_value", "CUresult")>>)

cuArray3DGetDescriptor_v2 ==
  Call("default", <<F("pArrayDescriptor", "CUDA_ARRAY3D_DESCRIPTOR"), F("hArray", "CUarray")>>,
    <<F("pArrayDescriptor", "CUDA_ARRAY3D_DESCRIPTOR"), F("return_value", "CUresult")>>)

cuMipmappedArrayCreate ==
  Call("default", <<F("pHandle", "CUmipmappedArray"),
      F("pMipmappedArrayDesc", "CUDA_ARRAY3D_DESCRIPTOR"), F("numMipmapLevels", "unsigned int")>>,
    <<F("pHandle", "CUmipmappedArray"), F("return_value", "CUresult")>>)

cuMipmappedArrayGetLevel ==
  Call("default", <<F("pLevelArray", "CUarray"), F("hMipmappedArray", "CUmipmappedArray"),
      F("level", "unsigned int")>>,
    <<F("pLevelArray", "CUarray"), F("return_value", "CUresult")>>)

cuMipmappedArrayDestroy ==
  Call("default", <<F("hMipmappedArray", "CUmipmappedArray")>>, <<F("return_value", "CUresult")>>)

cuMemGetHandleForAddressRange ==
  Call("deviceptr", <<F("dptr", "CUdeviceptr"), F("size", "size_t"),
      F("handleType", "CUmemRangeHandleType"), F("flags", "unsigned long long")>>,
    <<F("handle", "byte[4]"), F("return_value", "CUresult")>>)

cuMemAddressReserve ==
  Call("deviceptr", <<F("ptr", "CUdeviceptr"), F("size", "size_t"), F("alignment", "size_t"),
      F("addr", "CUdeviceptr"), F("flags", "unsigned long long")>>,
    <<F("ptr", "CUdeviceptr"), F("return_value", "CUresult")>>)

cuMemAddressFree ==
  Call("deviceptr", <<F("ptr", "CUdeviceptr"), F("size", "size_t")>>,
    <<F("return_value", "CUresult")>>)

cuMemCreate ==
  Call("default", <<F("size", "size_t"), F("prop", "CUmemAllocationProp"),
      F("flags", "unsigned long long")>>,
    <<F("handle", "CUmemGenericAllocationHandle"), F("return_value", "CUresult")>>)

cuMemRelease ==
  Call("default", <<F("handle", "CUmemGenericAllocationHandle")>>,
    <<F("return_value", "CUresult")>>)

cuMemMap ==
  Call("deviceptr", <<F("ptr", "CUdeviceptr"), F("size", "size_t"), F("offset", "size_t"),
      F("handle", "CUmemGenericAllocationHandle"), F("flags", "unsigned long long")>>,
    <<F("return_value", "CUresult")>>)

cuMemMapArrayAsync ==
  With([count : Cnt],
  Call("stream", <<F("count", "unsigned int"), Arr("mapInfoList", "CUarrayMapInfo", {"count"}),
      F("hStream", "CUstream")>>,
    <<F("return_value", "CUresult")>>))

cuMemUnmap ==
  Call("deviceptr", <<F("ptr", "CUdeviceptr"), F("size", "size_t")>>,
    <<F("return_value", "CUresult")>>)

cuMemSetAccess ==
  With([count : Cnt],
  Call("deviceptr", <<F("ptr", "CUdeviceptr"), F("size", "size_t"), F("count", "size_t"),
      Arr("desc", "CUmemAccessDesc", {"count"})>>,
    <<F("return_value", "CUresult")>>))

cuMemGetAccess ==
  Call("deviceptr", <<F("location", "CUmemLocation"), F("ptr", "CUdeviceptr")>>,
    <<F("flags", "unsigned long long"), F("return_value", "CUresult")>>)

cuMemGetAllocationGranularity ==
  Call("default", <<F("prop", "CUmemAllocationProp"),
      F("option", "CUmemAllocationGranularity_flags")>>,
    <<F("granularity", "size_t"), F("return_value", "CUresult")>>)

cuMemGetAllocationPropertiesFromHandle ==
  Call("default", <<F("prop", "CUmemAllocationProp"), F("handle", "CUmemGenericAllocationHandle")>>,
    <<F("prop", "CUmemAllocationProp"), F("return_value", "CUresult")>>)

cuMemRetainAllocationHandle ==
  Call("default", <<F("addr", "void*")>>,
    <<F("handle", "CUmemGenericAllocationHandle"), F("return_value", "CUresult")>>)

cuMemFreeAsync ==
  Then({"forget deviceptr"},
  Call("deviceptr", <<F("dptr", "CUdeviceptr"), F("hStream", "CUstream")>>,
    <<F("return_value", "CUresult")>>))

cuMemAllocAsync ==
  Then({"note deviceptr"},
  Call("stream", <<F("dptr", "CUdeviceptr"), F("bytesize", "size_t"), F("hStream", "CUstream")>>,
    <<F("dptr", "CUdeviceptr"), F("return_value", "CUresult")>>))

cuMemPoolTrimTo ==
  Call("memory_pool", <<F("pool", "CUmemoryPool"), F("minBytesToKeep", "size_t")>>,
    <<F("return_value", "CUresult")>>)

cuMemPoolSetAccess ==
  With([count : Cnt],
  Call("memory_pool", <<F("pool", "CUmemoryPool"), F("count", "size_t"),
      Arr("map", "CUmemAccessDesc", {"count"})>>,
    <<F("return_value", "CUresult")>>))

cuMemPoolGetAccess ==
  Call("memory_pool", <<F("memPool", "CUmemoryPool"), F("location", "CUmemLocation")>>,
    <<F("flags", "CUmemAccess_flags"), F("return_value", "CUresult")>>)

cuMemPoolCreate ==
  Then({"note memory_pool"},
  Call("default or device", <<F("pool", "CUmemoryPool"), F("poolProps", "CUmemPoolProps")>>,
    <<F("pool", "CUmemoryPool"), F("return_value", "CUresult")>>))

cuMemPoolDestroy ==
  Call("memory_pool", <<F("pool", "CUmemoryPool")>>, <<F("return_value", "CUresult")>>)

cuMemAllocFromPoolAsync ==
  Then({"note deviceptr"},
  Call("stream", <<F("dptr", "CUdeviceptr"), F("bytesize", "size_t"), F("pool", "CUmemoryPool"),
      F("hStream", "CUstream")>>,
    <<F("dptr", "CUdeviceptr"), F("return_value", "CUresult")>>))

cuMemPoolExportPointer ==
  Call("deviceptr", <<F("shareData_out", "CUmemPoolPtrExportData"), F("ptr", "CUdeviceptr")>>,
    <<F("shareData_out", "CUmemPoolPtrExportData"), F("return_value", "CUresult")>>)

cuMemPoolImportPointer ==
  Call("memory_pool", <<F("ptr_out", "CUdeviceptr"), F("pool", "CUmemoryPool"),
      F("shareData", "CUmemPoolPtrExportData")>>,
    <<F("ptr_out", "CUdeviceptr"), F("shareData", "CUmemPoolPtrExportData"),
        F("return_value", "CUresult")>>)

cuMemRangeGetAttribute ==
  With([dataSize : Cnt],
  Call("deviceptr", <<F("dataSize", "size_t"), F("attribute", "CUmem_range_attribute"),
      F("devPtr", "CUdeviceptr"), F("count", "size_t")>>,
    <<Arr("data", "byte", {"dataSize"}), F("return_value", "CUresult")>>))

cuImportExternalMemory ==
  Call("default", <<F("extMem_out", "CUexternalMemory"),
      F("memHandleDesc", "CUDA_EXTERNAL_MEMORY_HANDLE_DESC")>>,
    <<F("extMem_out", "CUexternalMemory"), F("return_value", "CUresult")>>)

cuExternalMemoryGetMappedBuffer ==
  Call("default", <<F("devPtr", "CUdeviceptr"), F("extMem", "CUexternalMemory"),
      F("bufferDesc", "CUDA_EXTERNAL_MEMORY_BUFFER_DESC")>>,
    <<F("devPtr", "CUdeviceptr"), F("return_value", "CUresult")>>)

cuExternalMemoryGetMappedMipmappedArray ==
  Call("default", <<F("mipmap", "CUmipmappedArray"), F("extMem", "CUexternalMemory"),
      F("mipmapDesc", "CUDA_EXTERNAL_MEMORY_MIPMAPPED_ARRAY_DESC")>>,
    <<F("mipmap", "CUmipmappedArray"), F("return_value", "CUresult")>>)

cuDestroyExternalMemory ==
  Call("default", <<F("extMem", "CUexternalMemory")>>, <<F("return_value", "CUresult")>>)

cuImportExternalSemaphore ==
  Call("default", <<F("extSem_out", "CUexternalSemaphore"),
      F("semHandleDesc", "CUDA_EXTERNAL_SEMAPHORE_HANDLE_DESC")>>,
    <<F("extSem_out", "CUexternalSemaphore"), F("return_value", "CUresult")>>)

cuDestroyExternalSemaphore ==
  Call("default", <<F("extSem", "CUexternalSemaphore")>>, <<F("return_value", "CUresult")>>)

cuTexRefSetArray ==
  Call("default", <<F("hTexRef", "CUtexref"), F("hArray", "CUarray"), F("Flags", "unsigned int")>>,
    <<F("return_value", "CUresult")>>)

cuTexRefSetMipmappedArray ==
  Call("default", <<F("hTexRef", "CUtexref"), F("hMipmappedArray", "CUmipmappedArray"),
      F("Flags", "unsigned int")>>,
    <<F("return_value", "CUresult")>>)

cuTexRefSetAddress_v2 ==
  Call("deviceptr", <<F("ByteOffset", "size_t"), F("hTexRef", "CUtexref"), F("dptr", "CUdeviceptr"),
      F("bytes", "size_t")>>,
    <<F("ByteOffset", "size_t"), F("return_value", "CUresult")>>)

cuTexRefSetAddress2D_v3 ==
  Call("deviceptr", <<F("hTexRef", "CUtexref"), F("desc", "CUDA_ARRAY_DESCRIPTOR"),
      F("dptr", "CUdeviceptr"), F("Pitch", "size_t")>>,
    <<F("return_value", "CUresult")>>)

cuTexRefSetFormat ==
  Call("default", <<F("hTexRef", "CUtexref"), F("fmt", "CUarray_format"),
      F("NumPackedComponents", "int")>>,
    <<F("return_value", "CUresult")>>)

cuTexRefSetAddressMode ==
  Call("default", <<F("hTexRef", "CUtexref"), F("dim", "int"), F("am", "CUaddress_mode")>>,
    <<F("return_value", "CUresult")>>)

cuTexRefSetFilterMode ==
  Call("default", <<F("hTexRef", "CUtexref"), F("fm", "CUfilter_mode")>>,
    <<F("return_value", "CUresult")>>)

cuTexRefSetMipmapFilterMode ==
  Call("default", <<F("hTexRef", "CUtexref"), F("fm", "CUfilter_mode")>>,
    <<F("return_value", "CUresult")>>)

cuTexRefSetMipmapLevelBias ==
  Call("default", <<F("hTexRef", "CUtexref"), F("bias", "float")>>,
    <<F("return_value", "CUresult")>>)

cuTexRefSetMipmapLevelClamp ==
  Call("default", <<F("hTexRef", "CUtexref"), F("minMipmapLevelClamp", "float"),
      F("maxMipmapLevelClamp", "float")>>,
    <<F("return_value", "CUresult")>>)

cuTexRefSetMaxAnisotropy ==
  Call("default", <<F("hTexRef", "CUtexref"), F("maxAniso", "unsigned int")>>,
    <<F("return_value", "CUresult")>>)

cuTexRefSetBorderColor ==
  Call("default", <<F("hTexRef", "CUtexref"), F("pBorderColor", "byte[16]")>>,
    <<F("return_value", "CUresult")>>)

cuTexRefSetFlags ==
  Call("default", <<F("hTexRef", "CUtexref"), F("Flags", "unsigned int")>>,
    <<F("return_value", "CUresult")>>)

cuTexRefGetAddress_v2 ==
  Call("default", <<F("pdptr", "CUdeviceptr"), F("hTexRef", "CUtexref")>>,
    <<F("pdptr", "CUdeviceptr"), F("return_value", "CUresult")>>)

cuTexRefGetArray ==
  Call("default", <<F("phArray", "CUarray"), F("hTexRef", "CUtexref")>>,
    <<F("phArray", "CUarray"), F("return_value", "CUresult")>>)

cuTexRefGetMipmappedArray ==
  Call("default", <<F("phMipmappedArray", "CUmipmappedArray"), F("hTexRef", "CUtexref")>>,
    <<F("phMipmappedArray", "CUmipmappedArray"), F("return_value", "CUresult")>>)

cuTexRefGetAddressMode ==
  Call("default", <<F("pam", "CUaddress_mode"), F("hTexRef", "CUtexref"), F("dim", "int")>>,
    <<F("pam", "CUaddress_mode"), F("return_value", "CUresult")>>)

cuTexRefGetFilterMode ==
  Call("default", <<F("pfm", "CUfilter_mode"), F("hTexRef", "CUtexref")>>,
    <<F("pfm", "CUfilter_mode"), F("return_value", "CUresult")>>)

cuTexRefGetFormat ==
  Call("default", <<F("pFormat", "CUarray_format"), F("pNumChannels", "int"),
      F("hTexRef", "CUtexref")>>,
    <<F("pFormat", "CUarray_format"), F("pNumChannels", "int"), F("return_value", "CUresult")>>)

cuTexRefGetMipmapFilterMode ==
  Call("default", <<F("pfm", "CUfilter_mode"), F("hTexRef", "CUtexref")>>,
    <<F("pfm", "CUfilter_mode"), F("return_value", "CUresult")>>)

cuTexRefGetMipmapLevelBias ==
  Call("default", <<F("pbias", "float"), F("hTexRef", "CUtexref")>>,
    <<F("pbias", "float"), F("return_value", "CUresult")>>)

cuTexRefGetMipmapLevelClamp ==
  Call("default", <<F("pminMipmapLevelClamp", "float"), F("pmaxMipmapLevelClamp", "float"),
      F("hTexRef", "CUtexref")>>,
    <<F("pminMipmapLevelClamp", "float"), F("pmaxMipmapLevelClamp", "float"),
        F("return_value", "CUresult")>>)

cuTexRefGetMaxAnisotropy ==
  Call("default", <<F("pmaxAniso", "int"), F("hTexRef", "CUtexref")>>,
    <<F("pmaxAniso", "int"), F("return_value", "CUresult")>>)

cuTexRefGetBorderColor ==
  Call("default", <<F("hTexRef", "CUtexref")>>,
    <<F("pBorderColor", "byte[16]"), F("return_value", "CUresult")>>)

cuTexRefGetFlags ==
  Call("default", <<F("pFlags", "unsigned int"), F("hTexRef", "CUtexref")>>,
    <<F("pFlags", "unsigned int"), F("return_value", "CUresult")>>)

cuTexRefCreate ==
  Call("default", <<F("pTexRef", "CUtexref")>>,
    <<F("pTexRef", "CUtexref"), F("return_value", "CUresult")>>)

cuTexRefDestroy ==
  Call("default", <<F("hTexRef", "CUtexref")>>, <<F("return_value", "CUresult")>>)

cuSurfRefSetArray ==
  Call("default", <<F("hSurfRef", "CUsurfref"), F("hArray", "CUarray"),
      F("Flags", "unsigned int")>>,
    <<F("return_value", "CUresult")>>)

cuSurfRefGetArray ==
  Call("default", <<F("phArray", "CUarray"), F("hSurfRef", "CUsurfref")>>,
    <<F("phArray", "CUarray"), F("return_value", "CUresult")>>)

cuTexObjectCreate ==
  With([pTexDesc_present : Flag, pResViewDesc_present : Flag],
  Call("default", <<F("pTexObject", "CUtexObject"), F("pResDesc", "CUDA_RESOURCE_DESC"),
      F("pTexDesc_present", "uint8_t"), FIf("pTexDesc_present", "pTexDesc", "CUDA_TEXTURE_DESC"),
      F("pResViewDesc_present", "uint8_t"),
      FIf("pResViewDesc_present", "pResViewDesc", "CUDA_RESOURCE_VIEW_DESC")>>,
    <<F("pTexObject", "CUtexObject"), F("return_value", "CUresult")>>))

cuTexObjectDestroy ==
  Call("default", <<F("texObject", "CUtexObject")>>, <<F("return_value", "CUresult")>>)

cuTexObjectGetResourceDesc ==
  Call("default", <<F("pResDesc", "CUDA_RESOURCE_DESC"), F("texObject", "CUtexObject")>>,
    <<F("pResDesc", "CUDA_RESOURCE_DESC"), F("return_value", "CUresult")>>)

cuTexObjectGetTextureDesc ==
  Call("default", <<F("pTexDesc", "CUDA_TEXTURE_DESC"), F("texObject", "CUtexObject")>>,
    <<F("pTexDesc", "CUDA_TEXTURE_DESC"), F("return_value", "CUresult")>>)

cuTexObjectGetResourceViewDesc ==
  Call("default", <<F("pResViewDesc", "CUDA_RESOURCE_VIEW_DESC"), F("texObject", "CUtexObject")>>,
    <<F("pResViewDesc", "CUDA_RESOURCE_VIEW_DESC"), F("return_value", "CUresult")>>)

cuSurfObjectCreate ==
  Call("default", <<F("pSurfObject", "CUsurfObject"), F("pResDesc", "CUDA_RESOURCE_DESC")>>,
    <<F("pSurfObject", "CUsurfObject"), F("return_value", "CUresult")>>)

cuSurfObjectDestroy ==
  Call("default", <<F("surfObject", "CUsurfObject")>>, <<F("return_value", "CUresult")>>)

cuSurfObjectGetResourceDesc ==
  Call("default", <<F("pResDesc", "CUDA_RESOURCE_DESC"), F("surfObject", "CUsurfObject")>>,
    <<F("pResDesc", "CUDA_RESOURCE_DESC"), F("return_value", "CUresult")>>)

cuGraphicsUnregisterResource ==
  Call("default", <<F("resource", "CUgraphicsResource")>>, <<F("return_value", "CUresult")>>)

cuGraphicsSubResourceGetMappedArray ==
  Call("default", <<F("pArray", "CUarray"), F("resource", "CUgraphicsResource"),
      F("arrayIndex", "unsigned int"), F("mipLevel", "unsigned int")>>,
    <<F("pArray", "CUarray"), F("return_value", "CUresult")>>)

cuGraphicsResourceGetMappedMipmappedArray ==
  Call("default", <<F("pMipmappedArray", "CUmipmappedArray"), F("resource", "CUgraphicsResource")>>,
    <<F("pMipmappedArray", "CUmipmappedArray"), F("return_value", "CUresult")>>)

cuGraphicsResourceGetMappedPointer_v2 ==
  Call("default", <<F("pDevPtr", "CUdeviceptr"), F("pSize", "size_t"),
      F("resource", "CUgraphicsResource")>>,
    <<F("pDevPtr", "CUdeviceptr"), F("pSize", "size_t"), F("return_value", "CUresult")>>)

cuGraphicsResourceSetMapFlags_v2 ==
  Call("default", <<F("resource", "CUgraphicsResource"), F("flags", "unsigned int")>>,
    <<F("return_value", "CUresult")>>)

cuGraphicsMapResources ==
  With([count : Cnt],
  Call("stream", <<F("count", "unsigned int"), Arr("resources", "CUgraphicsResource", {"count"}),
      F("hStream", "CUstream")>>,
    <<F("return_value", "CUresult")>>))

cuGraphicsUnmapResources ==
  With([count : Cnt],
  Call("stream", <<F("count", "unsigned int"), Arr("resources", "CUgraphicsResource", {"count"}),
      F("hStream", "CUstream")>>,
    <<F("return_value", "CUresult")>>))
=============================================================================

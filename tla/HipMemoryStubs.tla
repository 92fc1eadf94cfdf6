--------------------------- MODULE HipMemoryStubs ---------------------------
(*****************************************************************************)
(* The HIP stubs of the client for memory, arrays, textures and shared       *)
(* memory, of codegen/gen_hip_client.inc.                                    *)
(*****************************************************************************)
EXTENDS RpcFields

hipIpcGetMemHandle ==
  Call("connection", <<F("devPtr", "void*")>>,
    <<F("handle", "hipIpcMemHandle_t"), F("return_value", "hipError_t")>>)

hipIpcOpenMemHandle ==
  Call("connection", <<F("handle", "hipIpcMemHandle_t"), F("flags", "unsigned int")>>,
    <<F("devPtr", "void*"), F("return_value", "hipError_t")>>)

hipIpcCloseMemHandle ==
  Call("connection", <<F("devPtr", "void*")>>, <<F("return_value", "hipError_t")>>)

hipIpcGetEventHandle ==
  Call("connection", <<F("event", "hipEvent_t")>>,
    <<F("handle", "hipIpcEventHandle_t"), F("return_value", "hipError_t")>>)

hipIpcOpenEventHandle ==
  Call("connection", <<F("handle", "hipIpcEventHandle_t")>>,
    <<F("event", "hipEvent_t"), F("return_value", "hipError_t")>>)

hipPointerGetAttributes ==
  Call("connection", <<F("ptr", "void*")>>,
    <<F("attributes", "hipPointerAttribute_t"), F("return_value", "hipError_t")>>)

hipMalloc ==
  Call("connection", <<F("size", "size_t")>>,
    <<F("ptr", "void*"), F("return_value", "hipError_t")>>)

hipMallocManaged ==
  Call("connection", <<F("size", "size_t"), F("flags", "unsigned int")>>,
    <<F("dev_ptr", "void*"), F("return_value", "hipError_t")>>)

hipMemPrefetchAsync ==
  Call("connection", <<F("dev_ptr", "void*"), F("count", "size_t"), F("device", "int"),
      F("stream", "hipStream_t")>>,
    <<F("return_value", "hipError_t")>>)

hipMemPrefetchAsync_v2 ==
  Call("connection", <<F("dev_ptr", "void*"), F("count", "size_t"), F("location", "hipMemLocation"),
      F("flags", "unsigned int"), F("stream", "hipStream_t")>>,
    <<F("return_value", "hipError_t")>>)

hipMemAdvise ==
  Call("connection", <<F("dev_ptr", "void*"), F("count", "size_t"), F("advice", "hipMemoryAdvise"),
      F("device", "int")>>,
    <<F("return_value", "hipError_t")>>)

hipMemAdvise_v2 ==
  Call("connection", <<F("dev_ptr", "void*"), F("count", "size_t"), F("advice", "hipMemoryAdvise"),
      F("location", "hipMemLocation")>>,
    <<F("return_value", "hipError_t")>>)

hipMemRangeGetAttribute ==
  With([data_size : Cnt],
  Call("connection", <<F("data_size", "size_t"), F("attribute", "hipMemRangeAttribute"),
      F("dev_ptr", "void*"), F("count", "size_t")>>,
    <<Arr("data", "byte", {"data_size"}), F("return_value", "hipError_t")>>))

hipMallocAsync ==
  Call("connection", <<F("size", "size_t"), F("stream", "hipStream_t")>>,
    <<F("dev_ptr", "void*"), F("return_value", "hipError_t")>>)

hipFreeAsync ==
  Call("connection", <<F("dev_ptr", "void*"), F("stream", "hipStream_t")>>,
    <<F("return_value", "hipError_t")>>)

hipMemPoolTrimTo ==
  Call("connection", <<F("mem_pool", "hipMemPool_t"), F("min_bytes_to_hold", "size_t")>>,
    <<F("return_value", "hipError_t")>>)

hipMemPoolSetAccess ==
  With([count : Cnt],
  Call("connection", <<F("mem_pool", "hipMemPool_t"), F("count", "size_t"),
      Arr("desc_list", "hipMemAccessDesc", {"count"})>>,
    <<F("return_value", "hipError_t")>>))

hipMemPoolGetAccess ==
  Call("connection", <<F("mem_pool", "hipMemPool_t"), F("location", "hipMemLocation")>>,
    <<F("flags", "hipMemAccessFlags"), F("return_value", "hipError_t")>>)

hipMemPoolCreate ==
  Call("connection", <<F("pool_props", "hipMemPoolProps")>>,
    <<F("mem_pool", "hipMemPool_t"), F("return_value", "hipError_t")>>)

hipMemPoolDestroy ==
  Call("connection", <<F("mem_pool", "hipMemPool_t")>>, <<F("return_value", "hipError_t")>>)

hipMallocFromPoolAsync ==
  Call("connection", <<F("size", "size_t"), F("mem_pool", "hipMemPool_t"),
      F("stream", "hipStream_t")>>,
    <<F("dev_ptr", "void*"), F("return_value", "hipError_t")>>)

hipMemPoolExportPointer ==
  Call("connection", <<F("dev_ptr", "void*")>>,
    <<F("export_data", "hipMemPoolPtrExportData"), F("return_value", "hipError_t")>>)

hipMemPoolImportPointer ==
  Call("connection", <<F("mem_pool", "hipMemPool_t"), F("export_data", "hipMemPoolPtrExportData")>>,
    <<F("dev_ptr", "void*"), F("return_value", "hipError_t")>>)

hipMallocPitch ==
  Call("connection", <<F("width", "size_t"), F("height", "size_t")>>,
    <<F("ptr", "void*"), F("pitch", "size_t"), F("return_value", "hipError_t")>>)

hipMemAllocPitch ==
  Call("connection", <<F("widthInBytes", "size_t"), F("height", "size_t"),
      F("elementSizeBytes", "unsigned int")>>,
    <<F("dptr", "hipDeviceptr_t"), F("pitch", "size_t"), F("return_value", "hipError_t")>>)

hipFree ==
  Call("connection", <<F("ptr", "void*")>>, <<F("return_value", "hipError_t")>>)

hipMemcpyHtoD ==
  With([sizeBytes : Cnt],
  Call("connection", <<F("dst", "hipDeviceptr_t"), F("sizeBytes", "size_t"),
      Arr("src", "byte", {"sizeBytes"})>>,
    <<F("return_value", "hipError_t")>>))

hipMemcpyDtoH ==
  With([sizeBytes : Cnt],
  Call("connection", <<F("src", "hipDeviceptr_t"), F("sizeBytes", "size_t")>>,
    <<Arr("dst", "byte", {"sizeBytes"}), F("return_value", "hipError_t")>>))

hipMemcpyDtoD ==
  Call("connection", <<F("dst", "hipDeviceptr_t"), F("src", "hipDeviceptr_t"),
      F("sizeBytes", "size_t")>>,
    <<F("return_value", "hipError_t")>>)

hipMemcpyAtoD ==
  Call("connection", <<F("dstDevice", "hipDeviceptr_t"), F("srcArray", "hipArray_t"),
      F("srcOffset", "size_t"), F("ByteCount", "size_t")>>,
    <<F("return_value", "hipError_t")>>)

hipMemcpyDtoA ==
  Call("connection", <<F("dstArray", "hipArray_t"), F("dstOffset", "size_t"),
      F("srcDevice", "hipDeviceptr_t"), F("ByteCount", "size_t")>>,
    <<F("return_value", "hipError_t")>>)

hipMemcpyAtoA ==
  Call("connection", <<F("dstArray", "hipArray_t"), F("dstOffset", "size_t"),
      F("srcArray", "hipArray_t"), F("srcOffset", "size_t"), F("ByteCount", "size_t")>>,
    <<F("return_value", "hipError_t")>>)

hipMemcpyDtoDAsync ==
  Call("connection", <<F("dst", "hipDeviceptr_t"), F("src", "hipDeviceptr_t"),
      F("sizeBytes", "size_t"), F("stream", "hipStream_t")>>,
    <<F("return_value", "hipError_t")>>)

hipMemcpyAtoH ==
  With([count : Cnt],
  Call("connection", <<F("srcArray", "hipArray_t"), F("srcOffset", "size_t"),
      F("count", "size_t")>>,
    <<Arr("dst", "byte", {"count"}), F("return_value", "hipError_t")>>))

hipMemcpyHtoA ==
  With([count : Cnt],
  Call("connection", <<F("dstArray", "hipArray_t"), F("dstOffset", "size_t"), F("count", "size_t"),
      Arr("srcHost", "byte", {"count"})>>,
    <<F("return_value", "hipError_t")>>))

hipMemcpy2DArrayToArray ==
  Call("connection", <<F("dst", "hipArray_t"), F("wOffsetDst", "size_t"), F("hOffsetDst", "size_t"),
      F("src", "hipArray_const_t"), F("wOffsetSrc", "size_t"), F("hOffsetSrc", "size_t"),
      F("width", "size_t"), F("height", "size_t"), F("kind", "hipMemcpyKind")>>,
    <<F("return_value", "hipError_t")>>)

hipMemcpyPeer ==
  Call("connection", <<F("dst", "void*"), F("dstDeviceId", "int"), F("src", "void*"),
      F("srcDeviceId", "int"), F("sizeBytes", "size_t")>>,
    <<F("return_value", "hipError_t")>>)

hipMemcpyPeerAsync ==
  Call("connection", <<F("dst", "void*"), F("dstDeviceId", "int"), F("src", "void*"),
      F("srcDevice", "int"), F("sizeBytes", "size_t"), F("stream", "hipStream_t")>>,
    <<F("return_value", "hipError_t")>>)

hipMemset ==
  Call("connection", <<F("dst", "void*"), F("value", "int"), F("sizeBytes", "size_t")>>,
    <<F("return_value", "hipError_t")>>)

hipMemsetD8 ==
  Call("connection", <<F("dest", "hipDeviceptr_t"), F("value", "unsigned char"),
      F("count", "size_t")>>,
    <<F("return_value", "hipError_t")>>)

hipMemsetD8Async ==
  Call("connection", <<F("dest", "hipDeviceptr_t"), F("value", "unsigned char"),
      F("count", "size_t"), F("stream", "hipStream_t")>>,
    <<F("return_value", "hipError_t")>>)

hipMemsetD16 ==
  Call("connection", <<F("dest", "hipDeviceptr_t"), F("value", "unsigned short"),
      F("count", "size_t")>>,
    <<F("return_value", "hipError_t")>>)

hipMemsetD16Async ==
  Call("connection", <<F("dest", "hipDeviceptr_t"), F("value", "unsigned short"),
      F("count", "size_t"), F("stream", "hipStream_t")>>,
    <<F("return_value", "hipError_t")>>)

hipMemsetD32 ==
  Call("connection", <<F("dest", "hipDeviceptr_t"), F("value", "int"), F("count", "size_t")>>,
    <<F("return_value", "hipError_t")>>)

hipMemsetAsync ==
  Call("connection", <<F("dst", "void*"), F("value", "int"), F("sizeBytes", "size_t"),
      F("stream", "hipStream_t")>>,
    <<F("return_value", "hipError_t")>>)

hipMemsetD32Async ==
  Call("connection", <<F("dst", "hipDeviceptr_t"), F("value", "int"), F("count", "size_t"),
      F("stream", "hipStream_t")>>,
    <<F("return_value", "hipError_t")>>)

hipMemset2D ==
  Call("connection", <<F("dst", "void*"), F("pitch", "size_t"), F("value", "int"),
      F("width", "size_t"), F("height", "size_t")>>,
    <<F("return_value", "hipError_t")>>)

hipMemset2DAsync ==
  Call("connection", <<F("dst", "void*"), F("pitch", "size_t"), F("value", "int"),
      F("width", "size_t"), F("height", "size_t"), F("stream", "hipStream_t")>>,
    <<F("return_value", "hipError_t")>>)

hipMemset3D ==
  Call("connection", <<F("pitchedDevPtr", "hipPitchedPtr"), F("value", "int"),
      F("extent", "hipExtent")>>,
    <<F("return_value", "hipError_t")>>)

hipMemset3DAsync ==
  Call("connection", <<F("pitchedDevPtr", "hipPitchedPtr"), F("value", "int"),
      F("extent", "hipExtent"), F("stream", "hipStream_t")>>,
    <<F("return_value", "hipError_t")>>)

hipMemsetD2D8 ==
  Call("connection", <<F("dst", "hipDeviceptr_t"), F("dstPitch", "size_t"),
      F("value", "unsigned char"), F("width", "size_t"), F("height", "size_t")>>,
    <<F("return_value", "hipError_t")>>)

hipMemsetD2D8Async ==
  Call("connection", <<F("dst", "hipDeviceptr_t"), F("dstPitch", "size_t"),
      F("value", "unsigned char"), F("width", "size_t"), F("height", "size_t"),
      F("stream", "hipStream_t")>>,
    <<F("return_value", "hipError_t")>>)

hipMemsetD2D16 ==
  Call("connection", <<F("dst", "hipDeviceptr_t"), F("dstPitch", "size_t"),
      F("value", "unsigned short"), F("width", "size_t"), F("height", "size_t")>>,
    <<F("return_value", "hipError_t")>>)

hipMemsetD2D16Async ==
  Call("connection", <<F("dst", "hipDeviceptr_t"), F("dstPitch", "size_t"),
      F("value", "unsigned short"), F("width", "size_t"), F("height", "size_t"),
      F("stream", "hipStream_t")>>,
    <<F("return_value", "hipError_t")>>)

hipMemsetD2D32 ==
  Call("connection", <<F("dst", "hipDeviceptr_t"), F("dstPitch", "size_t"),
      F("value", "unsigned int"), F("width", "size_t"), F("height", "size_t")>>,
    <<F("return_value", "hipError_t")>>)

hipMemsetD2D32Async ==
  Call("connection", <<F("dst", "hipDeviceptr_t"), F("dstPitch", "size_t"),
      F("value", "unsigned int"), F("width", "size_t"), F("height", "size_t"),
      F("stream", "hipStream_t")>>,
    <<F("return_value", "hipError_t")>>)

hipMemGetInfo ==
  Call("connection", <<>>,
    <<F("free", "size_t"), F("total", "size_t"), F("return_value", "hipError_t")>>)

hipMemPtrGetInfo ==
  Call("connection", <<F("ptr", "void*")>>,
    <<F("size", "size_t"), F("return_value", "hipError_t")>>)

hipMemGetAddressRange ==
  With([pbase_present : Flag, psize_present : Flag],
  Call("connection", <<F("pbase_present", "uint8_t"),
      FIf("pbase_present", "pbase", "hipDeviceptr_t"), F("psize_present", "uint8_t"),
      FIf("psize_present", "psize", "size_t"), F("dptr", "hipDeviceptr_t")>>,
    <<FIf("pbase_present", "pbase", "hipDeviceptr_t"), FIf("psize_present", "psize", "size_t"),
        F("return_value", "hipError_t")>>))

hipMallocArray ==
  Call("connection", <<F("desc", "hipChannelFormatDesc"), F("width", "size_t"),
      F("height", "size_t"), F("flags", "unsigned int")>>,
    <<F("array", "hipArray_t"), F("return_value", "hipError_t")>>)

hipArrayCreate ==
  Call("connection", <<F("pAllocateArray", "HIP_ARRAY_DESCRIPTOR")>>,
    <<F("pHandle", "hipArray_t"), F("return_value", "hipError_t")>>)

hipArrayDestroy ==
  Call("connection", <<F("array", "hipArray_t")>>, <<F("return_value", "hipError_t")>>)

hipArray3DCreate ==
  Call("connection", <<F("pAllocateArray", "HIP_ARRAY3D_DESCRIPTOR")>>,
    <<F("array", "hipArray_t"), F("return_value", "hipError_t")>>)

hipMalloc3D ==
  Call("connection", <<F("extent", "hipExtent")>>,
    <<F("pitchedDevPtr", "hipPitchedPtr"), F("return_value", "hipError_t")>>)

hipFreeArray ==
  Call("connection", <<F("array", "hipArray_t")>>, <<F("return_value", "hipError_t")>>)

hipMalloc3DArray ==
  Call("connection", <<F("desc", "struct hipChannelFormatDesc"), F("extent", "struct hipExtent"),
      F("flags", "unsigned int")>>,
    <<F("array", "hipArray_t"), F("return_value", "hipError_t")>>)

hipArrayGetInfo ==
  With([desc_present : Flag, extent_present : Flag, flags_present : Flag],
  Call("connection", <<F("desc_present", "uint8_t"),
      FIf("desc_present", "desc", "hipChannelFormatDesc"), F("extent_present", "uint8_t"),
      FIf("extent_present", "extent", "hipExtent"), F("flags_present", "uint8_t"),
      FIf("flags_present", "flags", "unsigned int"), F("array", "hipArray_t")>>,
    <<FIf("desc_present", "desc", "hipChannelFormatDesc"),
        FIf("extent_present", "extent", "hipExtent"), FIf("flags_present", "flags", "unsigned int"),
        F("return_value", "hipError_t")>>))

hipArrayGetDescriptor ==
  Call("connection", <<F("array", "hipArray_t")>>,
    <<F("pArrayDescriptor", "HIP_ARRAY_DESCRIPTOR"), F("return_value", "hipError_t")>>)

hipArray3DGetDescriptor ==
  Call("connection", <<F("array", "hipArray_t")>>,
    <<F("pArrayDescriptor", "HIP_ARRAY3D_DESCRIPTOR"), F("return_value", "hipError_t")>>)

hipMallocMipmappedArray ==
  Call("connection", <<F("desc", "struct hipChannelFormatDesc"), F("extent", "struct hipExtent"),
      F("numLevels", "unsigned int"), F("flags", "unsigned int")>>,
    <<F("mipmappedArray", "hipMipmappedArray_t"), F("return_value", "hipError_t")>>)

hipFreeMipmappedArray ==
  Call("connection", <<F("mipmappedArray", "hipMipmappedArray_t")>>,
    <<F("return_value", "hipError_t")>>)

hipMipmappedArrayCreate ==
  Call("connection", <<F("pMipmappedArrayDesc", "HIP_ARRAY3D_DESCRIPTOR"),
      F("numMipmapLevels", "unsigned int")>>,
    <<F("pHandle", "hipMipmappedArray_t"), F("return_value", "hipError_t")>>)

hipMipmappedArrayDestroy ==
  Call("connection", <<F("hMipmappedArray", "hipMipmappedArray_t")>>,
    <<F("return_value", "hipError_t")>>)

hipMipmappedArrayGetLevel ==
  Call("connection", <<F("hMipMappedArray", "hipMipmappedArray_t"), F("level", "unsigned int")>>,
    <<F("pLevelArray", "hipArray_t"), F("return_value", "hipError_t")>>)

hipCreateTextureObject ==
  With([pTexDesc_present : Flag, pResViewDesc_present : Flag],
  Call("connection", <<F("pResDesc", "hipResourceDesc"), F("pTexDesc_present", "uint8_t"),
      FIf("pTexDesc_present", "pTexDesc", "hipTextureDesc"), F("pResViewDesc_present", "uint8_t"),
      FIf("pResViewDesc_present", "pResViewDesc", "struct hipResourceViewDesc")>>,
    <<F("pTexObject", "hipTextureObject_t"), F("return_value", "hipError_t")>>))

hipDestroyTextureObject ==
  Call("connection", <<F("textureObject", "hipTextureObject_t")>>,
    <<F("return_value", "hipError_t")>>)

hipGetTextureObjectResourceDesc ==
  Call("connection", <<F("textureObject", "hipTextureObject_t")>>,
    <<F("pResDesc", "hipResourceDesc"), F("return_value", "hipError_t")>>)

hipGetTextureObjectResourceViewDesc ==
  Call("connection", <<F("textureObject", "hipTextureObject_t")>>,
    <<F("pResViewDesc", "struct hipResourceViewDesc"), F("return_value", "hipError_t")>>)

hipGetTextureObjectTextureDesc ==
  Call("connection", <<F("textureObject", "hipTextureObject_t")>>,
    <<F("pTexDesc", "hipTextureDesc"), F("return_value", "hipError_t")>>)

hipTexObjectCreate ==
  With([pTexDesc_present : Flag, pResViewDesc_present : Flag],
  Call("connection", <<F("pResDesc", "HIP_RESOURCE_DESC"), F("pTexDesc_present", "uint8_t"),
      FIf("pTexDesc_present", "pTexDesc", "HIP_TEXTURE_DESC"), F("pResViewDesc_present", "uint8_t"),
      FIf("pResViewDesc_present", "pResViewDesc", "HIP_RESOURCE_VIEW_DESC")>>,
    <<F("pTexObject", "hipTextureObject_t"), F("return_value", "hipError_t")>>))

hipTexObjectDestroy ==
  Call("connection", <<F("texObject", "hipTextureObject_t")>>, <<F("return_value", "hipError_t")>>)

hipTexObjectGetResourceDesc ==
  Call("connection", <<F("texObject", "hipTextureObject_t")>>,
    <<F("pResDesc", "HIP_RESOURCE_DESC"), F("return_value", "hipError_t")>>)

hipTexObjectGetResourceViewDesc ==
  Call("connection", <<F("texObject", "hipTextureObject_t")>>,
    <<F("pResViewDesc", "HIP_RESOURCE_VIEW_DESC"), F("return_value", "hipError_t")>>)

hipTexObjectGetTextureDesc ==
  Call("connection", <<F("texObject", "hipTextureObject_t")>>,
    <<F("pTexDesc", "HIP_TEXTURE_DESC"), F("return_value", "hipError_t")>>)

hipCreateSurfaceObject ==
  Call("connection", <<F("pResDesc", "hipResourceDesc")>>,
    <<F("pSurfObject", "hipSurfaceObject_t"), F("return_value", "hipError_t")>>)

hipDestroySurfaceObject ==
  Call("connection", <<F("surfaceObject", "hipSurfaceObject_t")>>,
    <<F("return_value", "hipError_t")>>)

hipMemAddressFree ==
  Call("connection", <<F("devPtr", "void*"), F("size", "size_t")>>,
    <<F("return_value", "hipError_t")>>)

hipMemAddressReserve ==
  Call("connection", <<F("size", "size_t"), F("alignment", "size_t"), F("addr", "void*"),
      F("flags", "unsigned long long")>>,
    <<F("ptr", "void*"), F("return_value", "hipError_t")>>)

hipMemCreate ==
  Call("connection", <<F("size", "size_t"), F("prop", "hipMemAllocationProp"),
      F("flags", "unsigned long long")>>,
    <<F("handle", "hipMemGenericAllocationHandle_t"), F("return_value", "hipError_t")>>)

hipMemGetAccess ==
  Call("connection", <<F("location", "hipMemLocation"), F("ptr", "void*")>>,
    <<F("flags", "unsigned long long"), F("return_value", "hipError_t")>>)

hipMemGetAllocationGranularity ==
  Call("connection", <<F("prop", "hipMemAllocationProp"),
      F("option", "hipMemAllocationGranularity_flags")>>,
    <<F("granularity", "size_t"), F("return_value", "hipError_t")>>)

hipMemGetAllocationPropertiesFromHandle ==
  Call("connection", <<F("handle", "hipMemGenericAllocationHandle_t")>>,
    <<F("prop", "hipMemAllocationProp"), F("return_value", "hipError_t")>>)

hipMemMap ==
  Call("connection", <<F("ptr", "void*"), F("size", "size_t"), F("offset", "size_t"),
      F("handle", "hipMemGenericAllocationHandle_t"), F("flags", "unsigned long long")>>,
    <<F("return_value", "hipError_t")>>)

hipMemMapArrayAsync ==
  With([count : Cnt],
  Call("connection", <<F("count", "unsigned int"), Arr("mapInfoList", "hipArrayMapInfo", {"count"}),
      F("stream", "hipStream_t")>>,
    <<F("return_value", "hipError_t")>>))

hipMemRelease ==
  Call("connection", <<F("handle", "hipMemGenericAllocationHandle_t")>>,
    <<F("return_value", "hipError_t")>>)

hipMemRetainAllocationHandle ==
  Call("connection", <<F("addr", "void*")>>,
    <<F("handle", "hipMemGenericAllocationHandle_t"), F("return_value", "hipError_t")>>)

hipMemSetAccess ==
  With([count : Cnt],
  Call("connection", <<F("ptr", "void*"), F("size", "size_t"), F("count", "size_t"),
      Arr("desc", "hipMemAccessDesc", {"count"})>>,
    <<F("return_value", "hipError_t")>>))

hipMemUnmap ==
  Call("connection", <<F("ptr", "void*"), F("size", "size_t")>>,
    <<F("return_value", "hipError_t")>>)
=============================================================================
